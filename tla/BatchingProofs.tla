--------------------------- MODULE BatchingProofs ---------------------------
(* Theorems about BatchingSink, for every set of sinks and writers, every  *)
(* batch size, number of attempts and pool size, and any number of events  *)
(* and restarts.                                                           *)
EXTENDS BatchingSink, FiniteSetTheorems, TLAPS

USE BreakerAssumption, PoolAssumption

BatchState == Seq(Events)

SendState ==
  [pc : {"idle", "waiting", "posting", "failing", "sleeping"}, events : SUBSET Events,
   attempt : 0 .. MaxAttempts, client : Clients \cup {NoClient}, token : Nat]

PoolState ==
  [idle : Seq(Clients), created : 0 .. MaxClients, inUse : Int,
   closed : BOOLEAN, dead : SUBSET Clients]

FateState == [running : BOOLEAN, outcome : Outcome]

-----------------------------------------------------------------------------
(* Batches, fates and breakers.                                            *)

LEMMA AppendedBatch ==
  ASSUME NEW S, NEW b \in Seq(S), NEW e \in S
  PROVE  /\ Append(b, e) \in Seq(S)
         /\ EventsOf(Append(b, e)) = EventsOf(b) \cup {e}
         /\ EventsOf(b) \subseteq S
         /\ EventsOf(<<>>) = {}
         /\ (\A i, j \in 1 .. Len(b) : b[i] = b[j] => i = j) /\ e \notin EventsOf(b)
              => \A i, j \in 1 .. Len(Append(b, e)) :
                   Append(b, e)[i] = Append(b, e)[j] => i = j
<1> DEFINE c == Append(b, e)
<1>1. /\ c \in Seq(S) /\ Len(c) = Len(b) + 1 /\ Len(b) \in Nat
      /\ c[Len(b) + 1] = e
      /\ \A i \in 1 .. Len(b) : c[i] = b[i]
  OBVIOUS
<1>2. EventsOf(b) \subseteq S /\ EventsOf(<<>>) = {}
  BY DEF EventsOf
<1>3. EventsOf(c) = EventsOf(b) \cup {e}
  <2> HIDE DEF c
  <2>1. ASSUME NEW x \in EventsOf(c) PROVE x \in EventsOf(b) \cup {e}
    <3>1. PICK i \in 1 .. Len(b) + 1 : x = c[i]
      BY <1>1, <2>1 DEF EventsOf
    <3> QED
      BY <1>1, <3>1 DEF EventsOf
  <2>2. ASSUME NEW x \in EventsOf(b) PROVE x \in EventsOf(c)
    <3>1. PICK i \in 1 .. Len(b) : x = b[i]
      BY <2>2 DEF EventsOf
    <3>2. i \in 1 .. Len(c) /\ c[i] = x
      BY <1>1, <3>1
    <3> QED
      BY <3>2 DEF EventsOf
  <2>3. e \in EventsOf(c)
    <3>1. Len(c) \in 1 .. Len(c) /\ c[Len(c)] = e
      BY <1>1
    <3> QED
      BY <3>1 DEF EventsOf
  <2> QED
    BY <2>1, <2>2, <2>3
<1>4. ASSUME \A i, j \in 1 .. Len(b) : b[i] = b[j] => i = j, e \notin EventsOf(b)
      PROVE  \A i, j \in 1 .. Len(c) : c[i] = c[j] => i = j
  <2> HIDE DEF c
  <2>1. \A i \in 1 .. Len(b) : b[i] # e
    BY <1>4 DEF EventsOf
  <2> QED
    BY <1>1, <1>4, <2>1
<1> QED
  BY <1>1, <1>2, <1>3, <1>4

LEMMA SettledFacts ==
  ASSUME NEW f \in [Events -> FateState], NEW es, NEW o \in Outcome
  PROVE  /\ Settled(f, es, o) \in [Events -> FateState]
         /\ \A e \in Events :
              /\ Settled(f, es, o)[e].outcome = IF e \in es THEN o ELSE f[e].outcome
              /\ Settled(f, es, o)[e].running = f[e].running
<1>1. ASSUME NEW e \in Events
      PROVE  [f[e] EXCEPT !.outcome = o] = [running |-> f[e].running, outcome |-> o]
  BY DEF FateState
<1> QED
  BY <1>1 DEF Settled, FateState

LEMMA WrittenFate ==
  ASSUME NEW f \in [Events -> FateState], NEW e \in Events, NEW b \in BOOLEAN
  PROVE  LET g == [f EXCEPT ![e].running = b]
         IN /\ g \in [Events -> FateState]
            /\ g[e].running = b /\ g[e].outcome = f[e].outcome
            /\ \A x \in Events \ {e} : g[x] = f[x]
<1> DEFINE r == [f[e] EXCEPT !.running = b]
           g == [f EXCEPT ![e] = r]
<1>1. r \in FateState /\ r.running = b /\ r.outcome = f[e].outcome
  BY DEF FateState
<1> HIDE DEF r
<1>2. /\ g \in [Events -> FateState] /\ g[e] = r
      /\ \A x \in Events \ {e} : g[x] = f[x]
  BY <1>1
<1> QED
  BY <1>1, <1>2 DEF r

LEMMA BreakerTyped ==
  ASSUME NEW b \in Breaker
  PROVE  /\ Asked(b) \in Breaker /\ Succeeded(b) \in Breaker
         /\ Failed(b) \in Breaker /\ Aged(b) \in Breaker
<1>1. Asked(b) \in Breaker
  <2> DEFINE n == IF b.state = "open" THEN 1 ELSE b.probes + 1
  <2>1. CASE b.state = "closed" \/ ~Allows(b)
    BY <2>1 DEF Asked, Breaker
  <2>2. CASE b.state # "closed" /\ Allows(b)
    <3>1. n \in 0 .. ProbeMax
      BY <2>2 DEF Breaker, CircuitState, Allows
    <3>2. Asked(b) = [state |-> "half_open", failures |-> b.failures,
                      wait |-> b.wait, probes |-> n]
      BY <2>2 DEF Breaker, Asked
    <3> QED
      BY <3>1, <3>2 DEF Breaker, CircuitState
  <2> QED
    BY <2>1, <2>2
<1>2. Succeeded(b) \in Breaker
  <2> DEFINE next == IF b.state = "half_open" THEN "closed" ELSE b.state
  <2>1. next \in CircuitState
    BY DEF Breaker, CircuitState
  <2>2. Succeeded(b) = [b EXCEPT !.state = next, !.failures = 0]
    BY DEF Succeeded
  <2> HIDE DEF next
  <2>3. Succeeded(b) = [state |-> next, failures |-> 0, wait |-> b.wait,
                        probes |-> b.probes]
    BY <2>2 DEF Breaker
  <2> QED
    BY <2>1, <2>3 DEF Breaker
<1>3. Failed(b) \in Breaker
  <2> DEFINE next == IF EmitsOpen(b) THEN "open" ELSE b.state
  <2>1. OneMore(b) \in 0 .. FailureThreshold
    BY DEF Breaker, OneMore
  <2>2. next \in CircuitState
    BY DEF Breaker, CircuitState
  <2>3. Failed(b) = [b EXCEPT !.state = next, !.failures = OneMore(b), !.wait = 0]
    BY DEF Failed
  <2> HIDE DEF next
  <2>4. Failed(b) = [state |-> next, failures |-> OneMore(b), wait |-> 0,
                     probes |-> b.probes]
    BY <2>3 DEF Breaker
  <2> QED
    BY <2>1, <2>2, <2>4 DEF Breaker
<1>4. Aged(b) \in Breaker
  BY DEF Aged, Breaker
<1> QED
  BY <1>1, <1>2, <1>3, <1>4

-----------------------------------------------------------------------------
(***************************************************************************)
(* The pool: no idle client twice, and none that was never created.        *)
(***************************************************************************)
Tidy(p) ==
  /\ \A i, j \in 1 .. Len(p.idle) : p.idle[i] = p.idle[j] => i = j
  /\ \A c \in EventsOf(p.idle) : c <= p.created
  /\ p.dead \subseteq 1 .. p.created

LEMMA HeadAndTail ==
  ASSUME NEW S, NEW q \in Seq(S), q # <<>>,
         \A i, j \in 1 .. Len(q) : q[i] = q[j] => i = j
  PROVE  /\ Head(q) \in S /\ Head(q) \in EventsOf(q)
         /\ Tail(q) \in Seq(S)
         /\ \A i, j \in 1 .. Len(Tail(q)) : Tail(q)[i] = Tail(q)[j] => i = j
         /\ EventsOf(Tail(q)) = EventsOf(q) \ {Head(q)}
<1> DEFINE t == Tail(q)
<1>1. /\ Len(q) \in Nat /\ Len(q) > 0 /\ Len(t) = Len(q) - 1
      /\ t \in Seq(S) /\ Head(q) = q[1] /\ q[1] \in S
      /\ \A i \in 1 .. Len(t) : t[i] = q[i + 1]
  OBVIOUS
<1> HIDE DEF t
<1>2. \A i, j \in 1 .. Len(t) : t[i] = t[j] => i = j
  <2>1. ASSUME NEW i \in 1 .. Len(t), NEW j \in 1 .. Len(t), t[i] = t[j]
        PROVE  i = j
    <3>1. i + 1 \in 1 .. Len(q) /\ j + 1 \in 1 .. Len(q) /\ q[i + 1] = q[j + 1]
      BY <1>1, <2>1
    <3> QED
      BY <3>1, <2>1, <1>1
  <2> QED
    BY <2>1
<1>3. 1 \in 1 .. Len(q) /\ q[1] \in EventsOf(q)
  BY <1>1 DEF EventsOf
<1>4. ASSUME NEW x \in EventsOf(t) PROVE x \in EventsOf(q) \ {q[1]}
  <2>1. PICK i \in 1 .. Len(t) : x = t[i]
    BY <1>4 DEF EventsOf
  <2>2. i + 1 \in 1 .. Len(q) /\ x = q[i + 1] /\ i + 1 # 1
    BY <1>1, <2>1
  <2>3. q[i + 1] # q[1]
    BY <1>3, <2>2
  <2> QED
    BY <2>2, <2>3 DEF EventsOf
<1>5. ASSUME NEW x \in EventsOf(q) \ {q[1]} PROVE x \in EventsOf(t)
  <2>1. PICK i \in 1 .. Len(q) : x = q[i]
    BY <1>5 DEF EventsOf
  <2>2. i - 1 \in 1 .. Len(t) /\ t[i - 1] = x
    <3>1. i # 1
      BY <2>1, <1>5
    <3>2. i - 1 \in 1 .. Len(t) /\ (i - 1) + 1 = i
      BY <3>1, <1>1
    <3> QED
      BY <3>2, <1>1, <2>1
  <2> QED
    BY <2>2 DEF EventsOf
<1>6. EventsOf(t) = EventsOf(q) \ {q[1]}
  BY <1>4, <1>5
<1> QED
  BY <1>1, <1>2, <1>3, <1>6 DEF t

(* acquire() hands out an idle client or a new one, and nothing else moves. *)
LEMMA AcquiredFacts ==
  ASSUME NEW p \in PoolState, Tidy(p), HasIdle(p) \/ MayCreate(p)
  PROVE  LET c == NextClient(p)
             a == AcquiredFrom(p)
         IN /\ c \in Clients /\ a \in PoolState /\ Tidy(a)
            /\ c <= a.created /\ p.created <= a.created
            /\ c \in EventsOf(p.idle) \/ c > p.created
            /\ EventsOf(a.idle) = EventsOf(p.idle) \ {c}
            /\ a.inUse = p.inUse + 1 /\ a.dead = p.dead
<1> DEFINE c == NextClient(p)
           a == AcquiredFrom(p)
<1>1. CASE HasIdle(p)
  <2>1. a = [idle |-> Tail(p.idle), created |-> p.created, inUse |-> p.inUse + 1,
             closed |-> p.closed, dead |-> p.dead]
    BY <1>1 DEF AcquiredFrom, PoolState
  <2>2. c = Head(p.idle) /\ p.idle \in Seq(Clients) /\ p.idle # <<>>
    BY <1>1 DEF NextClient, HasIdle, PoolState
  <2>3. /\ c \in Clients /\ c \in EventsOf(p.idle)
        /\ Tail(p.idle) \in Seq(Clients)
        /\ \A i, j \in 1 .. Len(Tail(p.idle)) :
             Tail(p.idle)[i] = Tail(p.idle)[j] => i = j
        /\ EventsOf(Tail(p.idle)) = EventsOf(p.idle) \ {c}
    BY <2>2, HeadAndTail DEF Tidy
  <2>4. /\ a.idle = Tail(p.idle) /\ a.created = p.created /\ a.inUse = p.inUse + 1
        /\ a.dead = p.dead /\ a \in PoolState
    BY <2>1, <2>3 DEF PoolState
  <2>5. Tidy(a) /\ c <= p.created
    BY <2>3, <2>4 DEF Tidy
  <2> QED
    BY <2>3, <2>4, <2>5 DEF PoolState
<1>2. CASE ~HasIdle(p)
  <2>1. a = [idle |-> p.idle, created |-> p.created + 1, inUse |-> p.inUse + 1,
             closed |-> p.closed, dead |-> p.dead]
    BY <1>2 DEF AcquiredFrom, PoolState
  <2>2. c = p.created + 1 /\ p.created + 1 \in 0 .. MaxClients /\ c \in Clients
    BY <1>2 DEF NextClient, MayCreate, PoolState, Clients
  <2>3. /\ a.idle = p.idle /\ a.created = p.created + 1 /\ a.inUse = p.inUse + 1
        /\ a.dead = p.dead /\ a \in PoolState
    BY <2>1, <2>2 DEF PoolState
  <2>4. EventsOf(p.idle) = {}
    BY <1>2 DEF HasIdle, EventsOf
  <2>5. Tidy(a)
    BY <2>3, <2>4 DEF Tidy, PoolState
  <2> QED
    BY <2>2, <2>3, <2>4, <2>5 DEF PoolState
<1> QED
  BY <1>1, <1>2

(* The end of acquire()'s context.                                         *)
LEMMA ReleasedFacts ==
  ASSUME NEW p \in PoolState, Tidy(p),
         NEW c \in Clients, c <= p.created, c \notin EventsOf(p.idle)
  PROVE  LET r == ReleasedTo(p, c)
         IN /\ r \in PoolState /\ Tidy(r)
            /\ r.created = p.created /\ r.inUse = p.inUse - 1
            /\ EventsOf(r.idle) \subseteq EventsOf(p.idle) \cup {c}
            /\ r.dead = {} => p.dead = {}
<1> DEFINE r == ReleasedTo(p, c)
<1>1. CASE p.closed
  <2>1. r = [idle |-> p.idle, created |-> p.created, inUse |-> p.inUse - 1,
             closed |-> p.closed, dead |-> p.dead \cup {c}]
    BY <1>1 DEF ReleasedTo, PoolState
  <2>2. /\ r.idle = p.idle /\ r.created = p.created /\ r.inUse = p.inUse - 1
        /\ r.dead = p.dead \cup {c} /\ r \in PoolState
    BY <2>1 DEF PoolState
  <2>3. c \in 1 .. p.created
    BY DEF Clients, PoolState
  <2> QED
    BY <2>2, <2>3 DEF Tidy
<1>2. CASE ~p.closed
  <2>1. r = [idle |-> Append(p.idle, c), created |-> p.created, inUse |-> p.inUse - 1,
             closed |-> p.closed, dead |-> p.dead]
    BY <1>2 DEF ReleasedTo, PoolState
  <2>2. p.idle \in Seq(Clients)
    BY DEF PoolState
  <2>3. /\ Append(p.idle, c) \in Seq(Clients)
        /\ EventsOf(Append(p.idle, c)) = EventsOf(p.idle) \cup {c}
        /\ \A i, j \in 1 .. Len(Append(p.idle, c)) :
             Append(p.idle, c)[i] = Append(p.idle, c)[j] => i = j
    BY <2>2, AppendedBatch DEF Tidy
  <2>4. /\ r.idle = Append(p.idle, c) /\ r.created = p.created
        /\ r.inUse = p.inUse - 1 /\ r.dead = p.dead /\ r \in PoolState
    BY <2>1, <2>3 DEF PoolState
  <2> QED
    BY <2>3, <2>4 DEF Tidy
<1> QED
  BY <1>1, <1>2 DEF PoolState

LEMMA PoolParts ==
  ASSUME NEW p \in PoolState
  PROVE  /\ p = [idle |-> p.idle, created |-> p.created, inUse |-> p.inUse,
                 closed |-> p.closed, dead |-> p.dead]
         /\ p.idle \in Seq(Clients) /\ p.created \in 0 .. MaxClients /\ p.inUse \in Int
         /\ p.closed \in BOOLEAN /\ p.dead \in SUBSET Clients
  BY DEF PoolState

LEMMA PoolMade ==
  ASSUME NEW s \in Seq(Clients), NEW c \in 0 .. MaxClients, NEW u \in Int,
         NEW b \in BOOLEAN, NEW d \in SUBSET Clients
  PROVE  [idle |-> s, created |-> c, inUse |-> u, closed |-> b, dead |-> d] \in PoolState
  BY DEF PoolState

(* cleanup() and start().                                                  *)
LEMMA ClosedFacts ==
  ASSUME NEW p \in PoolState, Tidy(p)
  PROVE  /\ CleanedUp(p) \in PoolState /\ Tidy(CleanedUp(p))
         /\ CleanedUp(p).created = p.created
         /\ EventsOf(CleanedUp(p).idle) = {}
         /\ CleanedUp(p).inUse = 0
         /\ CleanedUp(p).dead = 1 .. p.created
         /\ Reopened(p) \in PoolState /\ Tidy(Reopened(p))
         /\ Reopened(p).idle = p.idle /\ Reopened(p).created = p.created
         /\ Reopened(p).inUse = p.inUse /\ Reopened(p).dead = p.dead
<1>1. 1 .. p.created \subseteq Clients /\ EventsOf(<<>>) = {}
  BY DEF PoolState, Clients, EventsOf
<1>2. /\ CleanedUp(p).idle = <<>> /\ CleanedUp(p).created = p.created
      /\ CleanedUp(p).inUse = 0 /\ CleanedUp(p).dead = 1 .. p.created
  BY DEF CleanedUp, PoolState
<1>3. CleanedUp(p) \in PoolState
  <2>1. CleanedUp(p) = [idle |-> <<>>, created |-> p.created, inUse |-> 0,
                        closed |-> TRUE, dead |-> 1 .. p.created]
    BY DEF CleanedUp
  <2>2. /\ <<>> \in Seq(Clients) /\ p.created \in 0 .. MaxClients /\ 0 \in Int
        /\ TRUE \in BOOLEAN /\ 1 .. p.created \in SUBSET Clients
    BY <1>1, PoolParts
  <2>3. [idle |-> <<>>, created |-> p.created, inUse |-> 0,
         closed |-> TRUE, dead |-> 1 .. p.created] \in PoolState
    BY <2>2, PoolMade
  <2> QED
    BY <2>1, <2>3, Zenon
<1>4. /\ Reopened(p).idle = p.idle /\ Reopened(p).created = p.created
      /\ Reopened(p).inUse = p.inUse /\ Reopened(p).dead = p.dead
  BY DEF Reopened, PoolState
<1>5. Reopened(p) \in PoolState
  BY DEF Reopened, PoolState
<1> QED
  BY <1>1, <1>2, <1>3, <1>4, <1>5 DEF Tidy, PoolState

-----------------------------------------------------------------------------
(***************************************************************************)
(* What every sender is doing at each point of a send, and the pool as the *)
(* senders see it.                                                         *)
(***************************************************************************)
SendShape ==
  \A t \in Senders :
    /\ send[t].pc = "waiting" => kind = "http" /\ send[t].client = NoClient
    /\ send[t].pc = "sleeping" => send[t].attempt < MaxAttempts
    /\ kind # "http" => send[t].client = NoClient
    /\ kind = "http" /\ send[t].pc \in {"posting", "failing", "sleeping"} =>
         send[t].client # NoClient

Holders == {t \in Senders : send[t].client # NoClient}

PoolInv ==
  /\ Tidy(pool)
  /\ \A t \in Holders :
       send[t].client <= pool.created /\ send[t].client \notin EventsOf(pool.idle)
  /\ \A s, t \in Holders : send[s].client = send[t].client => s = t
  /\ pool.dead = {} => pool.inUse = Cardinality(Holders)

Shape == TypeOK /\ SendShape /\ PoolInv

LEMMA SendersFinite == IsFiniteSet(Senders)
<1>1. IsFiniteSet(Loops)
  BY FS_Interval, BatchingAssumption DEF Loops
<1>2. IsFiniteSet({Owner})
  BY FS_Singleton
<1> QED
  BY <1>1, <1>2, FS_Union, BatchingAssumption DEF Senders

LEMMA TypedParts ==
  ASSUME Shape
  PROVE  /\ send \in [Senders -> SendState] /\ pool \in PoolState
         /\ fate \in [Events -> FateState] /\ batch \in BatchState
         /\ IsFiniteSet(Holders) /\ Tidy(pool)
<1>1. IsFiniteSet(Holders)
  BY SendersFinite, FS_Subset DEF Holders
<1> QED
  BY <1>1 DEF Shape, TypeOK, SendState, PoolState, FateState, BatchState, PoolInv

(* Who holds which client is untouched.                                    *)
LEMMA PoolKept ==
  ASSUME Shape, pool' = pool,
         \A t \in Senders : send'[t].client = send[t].client
  PROVE  PoolInv'
<1>1. Holders' = Holders
  BY DEF Holders
<1> QED
  BY <1>1 DEF Holders, Shape, PoolInv

(* A sender without a client gets one.                                     *)
LEMMA PoolAcquired ==
  ASSUME Shape, NEW t \in Senders, NEW r \in SendState,
         send[t].client = NoClient, HasIdle(pool) \/ MayCreate(pool),
         r.client = NextClient(pool), pool' = AcquiredFrom(pool),
         send' = [send EXCEPT ![t] = r]
  PROVE  PoolInv' /\ pool' \in PoolState /\ r.client # NoClient
<1>1. /\ send \in [Senders -> SendState] /\ pool \in PoolState
      /\ IsFiniteSet(Holders) /\ Tidy(pool)
  BY TypedParts
<1>2. /\ r.client \in Clients /\ pool' \in PoolState /\ Tidy(pool')
      /\ r.client <= pool'.created /\ pool.created <= pool'.created
      /\ r.client \in EventsOf(pool.idle) \/ r.client > pool.created
      /\ EventsOf(pool'.idle) = EventsOf(pool.idle) \ {r.client}
      /\ pool'.inUse = pool.inUse + 1 /\ pool'.dead = pool.dead
  BY <1>1, AcquiredFacts
<1>3. r.client # NoClient
  BY <1>2 DEF Clients, NoClient
<1>4. \A s \in Senders : send'[s] = IF s = t THEN r ELSE send[s]
  BY <1>1
<1>5. Holders' = Holders \cup {t} /\ t \notin Holders
  BY <1>3, <1>4 DEF Holders
<1>6. \A s \in Holders :
        /\ send'[s].client = send[s].client /\ send[s].client # r.client
        /\ send[s].client <= pool'.created /\ send[s].client \notin EventsOf(pool'.idle)
  <2> TAKE s \in Holders
  <2>1. s # t /\ s \in Senders
    BY <1>5 DEF Holders
  <2>2. send[s].client <= pool.created /\ send[s].client \notin EventsOf(pool.idle)
    BY DEF Shape, PoolInv
  <2>3. send[s].client \in Clients \cup {NoClient}
    BY <1>1, <2>1 DEF SendState
  <2> QED
    BY <1>1, <1>2, <1>4, <2>1, <2>2, <2>3 DEF Clients, NoClient, PoolState
<1>7. Cardinality(Holders') = Cardinality(Holders) + 1
  BY <1>1, <1>5, FS_AddElement
<1>8. send'[t].client = r.client
  BY <1>4
<1>9. \A s \in Holders' :
        /\ send'[s].client <= pool'.created
        /\ send'[s].client \notin EventsOf(pool'.idle)
  BY <1>2, <1>5, <1>6, <1>8
<1>10. \A s, u \in Holders' : send'[s].client = send'[u].client => s = u
  BY <1>5, <1>6, <1>8 DEF Shape, PoolInv
<1>11. pool'.dead = {} => pool'.inUse = Cardinality(Holders')
  BY <1>2, <1>7 DEF Shape, PoolInv
<1> QED
  BY <1>2, <1>3, <1>9, <1>10, <1>11 DEF PoolInv

(* A holder gives its client back.                                         *)
LEMMA PoolReleased ==
  ASSUME Shape, NEW t \in Senders, NEW r \in SendState,
         send[t].client # NoClient, r.client = NoClient,
         pool' = ReleasedTo(pool, send[t].client),
         send' = [send EXCEPT ![t] = r]
  PROVE  PoolInv' /\ pool' \in PoolState
<1> DEFINE c == send[t].client
<1>1. /\ send \in [Senders -> SendState] /\ pool \in PoolState
      /\ IsFiniteSet(Holders) /\ Tidy(pool)
  BY TypedParts
<1>2. t \in Holders /\ c \in Clients
  BY <1>1 DEF Holders, SendState
<1>3. c <= pool.created /\ c \notin EventsOf(pool.idle)
  BY <1>2 DEF Shape, PoolInv
<1>4. /\ pool' \in PoolState /\ Tidy(pool')
      /\ pool'.created = pool.created /\ pool'.inUse = pool.inUse - 1
      /\ EventsOf(pool'.idle) \subseteq EventsOf(pool.idle) \cup {c}
      /\ pool'.dead = {} => pool.dead = {}
  BY <1>1, <1>2, <1>3, ReleasedFacts
<1>5. \A s \in Senders : send'[s] = IF s = t THEN r ELSE send[s]
  BY <1>1
<1>6. Holders' = Holders \ {t}
  BY <1>5 DEF Holders
<1>7. \A s \in Holders' :
        /\ s \in Holders /\ send'[s].client = send[s].client
        /\ send[s].client # c
  BY <1>2, <1>5, <1>6 DEF Holders, Shape, PoolInv
<1>8. Cardinality(Holders') = Cardinality(Holders) - 1
  BY <1>1, <1>2, <1>6, FS_RemoveElement
<1>9. \A s \in Holders' :
        /\ send'[s].client <= pool'.created
        /\ send'[s].client \notin EventsOf(pool'.idle)
  BY <1>4, <1>7 DEF Shape, PoolInv
<1>10. \A s, u \in Holders' : send'[s].client = send'[u].client => s = u
  BY <1>7 DEF Shape, PoolInv
<1>11. pool'.dead = {} => pool'.inUse = Cardinality(Holders')
  BY <1>4, <1>8 DEF Shape, PoolInv
<1> QED
  BY <1>4, <1>9, <1>10, <1>11 DEF PoolInv

(* The pool is closed or opened again under its holders.                   *)
LEMMA PoolSwitched ==
  ASSUME Shape, UNCHANGED send,
         pool' = CleanedUp(pool) \/ pool' = Reopened(pool)
  PROVE  PoolInv' /\ pool' \in PoolState
<1>1. /\ send \in [Senders -> SendState] /\ pool \in PoolState /\ Tidy(pool)
  BY TypedParts
<1>2. Holders' = Holders /\ \A t \in Holders : send'[t] = send[t]
  BY DEF Holders
<1>3. CASE pool' = Reopened(pool)
  <2>1. /\ pool' \in PoolState /\ Tidy(pool') /\ pool'.idle = pool.idle
        /\ pool'.created = pool.created /\ pool'.inUse = pool.inUse
        /\ pool'.dead = pool.dead
    BY <1>1, <1>3, ClosedFacts
  <2> QED
    BY <1>2, <2>1 DEF Shape, PoolInv
<1>4. CASE pool' = CleanedUp(pool)
  <2>1. /\ pool' \in PoolState /\ Tidy(pool') /\ EventsOf(pool'.idle) = {}
        /\ pool'.created = pool.created /\ pool'.inUse = 0
        /\ pool'.dead = 1 .. pool.created
    BY <1>1, <1>4, ClosedFacts
  <2>2. ASSUME pool'.dead = {} PROVE Cardinality(Holders') = 0
    <3>1. ~(pool.created >= 1) /\ pool.created \in Nat
      <4>1. pool.created \in Nat
        BY <1>1 DEF PoolState
      <4>2. pool.created >= 1 => 1 \in 1 .. pool.created
        BY <4>1
      <4> QED
        BY <2>1, <2>2, <4>1, <4>2
    <3>2. ASSUME NEW t \in Holders PROVE FALSE
      <4>1. send[t].client \in Clients /\ send[t].client <= pool.created
        BY <1>1, <3>2 DEF Holders, SendState, Shape, PoolInv
      <4> QED
        BY <3>1, <4>1 DEF Clients
    <3>3. Holders' = {}
      BY <1>2, <3>2
    <3> QED
      BY <3>3, FS_EmptySet
  <2> QED
    BY <1>2, <2>1, <2>2 DEF Shape, PoolInv
<1> QED
  BY <1>3, <1>4

-----------------------------------------------------------------------------
(***************************************************************************)
(* SendBatch either makes t a sender of the events, with a client of the   *)
(* pool if it is one of HTTP, or settles them at once.                     *)
(***************************************************************************)
Sent(t, es, f) ==
  \E r \in SendState :
    /\ r.events = es /\ r.pc \in {"waiting", "posting"}
    /\ send' = [send EXCEPT ![t] = r] /\ fate' = f
    /\ \/ /\ r.client = NoClient /\ pool' = pool
          /\ r.pc = "posting" => kind # "http"
          /\ r.pc = "waiting" => kind = "http"
       \/ /\ kind = "http" /\ r.pc = "posting" /\ r.client = NextClient(pool)
          /\ HasIdle(pool) \/ MayCreate(pool)
          /\ pool' = AcquiredFrom(pool)

NotSent(es, f) ==
  /\ UNCHANGED <<send, pool>> /\ kind # "http"
  /\ \E o \in {"over", "discarded"} :
       fate' = Settled(f, es, o) /\ (o = "discarded" => ~up)

LEMMA RequestTyped ==
  ASSUME NEW es \in SUBSET Events, NEW n \in 1 .. MaxAttempts,
         NEW c \in Clients \cup {NoClient}, token \in Nat
  PROVE  /\ Request(es, n, c) \in SendState
         /\ Request(es, n, c).pc \in {"posting", "failing"}
         /\ kind = "http" \/ up => Request(es, n, c).pc = "posting"
         /\ Request(es, n, c).events = es /\ Request(es, n, c).client = c
  BY BatchingAssumption DEF Request, SendState

LEMMA IdleTyped ==
  /\ Idle \in SendState /\ Idle.pc = "idle" /\ Idle.events = {}
  /\ Idle.client = NoClient
  BY BatchingAssumption DEF Idle, SendState

LEMMA SendBatchFacts ==
  ASSUME Shape, NEW t \in Senders, NEW es \in SUBSET Events, NEW f, SendBatch(t, es, f)
  PROVE  /\ Sent(t, es, f) \/ NotSent(es, f)
         /\ breaker' \in Breaker
<1>1. /\ send \in [Senders -> SendState] /\ pool \in PoolState /\ Tidy(pool)
  BY TypedParts
<1>2. token \in Nat /\ breaker \in Breaker /\ up \in BOOLEAN /\ 1 \in 1 .. MaxAttempts
  BY BatchingAssumption DEF Shape, TypeOK
<1>3. CASE kind = "http" /\ (HasIdle(pool) \/ MayCreate(pool))
  <2> DEFINE r == Request(es, 1, NextClient(pool))
  <2>1. NextClient(pool) \in Clients
    BY <1>1, <1>3, AcquiredFacts
  <2>2. /\ r \in SendState /\ r.pc = "posting" /\ r.events = es
        /\ r.client = NextClient(pool)
    BY <1>2, <1>3, <2>1, RequestTyped
  <2>3. /\ send' = [send EXCEPT ![t] = r] /\ pool' = AcquiredFrom(pool)
        /\ breaker' = breaker /\ fate' = f
    <3>1. SendHttp(t, es) /\ fate' = f
      BY <1>3 DEF SendBatch, Unsent
    <3> QED
      BY <1>3, <3>1 DEF SendHttp
  <2> HIDE DEF r
  <2> QED
    BY <1>2, <1>3, <2>2, <2>3 DEF Sent
<1>4. CASE kind = "http" /\ ~(HasIdle(pool) \/ MayCreate(pool))
  <2> DEFINE r == Waiting(es)
  <2>1. /\ r \in SendState /\ r.pc = "waiting" /\ r.events = es
        /\ r.client = NoClient
    BY BatchingAssumption DEF Waiting, SendState
  <2>2. /\ send' = [send EXCEPT ![t] = r] /\ pool' = pool
        /\ breaker' = breaker /\ fate' = f
    <3>1. SendHttp(t, es) /\ fate' = f
      BY <1>4 DEF SendBatch, Unsent
    <3> QED
      BY <1>4, <3>1 DEF SendHttp
  <2> HIDE DEF r
  <2> QED
    BY <1>2, <1>4, <2>1, <2>2 DEF Sent
<1>5. CASE kind # "http" /\ up /\ Allows(breaker)
  <2> DEFINE r == Request(es, 1, NoClient)
  <2>1. /\ r \in SendState /\ r.pc = "posting" /\ r.events = es
        /\ r.client = NoClient
    BY <1>2, <1>5, RequestTyped
  <2>2. /\ send' = [send EXCEPT ![t] = r] /\ pool' = pool
        /\ breaker' = Asked(breaker) /\ fate' = f
    BY <1>5 DEF SendBatch, SendGuarded, Unsent, Asks
  <2> HIDE DEF r
  <2> QED
    BY <1>2, <1>5, <2>1, <2>2, BreakerTyped DEF Sent
<1>6. CASE kind # "http" /\ ~(up /\ Allows(breaker))
  <2> DEFINE o == IF Asks /\ ~Allows(breaker) THEN "over" ELSE "discarded"
  <2>1. /\ UNCHANGED <<send, pool>> /\ fate' = Settled(f, es, o)
        /\ breaker' \in {breaker, Asked(breaker)}
    BY <1>2, <1>6 DEF SendBatch, SendGuarded, Unsent, Asks
  <2> QED
    BY <1>2, <1>6, <2>1, BreakerTyped DEF NotSent, Asks
<1> QED
  BY <1>3, <1>4, <1>5, <1>6

LEMMA ShapeAfterSend ==
  ASSUME Shape, NEW t \in Senders, NEW es \in SUBSET Events,
         NEW f \in [Events -> FateState], send[t] = Idle, SendBatch(t, es, f),
         UNCHANGED kind
  PROVE  /\ send' \in [Senders -> SendState] /\ pool' \in PoolState
         /\ fate' \in [Events -> FateState] /\ breaker' \in Breaker
         /\ SendShape' /\ PoolInv'
<1>1. /\ send \in [Senders -> SendState] /\ pool \in PoolState /\ Tidy(pool)
  BY TypedParts
<1>2. breaker' \in Breaker /\ (Sent(t, es, f) \/ NotSent(es, f))
  BY SendBatchFacts
<1>3. send[t].client = NoClient
  BY IdleTyped
<1>4. CASE Sent(t, es, f)
  <2>1. PICK r \in SendState :
          /\ r.pc \in {"waiting", "posting"}
          /\ send' = [send EXCEPT ![t] = r] /\ fate' = f
          /\ \/ /\ r.client = NoClient /\ pool' = pool
                /\ r.pc = "posting" => kind # "http"
                /\ r.pc = "waiting" => kind = "http"
             \/ /\ kind = "http" /\ r.pc = "posting" /\ r.client = NextClient(pool)
                /\ HasIdle(pool) \/ MayCreate(pool)
                /\ pool' = AcquiredFrom(pool)
    BY <1>4 DEF Sent
  <2>2. \A s \in Senders : send'[s] = IF s = t THEN r ELSE send[s]
    BY <1>1, <2>1
  <2>3. PoolInv' /\ pool' \in PoolState /\ (pool' = pool \/ r.client # NoClient)
    <3>1. CASE pool' = pool /\ r.client = NoClient
      BY <1>1, <1>3, <2>2, <3>1, PoolKept
    <3>2. CASE r.client = NextClient(pool) /\ pool' = AcquiredFrom(pool)
               /\ (HasIdle(pool) \/ MayCreate(pool))
      BY <1>3, <2>1, <3>2, PoolAcquired
    <3> QED
      BY <2>1, <3>1, <3>2
  <2>4. r.client = NextClient(pool) /\ (HasIdle(pool) \/ MayCreate(pool)) => r.client # NoClient
    <3>1. HasIdle(pool) \/ MayCreate(pool) => NextClient(pool) \in Clients
      BY <1>1, AcquiredFacts
    <3> QED
      BY <3>1 DEF Clients, NoClient
  <2>5. SendShape'
    BY <2>1, <2>2, <2>4 DEF SendShape, Shape
  <2> QED
    BY <1>1, <1>2, <2>1, <2>3, <2>5
<1>5. CASE NotSent(es, f)
  <2>1. UNCHANGED <<send, pool>> /\ fate' \in [Events -> FateState]
    BY <1>5, SettledFacts DEF NotSent, Outcome
  <2>2. PoolInv'
    BY <2>1, PoolKept
  <2> QED
    BY <1>1, <1>2, <2>1, <2>2 DEF SendShape, Shape
<1> QED
  BY <1>2, <1>4, <1>5

(* What the rest of TypeOK asks of a step that leaves most of it alone.    *)
LEMMA TypeKept ==
  ASSUME Shape, UNCHANGED kind,
         phase' \in {"new", "running", "stopping", "closing", "stopped"},
         up' \in BOOLEAN, loops' \subseteq Loops, flushTask' \in Loops \cup {NoLoop},
         starts' \in 0 .. MaxStarts,
         batch' \in BatchState, timed' \in BOOLEAN,
         send' \in [Senders -> SendState], breaker' \in Breaker, pool' \in PoolState,
         token' \in Nat, lost' \in BOOLEAN, written' \in 0 .. MaxEvents,
         service' \in [expects : Nat, copies : [Events -> Nat]],
         fate' \in [Events -> FateState]
  PROVE  TypeOK'
  BY DEF Shape, TypeOK, SendState, PoolState, FateState, BatchState

LEMMA InitShape == Init => Shape
<1> SUFFICES ASSUME Init PROVE Shape
  OBVIOUS
<1>1. \A t \in Senders : send[t] = Idle
  BY DEF Init
<1>2. Holders = {}
  BY <1>1, IdleTyped DEF Holders
<1>3. Cardinality(Holders) = 0
  BY <1>2, FS_EmptySet
<1>4. /\ pool = [idle |-> <<>>, created |-> 0, inUse |-> 0, closed |-> FALSE, dead |-> {}]
      /\ EventsOf(pool.idle) = {}
  BY DEF Init, NewPool, EventsOf
<1>5. PoolInv
  BY <1>2, <1>3, <1>4 DEF PoolInv, Tidy
<1>6. SendShape
  BY <1>1, IdleTyped DEF SendShape
<1>7. pool \in PoolState /\ send \in [Senders -> SendState]
  BY <1>4, IdleTyped DEF PoolState, Init
<1>8. breaker \in Breaker
  BY DEF Init, NewBreaker, Breaker, CircuitState
<1>9. fate \in [Events -> FateState]
  BY DEF Init, NoFate, FateState, Outcome
<1>10. service \in [expects : Nat, copies : [Events -> Nat]]
  BY DEF Init
<1>11. batch \in Seq(Events) /\ loops \subseteq Loops /\ flushTask = NoLoop
  BY DEF Init
<1>12. starts \in 0 .. MaxStarts /\ written \in 0 .. MaxEvents
  BY BatchingAssumption DEF Init
<1>13. TypeOK
  BY <1>7, <1>8, <1>9, <1>10, <1>11, <1>12
     DEF Init, TypeOK, SendState, PoolState, FateState
<1> QED
  BY <1>5, <1>6, <1>13 DEF Shape

LEMMA ShapeWrite ==
  ASSUME Shape, NEW w \in Writers, Write(w)
  PROVE  Shape'
<1> DEFINE e == written + 1
           f == [fate EXCEPT ![e].running = (phase = "running")]
<1>1. /\ send \in [Senders -> SendState] /\ pool \in PoolState
      /\ fate \in [Events -> FateState] /\ batch \in BatchState
  BY TypedParts
<1>2. w \in Senders /\ e \in Events /\ written' = e /\ e \in 0 .. MaxEvents
  <2>1. written < MaxEvents /\ written' = written + 1
    BY DEF Write
  <2>2. written \in 0 .. MaxEvents
    BY DEF Shape, TypeOK
  <2>3. e \in 1 .. MaxEvents /\ e \in 0 .. MaxEvents
    BY <2>1, <2>2, BatchingAssumption
  <2>4. w \in Senders
    BY DEF Senders
  <2>5. e \in Events
    BY <2>3 DEF Events
  <2> QED
    BY <2>1, <2>3, <2>4, <2>5
<1>3. f \in [Events -> FateState]
  BY <1>1, <1>2, WrittenFate
<1>4. send[w] = Idle /\ UNCHANGED <<kind, phase, up, loops, flushTask, starts>>
      /\ UNCHANGED <<token, service, lost>>
  BY DEF Write, ownerVars, serviceVars
<1>5. CASE Len(batch) + 1 >= BatchSize
  <2>1. batch' = <<>> /\ timed' = FALSE
        /\ SendBatch(w, EventsOf(batch) \cup {e}, f)
    BY <1>5 DEF Write, ClearBatch
  <2>2. EventsOf(batch) \cup {e} \in SUBSET Events
    BY <1>1, <1>2, AppendedBatch DEF BatchState
  <2> HIDE DEF e, f
  <2>3. /\ send' \in [Senders -> SendState] /\ pool' \in PoolState
        /\ fate' \in [Events -> FateState] /\ breaker' \in Breaker
        /\ SendShape' /\ PoolInv'
    BY <1>2, <1>3, <1>4, <2>1, <2>2, ShapeAfterSend
  <2>4. batch' \in BatchState
    BY <2>1 DEF BatchState
  <2>5. TypeOK'
    BY <1>2, <1>4, <2>1, <2>3, <2>4, TypeKept DEF Shape, TypeOK
  <2> QED
    BY <2>3, <2>5 DEF Shape
<1>6. CASE ~(Len(batch) + 1 >= BatchSize)
  <2>1. /\ batch' = Append(batch, e) /\ timed' = Stamp /\ fate' = f
        /\ UNCHANGED <<send, breaker, pool>>
    BY <1>6 DEF Write
  <2>2. batch' \in BatchState /\ timed' \in BOOLEAN
    BY <1>1, <1>2, <2>1, AppendedBatch DEF BatchState, Stamp, Shape, TypeOK
  <2> HIDE DEF e, f
  <2>3. TypeOK'
    BY <1>1, <1>2, <1>3, <1>4, <2>1, <2>2, TypeKept DEF Shape, TypeOK
  <2>4. PoolInv' /\ SendShape'
    BY <1>4, <2>1, PoolKept DEF SendShape, Shape
  <2> QED
    BY <2>3, <2>4 DEF Shape
<1> QED
  BY <1>5, <1>6

LEMMA ShapeLoopFlush ==
  ASSUME Shape, NEW l \in Loops, LoopFlush(l)
  PROVE  Shape'
<1>1. /\ fate \in [Events -> FateState] /\ batch \in BatchState /\ l \in Senders
  BY TypedParts DEF Senders
<1>2. /\ send[l] = Idle /\ UNCHANGED <<kind, phase, up, loops, flushTask, starts>>
      /\ UNCHANGED <<token, service, lost, written>>
      /\ batch' = <<>> /\ timed' = FALSE /\ SendBatch(l, EventsOf(batch), fate)
  BY DEF LoopFlush, ownerVars, serviceVars, ClearBatch
<1>3. EventsOf(batch) \in SUBSET Events /\ batch' \in BatchState
  BY <1>1, <1>2 DEF BatchState, EventsOf
<1>4. /\ send' \in [Senders -> SendState] /\ pool' \in PoolState
      /\ fate' \in [Events -> FateState] /\ breaker' \in Breaker
      /\ SendShape' /\ PoolInv'
  BY <1>1, <1>2, <1>3, ShapeAfterSend
<1>5. TypeOK'
  BY <1>2, <1>3, <1>4, TypeKept DEF Shape, TypeOK
<1> QED
  BY <1>4, <1>5 DEF Shape

LEMMA ShapeGetClient ==
  ASSUME Shape, NEW t \in Senders, GetClient(t)
  PROVE  Shape'
<1> DEFINE r == Request(send[t].events, 1, NextClient(pool))
<1>1. /\ send \in [Senders -> SendState] /\ pool \in PoolState /\ Tidy(pool)
      /\ fate \in [Events -> FateState] /\ batch \in BatchState
  BY TypedParts
<1>2. /\ send[t].pc = "waiting" /\ HasIdle(pool) /\ send' = [send EXCEPT ![t] = r]
      /\ pool' = AcquiredFrom(pool)
      /\ UNCHANGED <<kind, phase, up, loops, flushTask, starts, batch, timed, breaker>>
      /\ UNCHANGED <<token, service, lost, written, fate>>
  BY DEF GetClient, ownerVars, batchVars, serviceVars
<1>3. send[t].client = NoClient /\ kind = "http"
  BY <1>2 DEF Shape, SendShape
<1>4. NextClient(pool) \in Clients
  BY <1>1, <1>2, AcquiredFacts
<1>5. /\ r \in SendState /\ r.pc = "posting" /\ r.client = NextClient(pool)
  <2>1. send[t].events \in SUBSET Events
    BY <1>1 DEF SendState
  <2>2. 1 \in 1 .. MaxAttempts
    BY BatchingAssumption
  <2>3. token \in Nat
    BY DEF Shape, TypeOK
  <2> QED
    BY <1>3, <1>4, <2>1, <2>2, <2>3, RequestTyped
<1> HIDE DEF r
<1>6. PoolInv' /\ pool' \in PoolState /\ r.client # NoClient
  BY <1>2, <1>3, <1>5, PoolAcquired
<1>7. \A s \in Senders : send'[s] = IF s = t THEN r ELSE send[s]
  BY <1>1, <1>2
<1>8. SendShape'
  BY <1>2, <1>3, <1>5, <1>6, <1>7 DEF SendShape, Shape
<1>9. TypeOK'
  BY <1>1, <1>2, <1>5, <1>6, TypeKept DEF Shape, TypeOK
<1> QED
  BY <1>6, <1>8, <1>9 DEF Shape

LEMMA ShapeGiveUpWaiting ==
  ASSUME Shape, NEW t \in Senders, GiveUpWaiting(t)
  PROVE  Shape'
<1>1. /\ send \in [Senders -> SendState] /\ pool \in PoolState
      /\ fate \in [Events -> FateState] /\ batch \in BatchState
  BY TypedParts
<1>2. /\ send[t].pc = "waiting" /\ send' = [send EXCEPT ![t] = Idle]
      /\ fate' = Settled(fate, send[t].events, "over")
      /\ UNCHANGED <<kind, phase, up, loops, flushTask, starts, batch, timed, breaker>>
      /\ UNCHANGED <<pool, token, service, lost, written>>
  BY DEF GiveUpWaiting, ownerVars, batchVars, serviceVars
<1>3. \A s \in Senders : send'[s] = IF s = t THEN Idle ELSE send[s]
  BY <1>1, <1>2
<1>4. send[t].client = NoClient
  BY <1>2 DEF Shape, SendShape
<1>5. PoolInv'
  BY <1>2, <1>3, <1>4, IdleTyped, PoolKept
<1>6. SendShape'
  BY <1>2, <1>3, IdleTyped DEF SendShape, Shape
<1>7. fate' \in [Events -> FateState]
  BY <1>1, <1>2, SettledFacts DEF Outcome
<1>8. TypeOK'
  BY <1>1, <1>2, <1>7, IdleTyped, TypeKept DEF Shape, TypeOK
<1> QED
  BY <1>5, <1>6, <1>8 DEF Shape

LEMMA StoredTyped ==
  ASSUME service \in [expects : Nat, copies : [Events -> Nat]], NEW es
  PROVE  Stored(es) \in [expects : Nat, copies : [Events -> Nat]]
  BY DEF Stored

(* The end of a request, with the reply left open.                         *)
LEMMA ReplyParts ==
  ASSUME NEW t \in Senders, Reply(t)
  PROVE  /\ send[t].pc \in {"posting", "failing"}
         /\ UNCHANGED <<kind, phase, up, loops, flushTask, starts, batch, timed, written>>
         /\ \E r \in Replies(t) :
              LET more == Retries(r) /\ send[t].attempt < MaxAttempts
              IN /\ service' = IF Stores(r) THEN Stored(send[t].events) ELSE service
                 /\ lost' = (lost \/ (Stores(r) /\ r # "ok"))
                 /\ token' \in {service'.expects, token}
                 /\ breaker' = Told(r)
                 /\ IF more
                      THEN /\ send' = [send EXCEPT ![t].pc = "sleeping"]
                           /\ UNCHANGED <<pool, fate>>
                      ELSE /\ send' = [send EXCEPT ![t] = Idle]
                           /\ pool' = IF kind = "http"
                                        THEN ReleasedTo(pool, send[t].client) ELSE pool
                           /\ fate' = Settled(fate, send[t].events, "over")
  BY DEF Reply, ownerVars, batchVars

LEMMA SleepingTyped ==
  ASSUME NEW t \in Senders, send \in [Senders -> SendState]
  PROVE  LET r == [send[t] EXCEPT !.pc = "sleeping"]
         IN /\ [send EXCEPT ![t].pc = "sleeping"] = [send EXCEPT ![t] = r]
            /\ r \in SendState /\ r.pc = "sleeping" /\ r.client = send[t].client
            /\ r.events = send[t].events /\ r.attempt = send[t].attempt
<1>1. [send[t] EXCEPT !.pc = "sleeping"] =
        [pc |-> "sleeping", events |-> send[t].events, attempt |-> send[t].attempt,
         client |-> send[t].client, token |-> send[t].token]
  BY DEF SendState
<1>2. [send EXCEPT ![t].pc = "sleeping"] =
        [send EXCEPT ![t] = [send[t] EXCEPT !.pc = "sleeping"]]
  OBVIOUS
<1> QED
  BY <1>1, <1>2 DEF SendState

LEMMA ShapeReply ==
  ASSUME Shape, NEW t \in Senders, Reply(t)
  PROVE  Shape'
<1>1. /\ send \in [Senders -> SendState] /\ pool \in PoolState
      /\ fate \in [Events -> FateState] /\ batch \in BatchState
  BY TypedParts
<1>2. /\ send[t].pc \in {"posting", "failing"}
      /\ UNCHANGED <<kind, phase, up, loops, flushTask, starts, batch, timed, written>>
  BY ReplyParts
<1>3. PICK r \in Replies(t) :
        /\ service' = IF Stores(r) THEN Stored(send[t].events) ELSE service
        /\ lost' = (lost \/ (Stores(r) /\ r # "ok"))
        /\ token' \in {service'.expects, token}
        /\ breaker' = Told(r)
        /\ IF Retries(r) /\ send[t].attempt < MaxAttempts
             THEN /\ send' = [send EXCEPT ![t].pc = "sleeping"]
                  /\ UNCHANGED <<pool, fate>>
             ELSE /\ send' = [send EXCEPT ![t] = Idle]
                  /\ pool' = IF kind = "http"
                               THEN ReleasedTo(pool, send[t].client) ELSE pool
                  /\ fate' = Settled(fate, send[t].events, "over")
  BY ReplyParts
<1>4. service' \in [expects : Nat, copies : [Events -> Nat]]
  BY <1>3, StoredTyped DEF Shape, TypeOK
<1>5. token' \in Nat /\ lost' \in BOOLEAN
  BY <1>3, <1>4 DEF Shape, TypeOK
<1>6. breaker' \in Breaker
  BY <1>3, BreakerTyped DEF Told, Shape, TypeOK
<1>7. CASE Retries(r) /\ send[t].attempt < MaxAttempts
  <2> DEFINE q == [send[t] EXCEPT !.pc = "sleeping"]
  <2>1. /\ send' = [send EXCEPT ![t] = q] /\ UNCHANGED <<pool, fate>>
        /\ q \in SendState /\ q.pc = "sleeping" /\ q.client = send[t].client
        /\ q.attempt = send[t].attempt
    BY <1>1, <1>3, <1>7, SleepingTyped
  <2> HIDE DEF q
  <2>2. \A s \in Senders : send'[s] = IF s = t THEN q ELSE send[s]
    BY <1>1, <2>1
  <2>3. SendShape'
    BY <1>2, <1>7, <2>1, <2>2 DEF SendShape, Shape
  <2>4. PoolInv'
    BY <2>1, <2>2, PoolKept
  <2>5. TypeOK'
    BY <1>1, <1>2, <1>4, <1>5, <1>6, <2>1, TypeKept DEF Shape, TypeOK
  <2> QED
    BY <2>3, <2>4, <2>5 DEF Shape
<1>8. CASE ~(Retries(r) /\ send[t].attempt < MaxAttempts)
  <2>1. /\ send' = [send EXCEPT ![t] = Idle]
        /\ pool' = IF kind = "http" THEN ReleasedTo(pool, send[t].client) ELSE pool
        /\ fate' = Settled(fate, send[t].events, "over")
    BY <1>3, <1>8
  <2>2. \A s \in Senders : send'[s] = IF s = t THEN Idle ELSE send[s]
    BY <1>1, <2>1
  <2>3. SendShape'
    BY <1>2, <2>2, IdleTyped DEF SendShape, Shape
  <2>4. PoolInv' /\ pool' \in PoolState
    <3>1. CASE kind = "http"
      <4>1. send[t].client # NoClient
        BY <1>2, <3>1 DEF Shape, SendShape
      <4> QED
        BY <2>1, <3>1, <4>1, IdleTyped, PoolReleased
    <3>2. CASE kind # "http"
      <4>1. send[t].client = NoClient
        BY <3>2 DEF Shape, SendShape
      <4> QED
        BY <1>1, <2>1, <2>2, <3>2, <4>1, IdleTyped, PoolKept
    <3> QED
      BY <3>1, <3>2
  <2>5. fate' \in [Events -> FateState]
    BY <1>1, <2>1, SettledFacts DEF Outcome
  <2>6. TypeOK'
    BY <1>1, <1>2, <1>4, <1>5, <1>6, <2>1, <2>4, <2>5, IdleTyped, TypeKept
       DEF Shape, TypeOK
  <2> QED
    BY <2>3, <2>4, <2>6 DEF Shape
<1> QED
  BY <1>7, <1>8

LEMMA ShapeRetry ==
  ASSUME Shape, NEW t \in Senders, Retry(t)
  PROVE  Shape'
<1> DEFINE r == Request(send[t].events, send[t].attempt + 1, send[t].client)
<1>1. /\ send \in [Senders -> SendState] /\ pool \in PoolState
      /\ fate \in [Events -> FateState] /\ batch \in BatchState
  BY TypedParts
<1>2. /\ send[t].pc = "sleeping" /\ send' = [send EXCEPT ![t] = r]
      /\ UNCHANGED <<kind, phase, up, loops, flushTask, starts, batch, timed, breaker>>
      /\ UNCHANGED <<pool, token, service, lost, written, fate>>
  BY DEF Retry, ownerVars, batchVars, serviceVars
<1>3. r \in SendState /\ r.pc \in {"posting", "failing"} /\ r.client = send[t].client
  <2>1. /\ send[t].events \in SUBSET Events /\ send[t].client \in Clients \cup {NoClient}
        /\ send[t].attempt \in 0 .. MaxAttempts
    BY <1>1 DEF SendState
  <2>2. send[t].attempt < MaxAttempts
    BY <1>2 DEF Shape, SendShape
  <2>3. send[t].attempt + 1 \in 1 .. MaxAttempts
    BY <2>1, <2>2, BatchingAssumption
  <2>4. token \in Nat
    BY DEF Shape, TypeOK
  <2> QED
    BY <2>1, <2>3, <2>4, RequestTyped
<1> HIDE DEF r
<1>4. \A s \in Senders : send'[s] = IF s = t THEN r ELSE send[s]
  BY <1>1, <1>2
<1>5. SendShape'
  BY <1>2, <1>3, <1>4 DEF SendShape, Shape
<1>6. PoolInv'
  BY <1>2, <1>3, <1>4, PoolKept
<1>7. TypeOK'
  BY <1>1, <1>2, <1>3, TypeKept DEF Shape, TypeOK
<1> QED
  BY <1>5, <1>6, <1>7 DEF Shape

LEMMA ShapeStart ==
  ASSUME Shape, Start
  PROVE  Shape'
<1>1. /\ pool \in PoolState /\ fate \in [Events -> FateState] /\ batch \in BatchState
      /\ send \in [Senders -> SendState] /\ Tidy(pool)
  BY TypedParts
<1>2. /\ starts < MaxStarts /\ starts' = starts + 1 /\ phase' = "running"
      /\ up' = (kind # "http") /\ breaker' = NewBreaker
      /\ pool' = IF kind = "http" THEN Reopened(pool) ELSE pool
      /\ \/ loops' = loops \cup {starts + 1} /\ flushTask' = starts + 1
         \/ UNCHANGED <<loops, flushTask>>
      /\ UNCHANGED <<kind, batch, timed, send, token, service, lost, written, fate>>
  BY DEF Start, batchVars, serviceVars
<1>3. PoolInv' /\ pool' \in PoolState
  <2>1. CASE kind = "http"
    BY <1>2, <2>1, PoolSwitched
  <2>2. CASE kind # "http"
    BY <1>1, <1>2, <2>2, PoolKept
  <2> QED
    BY <2>1, <2>2
<1>4. SendShape'
  BY <1>2 DEF SendShape, Shape
<1>5. NewBreaker \in Breaker
  BY DEF NewBreaker, Breaker, CircuitState
<1>6. starts' \in 0 .. MaxStarts /\ starts + 1 \in Loops
  BY <1>2, BatchingAssumption DEF Shape, TypeOK, Loops
<1>7. loops' \subseteq Loops /\ flushTask' \in Loops \cup {NoLoop}
  BY <1>2, <1>6 DEF Shape, TypeOK
<1>8. TypeOK'
  BY <1>1, <1>2, <1>3, <1>5, <1>6, <1>7, TypeKept DEF Shape, TypeOK
<1> QED
  BY <1>3, <1>4, <1>8 DEF Shape

LEMMA ShapeBeginStop ==
  ASSUME Shape, BeginStop
  PROVE  Shape'
<1>1. /\ pool \in PoolState /\ fate \in [Events -> FateState] /\ batch \in BatchState
      /\ send \in [Senders -> SendState] /\ Tidy(pool)
  BY TypedParts
<1>2. /\ phase' = "stopping"
      /\ UNCHANGED <<kind, up, starts, batch, timed, breaker, token, written>>
  BY DEF BeginStop, batchVars
<1>3. CASE flushTask = NoLoop
  <2>1. UNCHANGED <<loops, flushTask, send, pool, service, lost, fate>>
    BY <1>3 DEF BeginStop
  <2>2. PoolInv' /\ SendShape'
    BY <1>2, <2>1, PoolKept DEF SendShape, Shape
  <2>3. TypeOK'
    BY <1>1, <1>2, <2>1, TypeKept DEF Shape, TypeOK
  <2> QED
    BY <2>2, <2>3 DEF Shape
<1>4. CASE flushTask # NoLoop
  <2>1. /\ loops' = loops \ {flushTask} /\ flushTask' = NoLoop
        /\ CutRequest(flushTask)
        /\ send' = [send EXCEPT ![flushTask] = Idle]
        /\ pool' = IF send[flushTask].client # NoClient
                     THEN ReleasedTo(pool, send[flushTask].client) ELSE pool
        /\ fate' = Settled(fate, send[flushTask].events, "over")
    BY <1>4 DEF BeginStop
  <2>2. flushTask \in Senders
    BY <1>4 DEF Shape, TypeOK, Senders
  <2>3. \A s \in Senders : send'[s] = IF s = flushTask THEN Idle ELSE send[s]
    BY <1>1, <2>1
  <2>4. SendShape'
    BY <1>2, <2>3, IdleTyped DEF SendShape, Shape
  <2>5. PoolInv' /\ pool' \in PoolState
    <3>1. CASE send[flushTask].client # NoClient
      BY <2>1, <2>2, <3>1, IdleTyped, PoolReleased
    <3>2. CASE send[flushTask].client = NoClient
      BY <1>1, <2>1, <2>3, <3>2, IdleTyped, PoolKept
    <3> QED
      BY <3>1, <3>2
  <2>6. fate' \in [Events -> FateState]
    BY <1>1, <2>1, SettledFacts DEF Outcome
  <2>7. service' \in [expects : Nat, copies : [Events -> Nat]] /\ lost' \in BOOLEAN
    BY <2>1, StoredTyped DEF CutRequest, Shape, TypeOK
  <2>8. TypeOK'
    BY <1>1, <1>2, <2>1, <2>5, <2>6, <2>7, IdleTyped, TypeKept DEF Shape, TypeOK
  <2> QED
    BY <2>4, <2>5, <2>8 DEF Shape
<1> QED
  BY <1>3, <1>4

LEMMA ShapeFlushRest ==
  ASSUME Shape, FlushRest, send[Owner] = Idle
  PROVE  Shape'
<1>1. /\ pool \in PoolState /\ fate \in [Events -> FateState] /\ batch \in BatchState
      /\ send \in [Senders -> SendState] /\ Owner \in Senders
  BY TypedParts DEF Senders
<1>2. /\ phase' = "closing"
      /\ UNCHANGED <<kind, up, loops, flushTask, starts, token, service, lost, written>>
  BY DEF FlushRest, serviceVars
<1>3. CASE batch = <<>>
  <2>1. UNCHANGED <<batch, timed, send, breaker, pool, fate>>
    BY <1>3 DEF FlushRest
  <2>2. PoolInv' /\ SendShape'
    BY <1>2, <2>1, PoolKept DEF SendShape, Shape
  <2>3. TypeOK'
    BY <1>1, <1>2, <2>1, TypeKept DEF Shape, TypeOK
  <2> QED
    BY <2>2, <2>3 DEF Shape
<1>4. CASE batch # <<>>
  <2>1. batch' = <<>> /\ timed' = FALSE /\ SendBatch(Owner, EventsOf(batch), fate)
    BY <1>4 DEF FlushRest, ClearBatch
  <2>2. EventsOf(batch) \in SUBSET Events /\ batch' \in BatchState
    BY <1>1, <2>1 DEF BatchState, EventsOf
  <2>3. /\ send' \in [Senders -> SendState] /\ pool' \in PoolState
        /\ fate' \in [Events -> FateState] /\ breaker' \in Breaker
        /\ SendShape' /\ PoolInv'
    BY <1>1, <1>2, <2>1, <2>2, ShapeAfterSend
  <2>4. TypeOK'
    BY <1>2, <2>1, <2>2, <2>3, TypeKept DEF Shape, TypeOK
  <2> QED
    BY <2>3, <2>4 DEF Shape
<1> QED
  BY <1>3, <1>4

LEMMA ShapeClose ==
  ASSUME Shape, Close
  PROVE  Shape'
<1>1. /\ pool \in PoolState /\ fate \in [Events -> FateState] /\ batch \in BatchState
      /\ send \in [Senders -> SendState]
  BY TypedParts
<1>2. /\ phase' = "stopped" /\ up' = FALSE
      /\ pool' = IF kind = "http" THEN CleanedUp(pool) ELSE pool
      /\ UNCHANGED <<kind, loops, flushTask, starts, batch, timed, send, breaker>>
      /\ UNCHANGED <<token, service, lost, written, fate>>
  BY DEF Close, batchVars, serviceVars
<1>3. PoolInv' /\ pool' \in PoolState
  <2>1. CASE kind = "http"
    BY <1>2, <2>1, PoolSwitched
  <2>2. CASE kind # "http"
    BY <1>1, <1>2, <2>2, PoolKept
  <2> QED
    BY <2>1, <2>2
<1>4. SendShape'
  BY <1>2 DEF SendShape, Shape
<1>5. TypeOK'
  BY <1>1, <1>2, <1>3, TypeKept DEF Shape, TypeOK
<1> QED
  BY <1>3, <1>4, <1>5 DEF Shape

LEMMA ShapeElapse ==
  ASSUME Shape, Elapse \/ UNCHANGED vars
  PROVE  Shape'
<1>1. /\ pool \in PoolState /\ fate \in [Events -> FateState] /\ batch \in BatchState
      /\ send \in [Senders -> SendState] /\ breaker \in Breaker
  BY TypedParts DEF Shape, TypeOK
<1>2. /\ breaker' \in {breaker, Aged(breaker)}
      /\ UNCHANGED <<kind, phase, up, loops, flushTask, starts, batch, timed, send>>
      /\ UNCHANGED <<pool, token, service, lost, written, fate>>
  BY DEF Elapse, vars, ownerVars, batchVars, serviceVars
<1>3. breaker' \in Breaker
  BY <1>1, <1>2, BreakerTyped
<1>4. PoolInv' /\ SendShape'
  BY <1>2, PoolKept DEF SendShape, Shape
<1>5. TypeOK'
  BY <1>1, <1>2, <1>3, TypeKept DEF Shape, TypeOK
<1> QED
  BY <1>4, <1>5 DEF Shape

(***************************************************************************)
(* stop() has nothing else to send before it takes the rest of the batch.  *)
(***************************************************************************)
OwnerQuiet == phase # "closing" => send[Owner] = Idle

Sound == Shape /\ OwnerQuiet

(* The kinds of step, with the three senders' steps told apart.            *)
LEMMA Steps ==
  ASSUME [Next]_vars
  PROVE  \/ \E w \in Writers : Write(w)
         \/ \E l \in Loops : LoopFlush(l)
         \/ \E t \in Senders : GetClient(t) \/ GiveUpWaiting(t)
         \/ \E t \in Senders : Reply(t)
         \/ \E t \in Senders : Retry(t)
         \/ Start \/ BeginStop \/ FlushRest \/ Close
         \/ Elapse \/ UNCHANGED vars
<1>1. Writers \subseteq Senders /\ Loops \subseteq Senders /\ Owner \in Senders
  BY DEF Senders
<1> QED
  BY <1>1, Zenon DEF Next, SenderStep, LoopStep, OwnerStep

LEMMA ShapeStep == Sound /\ [Next]_vars => Shape'
<1> SUFFICES ASSUME Sound, [Next]_vars PROVE Shape'
  OBVIOUS
<1>1. ASSUME NEW w \in Writers, Write(w) PROVE Shape'
  BY <1>1, ShapeWrite DEF Sound
<1>2. ASSUME NEW l \in Loops, LoopFlush(l) PROVE Shape'
  BY <1>2, ShapeLoopFlush DEF Sound
<1>3. ASSUME NEW t \in Senders, GetClient(t) \/ GiveUpWaiting(t) PROVE Shape'
  BY <1>3, ShapeGetClient, ShapeGiveUpWaiting DEF Sound
<1>4. ASSUME NEW t \in Senders, Reply(t) PROVE Shape'
  BY <1>4, ShapeReply DEF Sound
<1>5. ASSUME NEW t \in Senders, Retry(t) PROVE Shape'
  BY <1>5, ShapeRetry DEF Sound
<1>6. CASE Start
  BY <1>6, ShapeStart DEF Sound
<1>7. CASE BeginStop
  BY <1>7, ShapeBeginStop DEF Sound
<1>8. CASE FlushRest
  <2>1. send[Owner] = Idle
    BY <1>8 DEF Sound, OwnerQuiet, FlushRest
  <2> QED
    BY <1>8, <2>1, ShapeFlushRest DEF Sound
<1>9. CASE Close
  BY <1>9, ShapeClose DEF Sound
<1>10. CASE Elapse \/ UNCHANGED vars
  BY <1>10, ShapeElapse DEF Sound
<1> QED
  BY <1>1, <1>2, <1>3, <1>4, <1>5, <1>6, <1>7, <1>8, <1>9, <1>10, Steps

LEMMA OwnerQuietStep == Sound /\ [Next]_vars => OwnerQuiet'
<1> SUFFICES ASSUME Sound, [Next]_vars PROVE OwnerQuiet'
  OBVIOUS
<1>1. send \in [Senders -> SendState] /\ Owner \in Senders
  BY TypedParts DEF Sound, Senders
<1>2. Owner \notin Writers /\ Owner \notin Loops /\ flushTask # Owner
  BY BatchingAssumption DEF Loops, NoLoop, Sound, Shape, TypeOK
<1>3. phase # "closing" => send[Owner] = Idle /\ send[Owner].pc = "idle"
  BY IdleTyped DEF Sound, OwnerQuiet
<1>4. ASSUME NEW t \in Senders, t # Owner, NEW es, NEW f, SendBatch(t, es, f)
      PROVE  send'[Owner] = send[Owner]
  BY <1>1, <1>4 DEF SendBatch, SendHttp, SendGuarded
<1>5. ASSUME NEW w \in Writers, Write(w) PROVE OwnerQuiet'
  <2>1. phase' = phase /\ w \in Senders /\ w # Owner
    BY <1>2, <1>5 DEF Write, ownerVars, Senders
  <2>2. send' = send \/ \E es, f : SendBatch(w, es, f)
    BY <1>5 DEF Write
  <2> QED
    BY <1>3, <1>4, <2>1, <2>2 DEF OwnerQuiet
<1>6. ASSUME NEW l \in Loops, LoopFlush(l) PROVE OwnerQuiet'
  <2>1. phase' = phase /\ l \in Senders /\ l # Owner
        /\ SendBatch(l, EventsOf(batch), fate)
    BY <1>2, <1>6 DEF LoopFlush, ownerVars, Senders
  <2> QED
    BY <1>3, <1>4, <2>1 DEF OwnerQuiet
<1>7. ASSUME NEW t \in Senders,
             GetClient(t) \/ GiveUpWaiting(t) \/ Reply(t) \/ Retry(t)
      PROVE  OwnerQuiet'
  <2>1. phase' = phase /\ send[t].pc # "idle"
    BY <1>7 DEF GetClient, GiveUpWaiting, Reply, Retry, ownerVars
  <2>2. \A s \in Senders \ {t} : send'[s] = send[s]
    BY <1>1, <1>7 DEF GetClient, GiveUpWaiting, Reply, Retry
  <2> QED
    BY <1>1, <1>3, <2>1, <2>2 DEF OwnerQuiet
<1>8. CASE Start \/ Elapse \/ UNCHANGED vars
  <2>1. send' = send /\ (phase' = phase \/ phase # "closing")
    BY <1>8 DEF Start, Elapse, vars, ownerVars
  <2> QED
    BY <1>3, <2>1 DEF OwnerQuiet
<1>9. CASE BeginStop
  <2>1. phase = "running" /\ (send' = send \/ send' = [send EXCEPT ![flushTask] = Idle])
    BY <1>9 DEF BeginStop
  <2> QED
    BY <1>1, <1>2, <1>3, <2>1 DEF OwnerQuiet
<1>10. CASE FlushRest
  BY <1>10 DEF FlushRest, OwnerQuiet
<1>11. CASE Close
  BY <1>11 DEF Close, OwnerQuiet
<1> QED
  BY <1>5, <1>6, <1>7, <1>8, <1>9, <1>10, <1>11, Steps

LEMMA AlwaysSound == Spec => []Sound
<1>1. Init => Sound
  BY InitShape DEF Sound, OwnerQuiet, Init, Senders
<1>2. Sound /\ [Next]_vars => Sound'
  BY ShapeStep, OwnerQuietStep DEF Sound
<1> QED
  BY <1>1, <1>2, PTL DEF Spec

(***************************************************************************)
(* Every variable keeps its type, whatever the sinks, the senders and the  *)
(* service do: attempts stay within max_retries, clients within max_size.  *)
(***************************************************************************)
THEOREM BatchingTypeCorrect == Spec => []TypeOK
<1>1. Sound => TypeOK
  BY DEF Sound, Shape
<1> QED
  BY <1>1, AlwaysSound, PTL

(***************************************************************************)
(* A client of the pool is idle or with one sender, and its counts are     *)
(* right, also when a flush loop is cancelled or the pool closed meanwhile *)
(* (resources.py:92-255).                                                  *)
(***************************************************************************)
THEOREM ClientsAreExclusive == Spec => []PoolExclusive
<1>1. Sound => PoolExclusive
  <2> SUFFICES ASSUME Sound PROVE PoolExclusive
    OBVIOUS
  <2>1. PoolInv /\ pool \in PoolState
    BY TypedParts DEF Sound, Shape
  <2>2. pool.created <= MaxClients
    BY <2>1 DEF PoolState
  <2> QED
    BY <2>1, <2>2 DEF PoolExclusive, PoolInv, Tidy, Holders
<1> QED
  BY <1>1, AlwaysSound, PTL

-----------------------------------------------------------------------------
(* Where an event may be.                                                  *)
Held(e) == e \in EventsOf(batch) \/ \E t \in Senders : e \in send[t].events

Pending(e) == e <= written /\ fate[e].outcome = "pending"

(* Nothing has become yet of what has not been written.                    *)
Fresh == \A e \in Events : e > written => fate[e].outcome = "pending"

Holding == OneHolder /\ Fresh

(* Nothing moves between the batch, the senders and the outcomes.          *)
LEMMA HoldersKept ==
  ASSUME Holding, UNCHANGED <<batch, written, fate>>,
         \A t \in Senders : send'[t].events = send[t].events
  PROVE  Holding'
  BY DEF Holding, Fresh, OneHolder

(* A sender is done with its events.                                       *)
LEMMA HolderDone ==
  ASSUME Shape, Holding, NEW t \in Senders, NEW o \in Outcome \ {"pending"},
         UNCHANGED <<batch, written>>, send' = [send EXCEPT ![t] = Idle],
         fate' = Settled(fate, send[t].events, o)
  PROVE  Holding'
<1>1. /\ send \in [Senders -> SendState] /\ fate \in [Events -> FateState]
  BY TypedParts
<1>2. \A s \in Senders : send'[s].events = IF s = t THEN {} ELSE send[s].events
  BY <1>1, IdleTyped
<1>3. \A e \in Events :
        fate'[e].outcome = IF e \in send[t].events THEN o ELSE fate[e].outcome
  BY <1>1, SettledFacts
<1>4. \A e \in Events : Held(e) <=> Pending(e)
  BY DEF Holding, OneHolder, Held, Pending
<1>5. \A e \in Events : Held(e)' <=> Pending(e)'
  <2> TAKE e \in Events
  <2>1. Held(e)' <=> (Held(e) /\ e \notin send[t].events)
    BY <1>2 DEF Held, Holding, OneHolder
  <2>2. Pending(e)' <=> (Pending(e) /\ e \notin send[t].events)
    BY <1>3 DEF Pending
  <2> QED
    BY <1>4, <2>1, <2>2
<1>6. \A i, j \in 1 .. Len(batch') : batch'[i] = batch'[j] => i = j
  BY DEF Holding, OneHolder
<1>7. /\ \A s, u \in Senders : s # u => send'[s].events \cap send'[u].events = {}
      /\ \A s \in Senders : send'[s].events \cap EventsOf(batch') = {}
  BY <1>2 DEF Holding, OneHolder
<1>8. Fresh'
  <2>1. ASSUME NEW e \in Events, e > written PROVE e \notin send[t].events
    <3>1. written \in Nat /\ e \in Nat
      BY DEF Shape, TypeOK, Events
    <3> QED
      BY <1>4, <2>1, <3>1 DEF Held, Pending
  <2> QED
    BY <1>3, <2>1 DEF Fresh, Holding
<1> QED
  BY <1>5, <1>6, <1>7, <1>8 DEF Holding, OneHolder, Held, Pending

(* The batch, perhaps with an event just written, goes to a sender.        *)
LEMMA HolderTakes ==
  ASSUME Shape, Holding, NEW t \in Senders, send[t] = Idle,
         NEW es, NEW f \in [Events -> FateState],
         \/ es = EventsOf(batch) /\ written' = written
         \/ /\ es = EventsOf(batch) \cup {written + 1}
            /\ written + 1 \in Events /\ written' = written + 1,
         \A e \in Events : f[e].outcome = fate[e].outcome,
         batch' = <<>>, SendBatch(t, es, f)
  PROVE  Holding'
<1> DEFINE new == IF written' = written THEN {} ELSE {written + 1}
<1>0. /\ new \in SUBSET Events /\ es = EventsOf(batch) \cup new
      /\ \/ new = {} /\ written' = written
         \/ new = {written + 1} /\ written' = written + 1
  <2>1. written + 1 # written
    BY DEF Shape, TypeOK
  <2> QED
    BY <2>1
<1> HIDE DEF new
<1>1. /\ send \in [Senders -> SendState] /\ fate \in [Events -> FateState]
      /\ batch \in BatchState /\ written \in 0 .. MaxEvents
  BY TypedParts DEF Shape, TypeOK
<1>2. es \in SUBSET Events
  BY <1>0, <1>1 DEF BatchState, EventsOf
<1>3. EventsOf(batch') = {} /\ Len(batch') = 0
  BY DEF EventsOf
<1>4. \A e \in Events : (Held(e) <=> Pending(e)) /\ (e > written => fate[e].outcome = "pending")
  BY DEF Holding, OneHolder, Held, Pending, Fresh
<1>5. \A e \in Events : e \in Nat
  BY DEF Events
<1>6. \A e \in new : ~Held(e) /\ e > written
  BY <1>0, <1>1, <1>4, <1>5 DEF Pending
<1>7. \A e \in Events : e \in es <=> (e \in new \/ (Pending(e) /\ \A s \in Senders : e \notin send[s].events))
  BY <1>0, <1>4 DEF Held, Holding, OneHolder
<1>8. \A e \in Events : e <= written' <=> (e <= written \/ e \in new)
  BY <1>0, <1>1, <1>5
<1>9. \A s \in Senders : send[s].events \cap es = {}
  BY <1>0, <1>1, <1>6 DEF Held, Holding, OneHolder, SendState
<1>10. send[t].events = {}
  BY IdleTyped
<1>11. Sent(t, es, f) \/ NotSent(es, f)
  BY <1>2, SendBatchFacts
<1>12. CASE Sent(t, es, f)
  <2>1. PICK r \in SendState : r.events = es /\ send' = [send EXCEPT ![t] = r] /\ fate' = f
    BY <1>12 DEF Sent
  <2>2. \A s \in Senders : send'[s].events = IF s = t THEN es ELSE send[s].events
    BY <1>1, <2>1
  <2>3. \A e \in Events : fate'[e].outcome = fate[e].outcome
    BY <2>1
  <2>4. \A e \in Events : Held(e)' <=> (e \in es \/ \E s \in Senders : e \in send[s].events)
    BY <1>3, <1>10, <2>2 DEF Held
  <2>5. \A e \in Events : Pending(e)' <=> (Pending(e) \/ e \in new)
    BY <1>4, <1>6, <1>8, <2>3 DEF Pending
  <2>6. \A e \in Events : Held(e)' <=> Pending(e)'
    BY <1>4, <1>7, <2>4, <2>5 DEF Held
  <2>7. /\ \A s, u \in Senders : s # u => send'[s].events \cap send'[u].events = {}
        /\ \A s \in Senders : send'[s].events \cap EventsOf(batch') = {}
    BY <1>3, <1>9, <2>2 DEF Holding, OneHolder
  <2>8. Fresh'
    BY <1>4, <1>5, <1>8, <1>1, <2>3 DEF Fresh
  <2> QED
    BY <1>3, <2>6, <2>7, <2>8 DEF Holding, OneHolder, Held, Pending
<1>13. CASE NotSent(es, f)
  <2>1. PICK o \in {"over", "discarded"} : fate' = Settled(f, es, o) /\ send' = send
    BY <1>13 DEF NotSent
  <2>2. \A e \in Events : fate'[e].outcome = IF e \in es THEN o ELSE fate[e].outcome
    BY <2>1, SettledFacts DEF Outcome
  <2>3. \A e \in Events : Held(e)' <=> \E s \in Senders : e \in send[s].events
    BY <1>3, <2>1 DEF Held
  <2>4. \A e \in Events : Pending(e)' <=> ((Pending(e) \/ e \in new) /\ e \notin es)
    BY <1>4, <1>6, <1>8, <2>2 DEF Pending
  <2>5. \A e \in Events : (\E s \in Senders : e \in send[s].events) => Pending(e) /\ e \notin es
    BY <1>4, <1>9 DEF Held
  <2>6. \A e \in Events : Held(e)' <=> Pending(e)'
    BY <1>7, <2>3, <2>4, <2>5
  <2>7. /\ \A s, u \in Senders : s # u => send'[s].events \cap send'[u].events = {}
        /\ \A s \in Senders : send'[s].events \cap EventsOf(batch') = {}
    BY <1>3, <2>1 DEF Holding, OneHolder
  <2>8. Fresh'
    <3>1. \A e \in Events : e > written' => e > written /\ e \notin new
      BY <1>1, <1>5, <1>8
    <3>2. \A e \in Events : e > written => ~Pending(e)
      BY <1>1, <1>5 DEF Pending
    <3> QED
      BY <1>4, <1>7, <2>2, <3>1, <3>2 DEF Fresh
  <2> QED
    BY <1>3, <2>6, <2>7, <2>8 DEF Holding, OneHolder, Held, Pending
<1> QED
  BY <1>11, <1>12, <1>13

(* An event joins the batch.                                               *)
LEMMA HolderAppends ==
  ASSUME Shape, Holding, NEW f \in [Events -> FateState],
         written < MaxEvents, written' = written + 1,
         batch' = Append(batch, written + 1), fate' = f, send' = send,
         \A e \in Events : f[e].outcome = fate[e].outcome
  PROVE  Holding'
<1>1. /\ batch \in BatchState /\ written \in 0 .. MaxEvents
  BY TypedParts DEF Shape, TypeOK
<1>2. written + 1 \in Events
  BY <1>1, BatchingAssumption DEF Events
<1>3. \A e \in Events : e \in Nat
  BY DEF Events
<1>4. \A e \in Events : (Held(e) <=> Pending(e)) /\ (e > written => fate[e].outcome = "pending")
  BY DEF Holding, OneHolder, Held, Pending, Fresh
<1>5. ~Held(written + 1) /\ fate[written + 1].outcome = "pending"
  BY <1>1, <1>2, <1>4 DEF Pending
<1>6. /\ EventsOf(batch') = EventsOf(batch) \cup {written + 1}
      /\ \A i, j \in 1 .. Len(batch') : batch'[i] = batch'[j] => i = j
  BY <1>1, <1>2, <1>5, AppendedBatch DEF BatchState, Held, Holding, OneHolder
<1>7. \A e \in Events : Held(e)' <=> (Held(e) \/ e = written + 1)
  BY <1>6 DEF Held
<1>8. \A e \in Events : Pending(e)' <=> (Pending(e) \/ e = written + 1)
  BY <1>1, <1>2, <1>3, <1>5 DEF Pending
<1>9. /\ \A s, u \in Senders : s # u => send'[s].events \cap send'[u].events = {}
      /\ \A s \in Senders : send'[s].events \cap EventsOf(batch') = {}
  BY <1>5, <1>6 DEF Held, Holding, OneHolder
<1>10. Fresh'
  BY <1>1, <1>3, <1>4 DEF Fresh
<1> QED
  BY <1>4, <1>6, <1>7, <1>8, <1>9, <1>10 DEF Holding, OneHolder, Held, Pending

LEMMA HoldingStep == Sound /\ Holding /\ [Next]_vars => Holding'
<1> SUFFICES ASSUME Sound, Holding, [Next]_vars PROVE Holding'
  OBVIOUS
<1>1. /\ send \in [Senders -> SendState] /\ fate \in [Events -> FateState]
      /\ batch \in BatchState /\ Shape
  BY TypedParts DEF Sound
<1>2. ASSUME NEW w \in Writers, Write(w) PROVE Holding'
  <2> DEFINE e == written + 1
             f == [fate EXCEPT ![e].running = (phase = "running")]
  <2>1. written < MaxEvents /\ written' = e /\ send[w] = Idle /\ w \in Senders
    BY <1>2 DEF Write, Senders
  <2>2. e \in Events
    <3>1. written \in 0 .. MaxEvents
      BY DEF Sound, Shape, TypeOK
    <3> QED
      BY <2>1, <3>1, BatchingAssumption DEF Events
  <2>3. f \in [Events -> FateState] /\ \A x \in Events : f[x].outcome = fate[x].outcome
    <3> DEFINE b == (phase = "running")
               g == [fate EXCEPT ![e].running = b]
    <3>1. b \in BOOLEAN
      OBVIOUS
    <3> HIDE DEF b, e
    <3>2. /\ g \in [Events -> FateState] /\ g[e].outcome = fate[e].outcome
          /\ \A x \in Events \ {e} : g[x] = fate[x]
      BY <1>1, <2>2, <3>1, WrittenFate
    <3>3. g = f
      BY DEF b
    <3> HIDE DEF g, f
    <3> QED
      BY <3>2, <3>3
  <2>4. CASE Len(batch) + 1 >= BatchSize
    <3>1. batch' = <<>> /\ SendBatch(w, EventsOf(batch) \cup {e}, f)
      BY <1>2, <2>4 DEF Write, ClearBatch
    <3> HIDE DEF f
    <3> QED
      BY <1>1, <2>1, <2>2, <2>3, <3>1, HolderTakes
  <2>5. CASE ~(Len(batch) + 1 >= BatchSize)
    <3>1. batch' = Append(batch, e) /\ fate' = f /\ send' = send
      BY <1>2, <2>5 DEF Write
    <3> HIDE DEF f
    <3> QED
      BY <1>1, <2>1, <2>3, <3>1, HolderAppends
  <2> QED
    BY <2>4, <2>5
<1>3. ASSUME NEW l \in Loops, LoopFlush(l) PROVE Holding'
  <2>1. send[l] = Idle /\ l \in Senders /\ batch' = <<>> /\ written' = written
        /\ SendBatch(l, EventsOf(batch), fate)
    BY <1>3 DEF LoopFlush, ClearBatch, Senders
  <2> QED
    BY <1>1, <2>1, HolderTakes
<1>4. ASSUME NEW t \in Senders, GetClient(t) \/ GiveUpWaiting(t) PROVE Holding'
  <2>1. CASE GetClient(t)
    <3>1. UNCHANGED <<batch, written, fate>>
          /\ send' = [send EXCEPT ![t] = Request(send[t].events, 1, NextClient(pool))]
      BY <2>1 DEF GetClient, batchVars
    <3>2. \A s \in Senders : send'[s].events = send[s].events
      BY <1>1, <3>1 DEF Request
    <3> QED
      BY <3>1, <3>2, HoldersKept
  <2>2. CASE GiveUpWaiting(t)
    BY <1>1, <2>2, HolderDone DEF GiveUpWaiting, batchVars, Outcome
  <2> QED
    BY <1>4, <2>1, <2>2
<1>5. ASSUME NEW t \in Senders, Reply(t) PROVE Holding'
  <2>1. UNCHANGED <<batch, written>>
        /\ \/ send' = [send EXCEPT ![t].pc = "sleeping"] /\ fate' = fate
           \/ /\ send' = [send EXCEPT ![t] = Idle]
              /\ fate' = Settled(fate, send[t].events, "over")
    BY <1>5, ReplyParts
  <2>2. CASE send' = [send EXCEPT ![t].pc = "sleeping"] /\ fate' = fate
    <3>1. \A s \in Senders : send'[s].events = send[s].events
      BY <1>1, <2>2, SleepingTyped
    <3> QED
      BY <2>1, <2>2, <3>1, HoldersKept
  <2>3. CASE send' = [send EXCEPT ![t] = Idle] /\ fate' = Settled(fate, send[t].events, "over")
    BY <1>1, <2>1, <2>3, HolderDone DEF Outcome
  <2> QED
    BY <2>1, <2>2, <2>3
<1>6. ASSUME NEW t \in Senders, Retry(t) PROVE Holding'
  <2>1. UNCHANGED <<batch, written, fate>>
        /\ send' = [send EXCEPT ![t] =
                      Request(send[t].events, send[t].attempt + 1, send[t].client)]
    BY <1>6 DEF Retry, batchVars
  <2>2. \A s \in Senders : send'[s].events = send[s].events
    BY <1>1, <2>1 DEF Request
  <2> QED
    BY <2>1, <2>2, HoldersKept
<1>7. CASE Start \/ Close \/ Elapse \/ UNCHANGED vars
  <2>1. UNCHANGED <<batch, written, fate, send>>
    BY <1>7 DEF Start, Close, Elapse, vars, batchVars
  <2> QED
    BY <2>1, HoldersKept
<1>8. CASE BeginStop
  <2>1. UNCHANGED <<batch, written>>
    BY <1>8 DEF BeginStop, batchVars
  <2>2. CASE flushTask = NoLoop
    <3>1. UNCHANGED <<send, fate>>
      BY <1>8, <2>2 DEF BeginStop
    <3> QED
      BY <2>1, <3>1, HoldersKept
  <2>3. CASE flushTask # NoLoop
    <3>1. /\ send' = [send EXCEPT ![flushTask] = Idle]
          /\ fate' = Settled(fate, send[flushTask].events, "over")
      BY <1>8, <2>3 DEF BeginStop
    <3>2. flushTask \in Senders
      BY <2>3 DEF Senders, Sound, Shape, TypeOK
    <3> QED
      BY <1>1, <2>1, <3>1, <3>2, HolderDone DEF Outcome
  <2> QED
    BY <2>2, <2>3
<1>9. CASE FlushRest
  <2>1. written' = written /\ send[Owner] = Idle /\ Owner \in Senders
    BY <1>9 DEF FlushRest, Sound, OwnerQuiet, Senders
  <2>2. CASE batch = <<>>
    BY <1>9, <2>1, <2>2, HoldersKept DEF FlushRest
  <2>3. CASE batch # <<>>
    <3>1. batch' = <<>> /\ SendBatch(Owner, EventsOf(batch), fate)
      BY <1>9, <2>3 DEF FlushRest, ClearBatch
    <3> QED
      BY <1>1, <2>1, <3>1, HolderTakes
  <2> QED
    BY <2>2, <2>3
<1> QED
  BY <1>2, <1>3, <1>4, <1>5, <1>6, <1>7, <1>8, <1>9, Steps

LEMMA AlwaysHolding == Spec => [](Sound /\ Holding)
<1>1. Init => Holding
  BY BatchingAssumption, IdleTyped
     DEF Init, Holding, OneHolder, Fresh, EventsOf, Events, NoFate
<1>2. Sound /\ Holding /\ [Next]_vars => (Sound /\ Holding)'
  BY ShapeStep, OwnerQuietStep, HoldingStep DEF Sound
<1>3. Spec => []Sound
  BY AlwaysSound
<1> QED
  BY <1>1, <1>2, <1>3, PTL DEF Spec

(***************************************************************************)
(* Of a written event exactly one place knows until its send is over: the  *)
(* batch, or one of the writers, flush loops and stop() calls that compete *)
(* for it - for every number of each (_batching.py:40-85).                 *)
(***************************************************************************)
THEOREM BatchesHaveOneHolder == Spec => []OneHolder
<1>1. Holding => OneHolder
  BY DEF Holding
<1> QED
  BY <1>1, AlwaysHolding, PTL

-----------------------------------------------------------------------------
(* What a send makes of the fates: nobody becomes pending, nobody is       *)
(* marked as running or not, and only for want of a client is anything     *)
(* discarded.                                                              *)
FatesFollow(es, f) ==
  /\ fate' \in [Events -> FateState]
  /\ \A e \in Events :
       /\ fate'[e].running = f[e].running
       /\ fate'[e].outcome = "pending" => f[e].outcome = "pending"
       /\ fate'[e].outcome = "discarded" =>
            \/ f[e].outcome = "discarded"
            \/ e \in es /\ kind # "http" /\ ~up

LEMMA FatesAfterSend ==
  ASSUME Shape, NEW t \in Senders, NEW es \in SUBSET Events,
         NEW f \in [Events -> FateState], SendBatch(t, es, f)
  PROVE  FatesFollow(es, f)
<1> USE DEF FatesFollow
<1>1. Sent(t, es, f) \/ NotSent(es, f)
  BY SendBatchFacts
<1>2. CASE Sent(t, es, f)
  BY <1>2 DEF Sent
<1>3. CASE NotSent(es, f)
  <2>1. PICK o \in {"over", "discarded"} :
          fate' = Settled(f, es, o) /\ kind # "http" /\ (o = "discarded" => ~up)
    BY <1>3 DEF NotSent
  <2>2. /\ fate' \in [Events -> FateState]
        /\ \A e \in Events :
             /\ fate'[e].outcome = IF e \in es THEN o ELSE f[e].outcome
             /\ fate'[e].running = f[e].running
    BY <2>1, SettledFacts DEF Outcome
  <2> QED
    BY <2>1, <2>2
<1> QED
  BY <1>1, <1>2, <1>3

(* The fates after a step that starts no send.                             *)
LEMMA FatesOtherwise ==
  ASSUME Sound,
         \/ \E t \in Senders : GetClient(t) \/ GiveUpWaiting(t) \/ Reply(t) \/ Retry(t)
         \/ Start \/ BeginStop \/ Close \/ Elapse \/ UNCHANGED vars
  PROVE  \A e \in Events :
           /\ fate'[e].running = fate[e].running
           /\ fate'[e].outcome \in {fate[e].outcome, "over"}
<1>1. fate' = fate \/ \E es : fate' = Settled(fate, es, "over")
  <2>1. ASSUME NEW t \in Senders, Reply(t) PROVE fate' = fate \/ \E es : fate' = Settled(fate, es, "over")
    BY <2>1, ReplyParts
  <2>2. ASSUME NEW t \in Senders, GetClient(t) \/ GiveUpWaiting(t) \/ Retry(t)
        PROVE  fate' = fate \/ \E es : fate' = Settled(fate, es, "over")
    BY <2>2 DEF GetClient, GiveUpWaiting, Retry
  <2>3. CASE Start \/ Close \/ Elapse \/ UNCHANGED vars
    BY <2>3 DEF Start, Close, Elapse, vars
  <2>4. CASE BeginStop
    BY <2>4 DEF BeginStop
  <2> QED
    BY <2>1, <2>2, <2>3, <2>4
<1>2. fate \in [Events -> FateState]
  BY TypedParts DEF Sound
<1>3. \A es, e : e \in Events =>
        /\ Settled(fate, es, "over")[e].outcome =
             IF e \in es THEN "over" ELSE fate[e].outcome
        /\ Settled(fate, es, "over")[e].running = fate[e].running
  BY <1>2, SettledFacts DEF Outcome
<1> QED
  BY <1>1, <1>3

(***************************************************************************)
(* An event nobody has settled has not been stored: what a retry repeats   *)
(* the service has not taken.                                              *)
(***************************************************************************)
Once ==
  ~lost => \A e \in Events :
             /\ service.copies[e] <= 1
             /\ fate[e].outcome = "pending" => service.copies[e] = 0

LEMMA OnceKept ==
  ASSUME Once, UNCHANGED service, lost' \in BOOLEAN, ~lost' => ~lost,
         \A e \in Events : fate'[e].outcome = "pending" => fate[e].outcome = "pending"
  PROVE  Once'
  BY DEF Once

LEMMA OnceStep == Sound /\ Holding /\ Once /\ [Next]_vars => Once'
<1> SUFFICES ASSUME Sound, Holding, Once, [Next]_vars PROVE Once'
  OBVIOUS
<1>1. /\ send \in [Senders -> SendState] /\ fate \in [Events -> FateState]
      /\ batch \in BatchState /\ Shape /\ lost \in BOOLEAN
      /\ service \in [expects : Nat, copies : [Events -> Nat]]
  BY TypedParts DEF Sound, Shape, TypeOK
<1>2. EventsOf(batch) \in SUBSET Events
  BY <1>1 DEF BatchState, EventsOf
<1>3. ASSUME NEW w \in Writers, Write(w) PROVE Once'
  <2> DEFINE e == written + 1
             b == (phase = "running")
             f == [fate EXCEPT ![e].running = b]
  <2>1. /\ written < MaxEvents /\ w \in Senders /\ UNCHANGED <<service, lost>>
        /\ fate' = f \/ SendBatch(w, EventsOf(batch) \cup {e}, f)
    BY <1>3 DEF Write, serviceVars, Senders
  <2>2. e \in Events
    <3>1. written \in 0 .. MaxEvents
      BY DEF Sound, Shape, TypeOK
    <3> QED
      BY <2>1, <3>1, BatchingAssumption DEF Events
  <2>3. b \in BOOLEAN
    OBVIOUS
  <2> HIDE DEF b, e
  <2>4. /\ f \in [Events -> FateState] /\ f[e].outcome = fate[e].outcome
        /\ \A x \in Events \ {e} : f[x] = fate[x]
    BY <1>1, <2>2, <2>3, WrittenFate
  <2> HIDE DEF f
  <2>5. \A x \in Events : f[x].outcome = fate[x].outcome
    BY <2>4
  <2>6. \A x \in Events : fate'[x].outcome = "pending" => f[x].outcome = "pending"
    <3>1. EventsOf(batch) \cup {e} \in SUBSET Events
      BY <1>2, <2>2
    <3> DEFINE es == EventsOf(batch) \cup {e}
    <3>2. es \in SUBSET Events /\ (fate' = f \/ SendBatch(w, es, f))
      BY <2>1, <3>1
    <3> HIDE DEF es
    <3>3. CASE SendBatch(w, es, f)
      BY <1>1, <2>1, <2>4, <3>2, <3>3, FatesAfterSend DEF FatesFollow
    <3> QED
      BY <3>2, <3>3
  <2> QED
    BY <1>1, <2>1, <2>5, <2>6, OnceKept
<1>4. ASSUME NEW l \in Loops, LoopFlush(l) PROVE Once'
  <2>1. SendBatch(l, EventsOf(batch), fate) /\ l \in Senders /\ UNCHANGED <<service, lost>>
    BY <1>4 DEF LoopFlush, serviceVars, Senders
  <2>2. \A e \in Events : fate'[e].outcome = "pending" => fate[e].outcome = "pending"
    BY <1>1, <1>2, <2>1, FatesAfterSend DEF FatesFollow
  <2> QED
    BY <1>1, <2>1, <2>2, OnceKept
<1>5. CASE FlushRest
  <2>1. UNCHANGED <<service, lost>> /\ Owner \in Senders
        /\ (fate' = fate \/ SendBatch(Owner, EventsOf(batch), fate))
    BY <1>5 DEF FlushRest, serviceVars, Senders
  <2>2. \A e \in Events : fate'[e].outcome = "pending" => fate[e].outcome = "pending"
    BY <1>1, <1>2, <2>1, FatesAfterSend DEF FatesFollow
  <2> QED
    BY <1>1, <2>1, <2>2, OnceKept
<1>6. ASSUME NEW t \in Senders, Reply(t) PROVE Once'
  <2>1. PICK r \in Replies(t) :
          /\ service' = IF Stores(r) THEN Stored(send[t].events) ELSE service
          /\ lost' = (lost \/ (Stores(r) /\ r # "ok"))
          /\ Retries(r) \/ fate' = Settled(fate, send[t].events, "over")
    BY <1>6, ReplyParts
  <2>2. \A e \in Events : fate'[e].outcome = "pending" => fate[e].outcome = "pending"
    BY <1>6, FatesOtherwise
  <2>3. CASE ~Stores(r)
    BY <1>1, <2>1, <2>2, <2>3, OnceKept
  <2>4. CASE Stores(r) /\ r # "ok"
    BY <2>1, <2>4 DEF Once
  <2>5. CASE r = "ok"
    <3>1. /\ service' = Stored(send[t].events) /\ lost' = lost
          /\ fate' = Settled(fate, send[t].events, "over")
      BY <1>1, <2>1, <2>5 DEF Stores, Retries
    <3>2. \A e \in Events :
            service'.copies[e] = IF e \in send[t].events THEN service.copies[e] + 1
                                                          ELSE service.copies[e]
      BY <3>1 DEF Stored
    <3>3. \A e \in Events :
            fate'[e].outcome = IF e \in send[t].events THEN "over" ELSE fate[e].outcome
      BY <1>1, <3>1, SettledFacts DEF Outcome
    <3>4. \A e \in send[t].events : e \in Events /\ fate[e].outcome = "pending"
      BY <1>1 DEF Holding, OneHolder, SendState
    <3> QED
      BY <1>1, <3>1, <3>2, <3>3, <3>4 DEF Once
  <2> QED
    BY <2>3, <2>4, <2>5
<1>7. CASE BeginStop
  <2>1. UNCHANGED <<service, lost>> \/ lost' = TRUE
    BY <1>7 DEF BeginStop, CutRequest
  <2>2. \A e \in Events : fate'[e].outcome = "pending" => fate[e].outcome = "pending"
    BY <1>7, FatesOtherwise
  <2>3. CASE lost' = TRUE
    BY <2>3 DEF Once
  <2>4. CASE UNCHANGED <<service, lost>>
    BY <1>1, <2>2, <2>4, OnceKept
  <2> QED
    BY <2>1, <2>3, <2>4
<1>8. ASSUME NEW t \in Senders, GetClient(t) \/ GiveUpWaiting(t) \/ Retry(t) PROVE Once'
  <2>1. UNCHANGED <<service, lost>>
    BY <1>8 DEF GetClient, GiveUpWaiting, Retry, serviceVars
  <2>2. \A e \in Events : fate'[e].outcome = "pending" => fate[e].outcome = "pending"
    BY <1>8, FatesOtherwise
  <2> QED
    BY <1>1, <2>1, <2>2, OnceKept
<1>9. CASE Start \/ Close \/ Elapse \/ UNCHANGED vars
  <2>1. UNCHANGED <<service, lost, fate>>
    BY <1>9 DEF Start, Close, Elapse, vars, serviceVars
  <2> QED
    BY <1>1, <2>1, OnceKept
<1> QED
  BY <1>3, <1>4, <1>5, <1>6, <1>7, <1>8, <1>9, Steps

(***************************************************************************)
(* As long as every reply arrives the service has no event twice, whatever *)
(* is retried, cancelled or taken by several senders.                      *)
(***************************************************************************)
THEOREM RetriesRepeatNothing == Spec => []StoredOnce
<1>1. Init => Once
  BY DEF Init, Once
<1>2. Sound /\ Holding /\ Once /\ [Next]_vars => Once'
  BY OnceStep
<1>3. Once => StoredOnce
  BY DEF Once, StoredOnce
<1> QED
  BY <1>1, <1>2, <1>3, AlwaysHolding, PTL DEF Spec

-----------------------------------------------------------------------------
(***************************************************************************)
(* While the sink runs, and until stop() has sent what is left, there is a *)
(* client; what is written afterwards is all the batch may still hold.     *)
(***************************************************************************)
Supplied ==
  /\ kind # "http" /\ phase \in {"running", "stopping", "closing"} => up
  /\ \A e \in EventsOf(batch) : fate[e].running => phase \in {"running", "stopping"}
  /\ NothingDiscarded

LEMMA SuppliedSend ==
  ASSUME Sound, Supplied, NEW t \in Senders, NEW es \in SUBSET Events,
         NEW f \in [Events -> FateState], SendBatch(t, es, f),
         \A e \in Events : f[e].running => f[e].outcome # "discarded",
         \A e \in es : f[e].running => phase \in {"running", "stopping"},
         UNCHANGED <<kind, up>>, batch' = <<>>,
         phase' = phase \/ (phase = "stopping" /\ phase' = "closing")
  PROVE  Supplied'
<1>1. /\ fate' \in [Events -> FateState]
      /\ \A e \in Events :
           /\ fate'[e].running = f[e].running
           /\ fate'[e].outcome = "discarded" =>
                \/ f[e].outcome = "discarded"
                \/ e \in es /\ kind # "http" /\ ~up
  <2>1. Shape
    BY DEF Sound
  <2>2. FatesFollow(es, f)
    BY <2>1, FatesAfterSend
  <2> QED
    BY <2>2 DEF FatesFollow
<1>2. NothingDiscarded'
  BY <1>1 DEF NothingDiscarded, Supplied
<1>3. EventsOf(batch') = {}
  BY DEF EventsOf
<1> QED
  BY <1>2, <1>3 DEF Supplied

LEMMA SuppliedStep == Sound /\ Holding /\ Supplied /\ [Next]_vars => Supplied'
<1> SUFFICES ASSUME Sound, Holding, Supplied, [Next]_vars PROVE Supplied'
  OBVIOUS
<1>1. /\ fate \in [Events -> FateState] /\ batch \in BatchState /\ Shape
  BY TypedParts DEF Sound
<1>2. EventsOf(batch) \in SUBSET Events
  BY <1>1 DEF BatchState, EventsOf
<1>3. \A e \in Events : fate[e].running => fate[e].outcome # "discarded"
  BY DEF Supplied, NothingDiscarded
<1>4. ASSUME NEW w \in Writers, Write(w) PROVE Supplied'
  <2> DEFINE e == written + 1
             b == (phase = "running")
             f == [fate EXCEPT ![e].running = b]
  <2>1. written < MaxEvents /\ w \in Senders /\ UNCHANGED <<kind, phase, up>>
    BY <1>4 DEF Write, ownerVars, Senders
  <2>2. e \in Events /\ e > written
    BY <2>1, BatchingAssumption DEF Events, Sound, Shape, TypeOK
  <2>3. b \in BOOLEAN /\ (b => phase = "running")
    OBVIOUS
  <2>4. \/ batch' = <<>> /\ SendBatch(w, EventsOf(batch) \cup {e}, f)
        \/ batch' = Append(batch, e) /\ fate' = f
    BY <1>4 DEF Write, ClearBatch
  <2> HIDE DEF b, e
  <2>5. /\ f \in [Events -> FateState] /\ f[e].outcome = fate[e].outcome
        /\ f[e].running = b
        /\ \A x \in Events \ {e} : f[x] = fate[x]
    BY <1>1, <2>2, <2>3, WrittenFate
  <2> HIDE DEF f
  <2>6. fate[e].outcome = "pending"
    BY <2>2 DEF Holding, Fresh
  <2>7. \A x \in Events : f[x].running => f[x].outcome # "discarded"
    <3>1. f[e].outcome # "discarded"
      BY <2>5, <2>6
    <3> QED
      BY <1>3, <2>5, <3>1
  <2>8. \A x \in EventsOf(batch) \cup {e} :
          f[x].running => phase \in {"running", "stopping"}
    <3>1. ASSUME NEW x \in EventsOf(batch) \ {e}
          PROVE  f[x].running => phase \in {"running", "stopping"}
      <4>1. x \in Events /\ f[x] = fate[x]
        BY <1>2, <2>5
      <4> QED
        BY <4>1 DEF Supplied
    <3> QED
      BY <2>3, <2>5, <3>1
  <2>9. CASE batch' = <<>> /\ SendBatch(w, EventsOf(batch) \cup {e}, f)
    <3>1. EventsOf(batch) \cup {e} \in SUBSET Events
      BY <1>2, <2>2
    <3> QED
      BY <2>1, <2>5, <2>7, <2>8, <2>9, <3>1, SuppliedSend
  <2>10. CASE batch' = Append(batch, e) /\ fate' = f
    <3>1. EventsOf(batch') = EventsOf(batch) \cup {e}
      BY <1>1, <2>2, <2>10, AppendedBatch DEF BatchState
    <3>2. \A x \in EventsOf(batch') : fate'[x].running => phase' \in {"running", "stopping"}
      BY <2>1, <2>8, <2>10, <3>1
    <3>3. NothingDiscarded'
      BY <2>7, <2>10 DEF NothingDiscarded
    <3> QED
      BY <2>1, <3>2, <3>3 DEF Supplied
  <2> QED
    BY <2>4, <2>9, <2>10
<1>5. \A x \in EventsOf(batch) : fate[x].running => phase \in {"running", "stopping"}
  BY DEF Supplied
<1>6. ASSUME NEW l \in Loops, LoopFlush(l) PROVE Supplied'
  <2>1. /\ SendBatch(l, EventsOf(batch), fate) /\ l \in Senders
        /\ batch' = <<>> /\ UNCHANGED <<kind, phase, up>>
    BY <1>6 DEF LoopFlush, ClearBatch, ownerVars, Senders
  <2> QED
    BY <1>1, <1>2, <1>3, <1>5, <2>1, SuppliedSend
<1>7. CASE FlushRest
  <2>1. /\ phase = "stopping" /\ phase' = "closing" /\ Owner \in Senders
        /\ UNCHANGED <<kind, up>>
    BY <1>7 DEF FlushRest, Senders
  <2>2. CASE batch = <<>>
    <3>1. batch' = <<>> /\ fate' = fate
      BY <1>7, <2>2 DEF FlushRest
    <3>2. EventsOf(batch') = {}
      BY <3>1 DEF EventsOf
    <3> QED
      BY <2>1, <3>1, <3>2 DEF Supplied, NothingDiscarded
  <2>3. CASE batch # <<>>
    <3>1. batch' = <<>> /\ SendBatch(Owner, EventsOf(batch), fate)
      BY <1>7, <2>3 DEF FlushRest, ClearBatch
    <3> QED
      BY <1>1, <1>2, <1>3, <1>5, <2>1, <3>1, SuppliedSend
  <2> QED
    BY <2>2, <2>3
<1>8. ASSUME \/ \E t \in Senders : GetClient(t) \/ GiveUpWaiting(t) \/ Reply(t) \/ Retry(t)
             \/ Start \/ BeginStop \/ Close \/ Elapse \/ UNCHANGED vars
      PROVE  Supplied'
  <2>1. \A e \in Events : /\ fate'[e].running = fate[e].running
                          /\ fate'[e].outcome \in {fate[e].outcome, "over"}
    BY <1>8, FatesOtherwise
  <2>2. NothingDiscarded'
    BY <1>3, <2>1 DEF NothingDiscarded
  <2>3. UNCHANGED batch
    BY <1>8 DEF GetClient, GiveUpWaiting, Reply, Retry, Start, BeginStop, Close, Elapse,
                vars, batchVars
  <2>4. \/ UNCHANGED <<kind, phase, up>>
        \/ phase' = "running" /\ up' = (kind # "http") /\ kind' = kind
        \/ phase = "running" /\ phase' = "stopping" /\ UNCHANGED <<kind, up>>
        \/ phase = "closing" /\ phase' = "stopped" /\ kind' = kind
    BY <1>8 DEF GetClient, GiveUpWaiting, Reply, Retry, Start, BeginStop, Close, Elapse,
                vars, ownerVars
  <2>5. \A e \in EventsOf(batch') : fate'[e].running => phase' \in {"running", "stopping"}
    <3>1. ASSUME NEW e \in EventsOf(batch'), fate'[e].running
          PROVE  phase' \in {"running", "stopping"}
      <4>1. e \in EventsOf(batch)
        BY <2>3, <3>1 DEF EventsOf
      <4>2. fate[e].running
        BY <1>2, <2>1, <3>1, <4>1
      <4> QED
        BY <1>5, <2>4, <4>1, <4>2
    <3> QED
      BY <3>1
  <2>6. kind' # "http" /\ phase' \in {"running", "stopping", "closing"} => up'
    BY <2>4 DEF Supplied
  <2> QED
    BY <2>2, <2>5, <2>6 DEF Supplied
<1> QED
  BY <1>4, <1>6, <1>7, <1>8, Steps

(***************************************************************************)
(* What was written while the sink ran is never discarded for want of a    *)
(* client: stop() sends the rest before it closes.                         *)
(***************************************************************************)
THEOREM StopSendsTheRest == Spec => []NothingDiscarded
<1>1. Init => Supplied
  <2> SUFFICES ASSUME Init PROVE Supplied
    OBVIOUS
  <2>1. \A e \in Events : fate[e].running = FALSE
    BY DEF Init, NoFate
  <2>2. phase = "new" /\ EventsOf(batch) = {}
    BY DEF Init, EventsOf
  <2> QED
    BY <2>1, <2>2 DEF Supplied, NothingDiscarded
<1>2. Sound /\ Holding /\ Supplied /\ [Next]_vars => Supplied'
  BY SuppliedStep
<1>3. Supplied => NothingDiscarded
  BY DEF Supplied
<1> QED
  BY <1>1, <1>2, <1>3, AlwaysHolding, PTL DEF Spec
=============================================================================
