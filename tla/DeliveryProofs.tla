--------------------------- MODULE DeliveryProofs ---------------------------
(* Theorems about SinkDelivery, for every number of sinks and writers, both *)
(* modes, and every threshold, timeout and number of probes; then about     *)
(* AdaptiveDelivery, which adds the pressure monitor, for all thresholds    *)
(* the settings accept, every cooldown and every number of workers.         *)
EXTENDS AdaptiveDelivery, FiniteSetTheorems, TLAPS

USE BreakerAssumption, DeliveryAssumption

-----------------------------------------------------------------------------
(* What the methods of one breaker do to it.                               *)

LEMMA AskedFacts ==
  ASSUME NEW b \in Breaker
  PROVE  /\ Asked(b) \in Breaker
         /\ Asked(b).state = "closed" <=> b.state = "closed"
         /\ Asked(b).state = "open" => Asked(b) = b
         /\ b.state = "closed" \/ ~Allows(b) => Asked(b) = b
         /\ b.state = "open" /\ Asked(b).state # "open" =>
              Allows(b) /\ b.wait >= RecoveryTime
         /\ b.state # "closed" /\ Allows(b) =>
              /\ Asked(b).state = "half_open"
              /\ Asked(b).probes <= ProbeMax
              /\ Asked(b).probes = IF b.state = "open" THEN 1 ELSE b.probes + 1
<1>1. CASE b.state = "closed" \/ ~Allows(b)
  BY <1>1 DEF Breaker, CircuitState, Asked, Allows
<1>2. CASE b.state # "closed" /\ Allows(b)
  <2> DEFINE n == IF b.state = "open" THEN 1 ELSE b.probes + 1
  <2>1. n \in 0 .. ProbeMax /\ n <= ProbeMax
    BY <1>2 DEF Breaker, CircuitState, Allows
  <2>2. Asked(b) = [state |-> "half_open", failures |-> b.failures,
                    wait |-> b.wait, probes |-> n]
    BY <1>2 DEF Breaker, Asked
  <2>3. b.state = "open" => b.wait >= RecoveryTime
    BY <1>2 DEF Allows
  <2> QED
    BY <1>2, <2>1, <2>2, <2>3 DEF Breaker, CircuitState
<1> QED
  BY <1>1, <1>2

LEMMA SucceededFacts ==
  ASSUME NEW b \in Breaker
  PROVE  /\ Succeeded(b) \in Breaker
         /\ Succeeded(b).state # "half_open"
         /\ Succeeded(b).state = "closed" <=> b.state # "open"
         /\ Succeeded(b).wait = b.wait
<1> DEFINE next == IF b.state = "half_open" THEN "closed" ELSE b.state
<1>1. Succeeded(b) = [state |-> next, failures |-> 0, wait |-> b.wait, probes |-> b.probes]
  <2>1. Succeeded(b) = [b EXCEPT !.state = next, !.failures = 0]
    BY DEF Succeeded
  <2> QED
    BY <2>1 DEF Breaker
<1> QED
  BY <1>1 DEF Breaker, CircuitState

LEMMA FailedFacts ==
  ASSUME NEW b \in Breaker
  PROVE  /\ Failed(b) \in Breaker
         /\ Failed(b).state # "half_open"
         /\ Failed(b).state = "closed" <=> b.state = "closed" /\ ~EmitsOpen(b)
         /\ Failed(b).wait = 0
<1> DEFINE next == IF EmitsOpen(b) THEN "open" ELSE b.state
<1>1. Failed(b) = [state |-> next, failures |-> OneMore(b), wait |-> 0, probes |-> b.probes]
  <2>1. Failed(b) = [b EXCEPT !.state = next, !.failures = OneMore(b), !.wait = 0]
    BY DEF Failed
  <2> HIDE DEF next
  <2> QED
    BY <2>1 DEF Breaker
<1>2. OneMore(b) \in 0 .. FailureThreshold
  BY DEF Breaker, OneMore
<1>3. b.state = "half_open" => EmitsOpen(b)
  BY DEF EmitsOpen
<1> QED
  BY <1>1, <1>2, <1>3 DEF Breaker, CircuitState

LEMMA AgedFacts ==
  ASSUME NEW b \in Breaker
  PROVE  /\ Aged(b) \in Breaker
         /\ Aged(b).state = b.state
         /\ Aged(b).probes = b.probes
         /\ Aged(b).wait =
              IF b.state = "open" /\ b.wait < RecoveryTime THEN b.wait + 1 ELSE b.wait
BY DEF Breaker, CircuitState, Aged

-----------------------------------------------------------------------------
Phases == {"waiting"} \cup InProgress \cup Outcomes

LEMMA SetPhaseFacts ==
  ASSUME TypeOK, NEW w \in Writers, NEW s \in Sinks, NEW p \in Phases, SetPhase(w, s, p)
  PROVE  /\ call' \in [Writers -> [Sinks -> Phases]]
         /\ \A v \in Writers, t \in Sinks :
              call'[v][t] = IF v = w /\ t = s THEN p ELSE call[v][t]
BY DEF TypeOK, SetPhase, Phases

LEMMA NewPhases ==
  ASSUME NEW w, NEW s
  PROVE  /\ AdmittedPhase(w, s) \in {"starting", "writing"}
         /\ RefusedPhase(w, s) \in {"fb_starting", "fb_writing", "skipped"}
         /\ ~HasFallback(s) => RefusedPhase(w, s) = "skipped"
BY DEF AdmittedPhase, RefusedPhase

LEMMA ProbingType ==
  ASSUME TypeOK, NEW w \in Writers, NEW s \in Sinks
  PROVE  ProbingAfter(w, s) \in SUBSET Writers
BY DEF TypeOK, ProbingAfter

(***************************************************************************)
(* Only a sink that has a fallback is ever served by it: what TypeOK needs *)
(* to know that the sink started in its place is a sink of the group.      *)
(***************************************************************************)
FallbackUsed ==
  \A w \in Writers, s \in Sinks :
    call[w][s] \in {"refused", "fb_starting", "fb_writing"} => HasFallback(s)

TypeInv == TypeOK /\ FallbackUsed

LEMMA NextTypeOK == TypeInv /\ [DeliveryNext]_deliveryVars => TypeOK'
<1> SUFFICES ASSUME TypeOK, FallbackUsed, [DeliveryNext]_deliveryVars PROVE TypeOK'
  BY DEF TypeInv
<1> USE DEF TypeOK
<1>1. ASSUME NEW w \in Writers, NEW serialized \in BOOLEAN, BeginSequential(w, serialized)
      PROVE  TypeOK'
  BY <1>1 DEF BeginSequential
<1>2. ASSUME NEW w \in Writers, BeginParallel(w)
      PROVE  TypeOK'
  <2>1. breaker' \in [Sinks -> Breaker]
    BY <1>2, AskedFacts DEF BeginParallel
  <2>2. call' \in [Writers -> [Sinks -> Phases]]
    BY <1>2 DEF BeginParallel, Phases, InProgress, Outcomes
  <2>3. probing' \in [Sinks -> SUBSET Writers]
    BY <1>2, ProbingType DEF BeginParallel
  <2> QED
    BY <1>2, <2>1, <2>2, <2>3 DEF BeginParallel, Phases
<1>3. ASSUME NEW w \in Writers, NEW s \in Sinks, Admit(w, s)
      PROVE  TypeOK'
  <2>1. AdmittedPhase(w, s) \in Phases
    BY NewPhases DEF Phases, InProgress
  <2>2. call' \in [Writers -> [Sinks -> Phases]]
    BY <1>3, <2>1, SetPhaseFacts DEF Admit
  <2>3. breaker' \in [Sinks -> Breaker]
    BY <1>3, AskedFacts DEF Admit
  <2> QED
    BY <1>3, <2>2, <2>3, ProbingType DEF Admit, Phases
<1>4. ASSUME NEW w \in Writers, NEW s \in Sinks, Refuse(w, s) \/ RunFallback(w, s)
      PROVE  TypeOK'
  <2>1. RefusedPhase(w, s) \in Phases
    BY NewPhases DEF Phases, InProgress, Outcomes
  <2>2. call' \in [Writers -> [Sinks -> Phases]]
    BY <1>4, <2>1, SetPhaseFacts DEF Refuse, RunFallback
  <2> QED
    BY <1>4, <2>2 DEF Refuse, RunFallback, Phases
<1>5. ASSUME NEW w \in Writers, NEW s \in Sinks, StartEnds(w, s)
      PROVE  TypeOK'
  <2>1. call' \in [Writers -> [Sinks -> Phases]]
    <3>1. (IF call[w][s] = "starting" THEN "writing" ELSE "fb_writing") \in Phases
      BY DEF Phases, InProgress
    <3> QED
      BY <1>5, <3>1, SetPhaseFacts DEF StartEnds
  <2>2. started' \subseteq Sinks
    <3>1. Target(s, call[w][s]) \in Sinks
      BY <1>5 DEF StartEnds, Target, FallbackUsed, HasFallback
    <3> QED
      BY <1>5, <3>1 DEF StartEnds
  <2> QED
    BY <1>5, <2>1, <2>2 DEF StartEnds, Phases
<1>6. ASSUME NEW w \in Writers, NEW s \in Sinks, WriteSucceeds(w, s)
      PROVE  TypeOK'
  <2>1. call' \in [Writers -> [Sinks -> Phases]]
    <3>1. (IF Swallowed(w, s) THEN "swallowed" ELSE "written") \in Phases
      BY DEF Phases, Outcomes
    <3> QED
      BY <1>6, <3>1, SetPhaseFacts DEF WriteSucceeds
  <2>2. breaker' \in [Sinks -> Breaker]
    BY <1>6, SucceededFacts DEF WriteSucceeds
  <2> QED
    BY <1>6, <2>1, <2>2 DEF WriteSucceeds, Phases
<1>7. ASSUME NEW w \in Writers, NEW s \in Sinks, WriteFails(w, s)
      PROVE  TypeOK'
  <2>1. call' \in [Writers -> [Sinks -> Phases]]
    BY <1>7, SetPhaseFacts DEF WriteFails, Phases, Outcomes
  <2>2. breaker' \in [Sinks -> Breaker]
    BY <1>7, FailedFacts DEF WriteFails, FailureOf
  <2>3. boost' \in 0 .. MaxBoost
    BY <1>7 DEF WriteFails
  <2>4. rest' \in [Sinks -> 0 .. RecoveryTime] /\ probing' \in [Sinks -> SUBSET Writers]
    BY <1>7 DEF WriteFails
  <2> QED
    BY <1>7, <2>1, <2>2, <2>3, <2>4 DEF WriteFails, Phases
<1>8. ASSUME NEW w \in Writers, NEW s \in Sinks, FallbackEnds(w, s)
      PROVE  TypeOK'
  <2>1. call' \in [Writers -> [Sinks -> Phases]]
    <3>1. PICK end \in {"swallowed", "rerouted", "lost"} : SetPhase(w, s, end)
      BY <1>8 DEF FallbackEnds
    <3>2. end \in Phases
      BY DEF Phases, Outcomes
    <3> QED
      BY <1>8, <3>1, <3>2, SetPhaseFacts
  <2> QED
    BY <1>8, <2>1 DEF FallbackEnds, Phases
<1>9. ASSUME NEW s \in Sinks, Break(s) \/ Heal(s)
      PROVE  TypeOK'
  BY <1>9 DEF Break, Heal
<1>10. CASE Elapse
  BY <1>10, AgedFacts DEF Elapse
<1>11. CASE UNCHANGED deliveryVars
  BY <1>11 DEF deliveryVars
<1> QED
  BY <1>1, <1>2, <1>3, <1>4, <1>5, <1>6, <1>7, <1>8, <1>9, <1>10, <1>11
  DEF DeliveryNext, DeliveryStep, Begin, Proceed, Answer, Outage

LEMMA NextFallbackUsed == TypeInv /\ [DeliveryNext]_deliveryVars => FallbackUsed'
<1> SUFFICES ASSUME TypeOK, FallbackUsed, [DeliveryNext]_deliveryVars PROVE FallbackUsed'
  BY DEF TypeInv
<1> USE DEF FallbackUsed
<1>1. ASSUME NEW w \in Writers, NEW serialized \in BOOLEAN, BeginSequential(w, serialized)
      PROVE  FallbackUsed'
  BY <1>1 DEF BeginSequential, TypeOK, HasFallback
<1>2. ASSUME NEW w \in Writers, BeginParallel(w)
      PROVE  FallbackUsed'
  BY <1>2 DEF BeginParallel, TypeOK, HasFallback
<1>3. ASSUME NEW w \in Writers, NEW s \in Sinks, NEW p \in Phases, SetPhase(w, s, p),
             p \in {"refused", "fb_starting", "fb_writing"} => HasFallback(s)
      PROVE  FallbackUsed'
  BY <1>3, SetPhaseFacts DEF HasFallback
<1>4. ASSUME NEW w \in Writers, NEW s \in Sinks, Proceed(w, s) \/ Answer(w, s)
      PROVE  FallbackUsed'
  <2>1. CASE Admit(w, s)
    BY <2>1, <1>3, NewPhases DEF Admit, Phases, InProgress
  <2>2. CASE Refuse(w, s) \/ RunFallback(w, s)
    BY <2>2, <1>3, NewPhases DEF Refuse, RunFallback, Phases, InProgress, Outcomes
  <2>3. CASE StartEnds(w, s)
    <3>1. CASE call[w][s] = "starting"
      BY <2>3, <3>1, <1>3 DEF StartEnds, Phases, InProgress
    <3>2. CASE call[w][s] = "fb_starting"
      BY <2>3, <3>2, <1>3 DEF StartEnds, Phases, InProgress
    <3> QED
      BY <2>3, <3>1, <3>2 DEF StartEnds
  <2>4. CASE WriteSucceeds(w, s)
    BY <2>4, <1>3 DEF WriteSucceeds, Phases, Outcomes
  <2>5. CASE WriteFails(w, s)
    BY <2>5, <1>3 DEF WriteFails, Phases, Outcomes
  <2>6. CASE FallbackEnds(w, s)
    BY <2>6, <1>3 DEF FallbackEnds, Phases, Outcomes
  <2> QED
    BY <1>4, <2>1, <2>2, <2>3, <2>4, <2>5, <2>6 DEF Proceed, Answer
<1>5. CASE Outage \/ Elapse \/ UNCHANGED deliveryVars
  BY <1>5 DEF Outage, Break, Heal, Elapse, deliveryVars, HasFallback
<1> QED
  BY <1>1, <1>2, <1>4, <1>5 DEF DeliveryNext, DeliveryStep, Begin

LEMMA TypeInvariant == DeliverySpec => []TypeInv
<1>1. DeliveryInit => TypeInv
  BY DEF DeliveryInit, TypeInv, TypeOK, FallbackUsed, NewBreaker, Breaker, CircuitState,
         Outcomes
<1>2. TypeInv /\ [DeliveryNext]_deliveryVars => TypeInv'
  BY NextTypeOK, NextFallbackUsed DEF TypeInv
<1> QED
  BY <1>1, <1>2, PTL DEF DeliverySpec

(* Whatever runs, the state of the group is of the declared shape: breaker *)
(* counters stay within their thresholds, the boost within its bound, and  *)
(* every call in a phase that the code of the two write paths reaches.     *)
THEOREM DeliveryTypeCorrect == DeliverySpec => []TypeOK
<1>1. TypeInv => TypeOK
  BY DEF TypeInv
<1> QED
  BY <1>1, TypeInvariant, PTL

-----------------------------------------------------------------------------
(***************************************************************************)
(* Isolation is not inductive: a sink could be down without having been so *)
(* reckoned, or on its way to an outcome that only a sink that has failed  *)
(* should reach.                                                           *)
(***************************************************************************)
Untouched == {"waiting", "granted", "starting", "writing", "written", "swallowed"}

Contained ==
  /\ down \subseteq broken
  /\ \A s \in Sinks \ broken :
       /\ breaker[s].state = "closed"
       /\ \A w \in Writers : call[w][s] \in Untouched

LEMMA NextContained == TypeInv /\ Contained /\ [DeliveryNext]_deliveryVars => Contained'
<1> SUFFICES ASSUME TypeOK, Contained, [DeliveryNext]_deliveryVars PROVE Contained'
  BY DEF TypeInv
<1> USE DEF Contained
<1>1. ASSUME NEW w \in Writers, NEW serialized \in BOOLEAN, BeginSequential(w, serialized)
      PROVE  Contained'
  BY <1>1 DEF BeginSequential, TypeOK, Untouched
<1>2. ASSUME NEW w \in Writers, BeginParallel(w)
      PROVE  Contained'
  BY <1>2, AskedFacts DEF BeginParallel, TypeOK, Untouched, Allows
<1>3. ASSUME NEW w \in Writers, NEW s \in Sinks, Admit(w, s)
      PROVE  Contained'
  <2>1. AdmittedPhase(w, s) \in Phases /\ AdmittedPhase(w, s) \in Untouched
    BY NewPhases DEF Phases, InProgress, Untouched
  <2>2. \A v \in Writers, t \in Sinks \ broken : call'[v][t] \in Untouched
    BY <1>3, <2>1, SetPhaseFacts DEF Admit
  <2> QED
    BY <1>3, <2>2, AskedFacts DEF Admit, TypeOK
<1>4. ASSUME NEW w \in Writers, NEW s \in Sinks, Refuse(w, s) \/ RunFallback(w, s)
      PROVE  Contained'
  <2>1. s \in broken
    BY <1>4 DEF Refuse, RunFallback, Allows, Untouched
  <2>2. RefusedPhase(w, s) \in Phases
    BY NewPhases DEF Phases, InProgress, Outcomes
  <2> QED
    BY <1>4, <2>1, <2>2, SetPhaseFacts DEF Refuse, RunFallback
<1>5. ASSUME NEW w \in Writers, NEW s \in Sinks, StartEnds(w, s)
      PROVE  Contained'
  <2> DEFINE next == IF call[w][s] = "starting" THEN "writing" ELSE "fb_writing"
  <2>1. next \in Phases /\ (s \notin broken => next \in Untouched)
    BY <1>5 DEF StartEnds, Phases, InProgress, Untouched
  <2> HIDE DEF next
  <2>2. SetPhase(w, s, next)
    BY <1>5 DEF StartEnds, next
  <2> QED
    BY <1>5, <2>1, <2>2, SetPhaseFacts DEF StartEnds
<1>6. ASSUME NEW w \in Writers, NEW s \in Sinks, WriteSucceeds(w, s)
      PROVE  Contained'
  <2> DEFINE end == IF Swallowed(w, s) THEN "swallowed" ELSE "written"
  <2>1. end \in Phases /\ end \in Untouched
    BY DEF Phases, Outcomes, Untouched
  <2> HIDE DEF end
  <2>2. SetPhase(w, s, end)
    BY <1>6 DEF WriteSucceeds, end
  <2>3. \A v \in Writers, t \in Sinks \ broken : call'[v][t] \in Untouched
    BY <2>1, <2>2, SetPhaseFacts
  <2>4. \A t \in Sinks \ broken : breaker'[t].state = "closed"
    BY <1>6, SucceededFacts DEF WriteSucceeds, TypeOK
  <2> QED
    BY <1>6, <2>3, <2>4 DEF WriteSucceeds
<1>7. ASSUME NEW w \in Writers, NEW s \in Sinks, WriteFails(w, s)
      PROVE  Contained'
  <2>1. s \in broken
    BY <1>7 DEF WriteFails
  <2>2. \A v \in Writers, t \in Sinks \ broken : call'[v][t] \in Untouched
    BY <1>7, <2>1, SetPhaseFacts DEF WriteFails, Phases, Outcomes
  <2>3. \A t \in Sinks \ broken : breaker'[t].state = "closed"
    BY <1>7, <2>1 DEF WriteFails, FailureOf, TypeOK
  <2> QED
    BY <1>7, <2>2, <2>3 DEF WriteFails
<1>8. ASSUME NEW w \in Writers, NEW s \in Sinks, FallbackEnds(w, s)
      PROVE  Contained'
  <2>1. PICK end \in {"swallowed", "rerouted", "lost"} : SetPhase(w, s, end)
    BY <1>8 DEF FallbackEnds
  <2>2. s \in broken /\ end \in Phases
    BY <1>8 DEF FallbackEnds, Untouched, Phases, Outcomes
  <2> QED
    BY <1>8, <2>1, <2>2, SetPhaseFacts DEF FallbackEnds
<1>9. ASSUME NEW s \in Sinks, Break(s) \/ Heal(s)
      PROVE  Contained'
  BY <1>9 DEF Break, Heal
<1>10. CASE Elapse
  BY <1>10, AgedFacts DEF Elapse, TypeOK
<1>11. CASE UNCHANGED deliveryVars
  BY <1>11 DEF deliveryVars
<1> QED
  BY <1>1, <1>2, <1>3, <1>4, <1>5, <1>6, <1>7, <1>8, <1>9, <1>10, <1>11
  DEF DeliveryNext, DeliveryStep, Begin, Proceed, Answer, Outage

(* For any number of sinks, writers and outages: a sink that has never been *)
(* down keeps its circuit closed and misses no event, whatever becomes of   *)
(* the other sinks, their breakers and the fallback (_write_one,            *)
(* _write_parallel, _write_fallback).                                       *)
THEOREM FailuresAreContained == DeliverySpec => []Isolation
<1>1. DeliveryInit => Contained
  BY DEF DeliveryInit, Contained, NewBreaker, Untouched
<1>2. TypeInv /\ Contained /\ [DeliveryNext]_deliveryVars => Contained'
  BY NextContained
<1>3. Contained => Isolation
  BY DEF Contained, Isolation, Untouched, Outcomes
<1> QED
  BY <1>1, <1>2, <1>3, TypeInvariant, PTL DEF DeliverySpec

-----------------------------------------------------------------------------
(* The half-open spell of one sink.                                        *)
LEMMA ProbingFinite ==
  ASSUME TypeOK, NEW w \in Writers, NEW s \in Sinks
  PROVE  /\ IsFiniteSet(probing[s])
         /\ Cardinality({w}) = 1
         /\ w \notin probing[s] =>
              Cardinality(probing[s] \cup {w}) = Cardinality(probing[s]) + 1
<1>1. IsFiniteSet(probing[s])
  BY FS_Subset DEF TypeOK
<1> QED
  BY <1>1, FS_Singleton, FS_AddElement

LEMMA NextProbes ==
  TypeInv /\ ProbesUnderway /\ [DeliveryNext]_deliveryVars => ProbesUnderway'
<1> SUFFICES ASSUME TypeOK, ProbesUnderway, [DeliveryNext]_deliveryVars, ~parallel,
                    NEW r \in Sinks, breaker'[r].state = "half_open"
             PROVE  /\ probing'[r] # {}
                    /\ Cardinality(probing'[r]) = breaker'[r].probes
                    /\ breaker'[r].probes <= ProbeMax
                    /\ \A v \in probing'[r] : call'[v][r] \in {"starting", "writing"}
  <2>1. [DeliveryNext]_deliveryVars => parallel' = parallel
    BY DEF DeliveryNext, DeliveryStep, Begin, Proceed, Answer, Outage, BeginSequential,
           BeginParallel, Admit, Refuse, RunFallback, StartEnds, WriteSucceeds, WriteFails,
           FallbackEnds, Break, Heal, Elapse, deliveryVars
  <2> QED
    BY <2>1 DEF TypeInv, ProbesUnderway, InFlight
<1>1. breaker[r].state = "half_open" =>
        /\ probing[r] # {}
        /\ Cardinality(probing[r]) = breaker[r].probes
        /\ breaker[r].probes <= ProbeMax
        /\ \A v \in probing[r] : v \in Writers /\ call[v][r] \in {"starting", "writing"}
  BY DEF ProbesUnderway, InFlight, TypeOK
<1>2. ASSUME breaker'[r].state = breaker[r].state, breaker'[r].probes = breaker[r].probes,
             probing'[r] = probing[r],
             \A v \in probing[r] : v \in Writers /\ call[v][r] \in {"starting", "writing"}
                                     => call'[v][r] \in {"starting", "writing"}
      PROVE  /\ probing'[r] # {}
             /\ Cardinality(probing'[r]) = breaker'[r].probes
             /\ breaker'[r].probes <= ProbeMax
             /\ \A v \in probing'[r] : call'[v][r] \in {"starting", "writing"}
  BY <1>1, <1>2
<1>3. ASSUME NEW w \in Writers, NEW serialized \in BOOLEAN, BeginSequential(w, serialized)
      PROVE  \A v \in probing[r] : v \in Writers /\ call[v][r] \in {"starting", "writing"}
                                     => call'[v][r] \in {"starting", "writing"}
  BY <1>3 DEF BeginSequential, Returned, Outcomes, TypeOK
<1>4. ASSUME NEW w \in Writers, NEW s \in Sinks, Admit(w, s), r = s
      PROVE  /\ probing'[r] # {}
             /\ Cardinality(probing'[r]) = breaker'[r].probes
             /\ breaker'[r].probes <= ProbeMax
             /\ \A v \in probing'[r] : call'[v][r] \in {"starting", "writing"}
  <2>1. AdmittedPhase(w, r) \in Phases /\ AdmittedPhase(w, r) \in {"starting", "writing"}
    BY NewPhases DEF Phases, InProgress
  <2>2. /\ breaker[r] \in Breaker /\ breaker'[r] = Asked(breaker[r]) /\ Allows(breaker[r])
        /\ probing'[r] = ProbingAfter(w, r)
    BY <1>4 DEF Admit, TypeOK
  <2>3. \A v \in Writers : call'[v][r] = IF v = w THEN AdmittedPhase(w, r) ELSE call[v][r]
    BY <1>4, <2>1, SetPhaseFacts DEF Admit
  <2>4. call[w][r] \notin {"starting", "writing"}
    BY <1>4 DEF Admit, Ready
  <2>5. CASE breaker[r].state = "open"
    <3>1. probing'[r] = {w}
      BY <2>2, <2>5 DEF ProbingAfter
    <3>2. breaker'[r].probes = 1 /\ breaker'[r].probes <= ProbeMax
      BY <2>2, <2>5, AskedFacts
    <3> QED
      BY <2>1, <2>3, <3>1, <3>2, ProbingFinite
  <2>6. CASE breaker[r].state = "half_open"
    <3>1. probing'[r] = probing[r] \cup {w} /\ w \notin probing[r]
      BY <1>1, <2>2, <2>4, <2>6 DEF ProbingAfter
    <3>2. breaker'[r].probes = breaker[r].probes + 1 /\ breaker'[r].probes <= ProbeMax
      BY <2>2, <2>6, AskedFacts
    <3>3. Cardinality(probing'[r]) = breaker'[r].probes
      BY <1>1, <2>6, <3>1, <3>2, ProbingFinite
    <3> QED
      BY <1>1, <2>1, <2>3, <2>6, <3>1, <3>2, <3>3
  <2> QED
    BY <2>2, <2>5, <2>6, AskedFacts DEF Breaker, CircuitState
<1>5. ASSUME NEW w \in Writers, NEW s \in Sinks, NEW p \in Phases, SetPhase(w, s, p),
             \/ r # s
             \/ call[w][r] \notin {"starting", "writing"}
             \/ p \in {"starting", "writing"}
      PROVE  \A v \in probing[r] : v \in Writers /\ call[v][r] \in {"starting", "writing"}
                                     => call'[v][r] \in {"starting", "writing"}
  BY <1>5, SetPhaseFacts
<1>6. ASSUME NEW w \in Writers, NEW s \in Sinks, Admit(w, s), r # s
      PROVE  \A v \in probing[r] : v \in Writers /\ call[v][r] \in {"starting", "writing"}
                                     => call'[v][r] \in {"starting", "writing"}
  BY <1>5, <1>6, NewPhases DEF Admit, Phases, InProgress
<1>7. ASSUME NEW w \in Writers, NEW s \in Sinks, Refuse(w, s) \/ RunFallback(w, s)
      PROVE  \A v \in probing[r] : v \in Writers /\ call[v][r] \in {"starting", "writing"}
                                     => call'[v][r] \in {"starting", "writing"}
  <2>1. RefusedPhase(w, s) \in Phases /\ call[w][s] \notin {"starting", "writing"}
    BY <1>7, NewPhases DEF Refuse, RunFallback, Ready, Phases, InProgress, Outcomes
  <2> QED
    BY <1>5, <1>7, <2>1 DEF Refuse, RunFallback
<1>8. ASSUME NEW w \in Writers, NEW s \in Sinks, StartEnds(w, s)
      PROVE  \A v \in probing[r] : v \in Writers /\ call[v][r] \in {"starting", "writing"}
                                     => call'[v][r] \in {"starting", "writing"}
  <2>1. CASE call[w][s] = "starting"
    BY <1>5, <1>8, <2>1 DEF StartEnds, Phases, InProgress
  <2>2. CASE call[w][s] = "fb_starting"
    BY <1>5, <1>8, <2>2 DEF StartEnds, Phases, InProgress
  <2> QED
    BY <1>8, <2>1, <2>2 DEF StartEnds
<1>9. ASSUME NEW w \in Writers, NEW s \in Sinks, WriteSucceeds(w, s)
      PROVE  /\ r # s
             /\ \A v \in probing[r] : v \in Writers /\ call[v][r] \in {"starting", "writing"}
                                     => call'[v][r] \in {"starting", "writing"}
  <2>1. r # s
    BY <1>9, SucceededFacts DEF WriteSucceeds, TypeOK
  <2> QED
    BY <1>5, <1>9, <2>1 DEF WriteSucceeds, Phases, Outcomes
<1>10. ASSUME NEW w \in Writers, NEW s \in Sinks, WriteFails(w, s)
      PROVE  /\ r # s
             /\ \A v \in probing[r] : v \in Writers /\ call[v][r] \in {"starting", "writing"}
                                     => call'[v][r] \in {"starting", "writing"}
  <2>1. r # s
    BY <1>10, FailedFacts DEF WriteFails, FailureOf, TypeOK
  <2> QED
    BY <1>5, <1>10, <2>1 DEF WriteFails, Phases, Outcomes
<1>11. ASSUME NEW w \in Writers, NEW s \in Sinks, FallbackEnds(w, s)
      PROVE  \A v \in probing[r] : v \in Writers /\ call[v][r] \in {"starting", "writing"}
                                     => call'[v][r] \in {"starting", "writing"}
  BY <1>5, <1>11 DEF FallbackEnds, Phases, Outcomes
<1>12. CASE Elapse
  BY <1>2, <1>12, AgedFacts DEF Elapse, TypeOK
<1>13. CASE Outage \/ UNCHANGED deliveryVars
  BY <1>2, <1>13 DEF Outage, Break, Heal, deliveryVars
<1>14. CASE \E w \in Writers : Begin(w)
  BY <1>2, <1>3, <1>14 DEF Begin, BeginParallel, BeginSequential
<1>15. CASE \E w \in Writers, s \in Sinks : Proceed(w, s)
  BY <1>2, <1>4, <1>6, <1>7, <1>15 DEF Proceed, Admit, Refuse, RunFallback, TypeOK
<1>16. CASE \E w \in Writers, s \in Sinks : Answer(w, s)
  BY <1>2, <1>8, <1>9, <1>10, <1>11, <1>16
  DEF Answer, StartEnds, WriteSucceeds, WriteFails, FailureOf, FallbackEnds, TypeOK
<1> QED
  BY <1>12, <1>13, <1>14, <1>15, <1>16 DEF DeliveryNext, DeliveryStep

(* Sinks one at a time: however the writers' tasks interleave, the calls a  *)
(* half-open circuit has counted are the writes it let through and that are *)
(* still under way, at most half_open_max_calls and never none              *)
(* (circuit_breaker.should_allow, _write_one).                              *)
THEOREM ProbesStayUnderway == DeliverySpec => []ProbesUnderway
<1>1. DeliveryInit => ProbesUnderway
  BY DEF DeliveryInit, ProbesUnderway, NewBreaker
<1>2. TypeInv /\ ProbesUnderway /\ [DeliveryNext]_deliveryVars => ProbesUnderway'
  BY NextProbes
<1> QED
  BY <1>1, <1>2, TypeInvariant, PTL DEF DeliverySpec

-----------------------------------------------------------------------------
(***************************************************************************)
(* BackoffAfterFailure is about the time since the last failure; the       *)
(* breaker knows only its own clock.  While the circuit is open they agree *)
(* because every failure restarts both.                                    *)
(***************************************************************************)
ClockAgrees == \A s \in Sinks : breaker[s].state = "open" => breaker[s].wait = rest[s]

BackoffOf(s) ==
  breaker[s].state = "open" /\ breaker'[s].state # "open" => rest[s] >= RecoveryTime

\* What a step that asks the breaker of s does to the two clocks ...
LEMMA AskedKeepsTime ==
  ASSUME TypeInv, ClockAgrees, NEW s \in Sinks,
         breaker'[s] = Asked(breaker[s]), rest' = rest
  PROVE  BackoffOf(s) /\ (breaker'[s].state = "open" => breaker'[s].wait = rest'[s])
<1>1. breaker[s] \in Breaker
  BY DEF TypeInv, TypeOK
<1> QED
  BY <1>1, AskedFacts DEF ClockAgrees, BackoffOf

\* ... and every step to those of every sink.
LEMMA NextClock ==
  TypeInv /\ ClockAgrees /\ [DeliveryNext]_deliveryVars =>
    \A s \in Sinks : BackoffOf(s) /\ (breaker'[s].state = "open" => breaker'[s].wait = rest'[s])
<1> SUFFICES ASSUME TypeInv, ClockAgrees, [DeliveryNext]_deliveryVars, NEW r \in Sinks
             PROVE  /\ BackoffOf(r)
                    /\ breaker'[r].state = "open" => breaker'[r].wait = rest'[r]
  OBVIOUS
<1>1. breaker[r] \in Breaker /\ breaker \in [Sinks -> Breaker] /\ rest[r] \in 0 .. RecoveryTime
  BY DEF TypeInv, TypeOK
<1>2. ASSUME breaker'[r] = breaker[r], rest'[r] = rest[r]
      PROVE  /\ BackoffOf(r)
             /\ breaker'[r].state = "open" => breaker'[r].wait = rest'[r]
  BY <1>2 DEF ClockAgrees, BackoffOf
<1>3. ASSUME NEW w \in Writers, Begin(w)
      PROVE  /\ BackoffOf(r)
             /\ breaker'[r].state = "open" => breaker'[r].wait = rest'[r]
  BY <1>2, <1>3, AskedKeepsTime DEF Begin, BeginParallel, BeginSequential
<1>4. ASSUME NEW w \in Writers, NEW s \in Sinks, Proceed(w, s)
      PROVE  /\ BackoffOf(r)
             /\ breaker'[r].state = "open" => breaker'[r].wait = rest'[r]
  <2>1. CASE Admit(w, s) /\ r = s
    BY <1>1, <2>1, AskedKeepsTime DEF Admit
  <2>2. CASE ~(Admit(w, s) /\ r = s)
    BY <1>1, <1>2, <1>4, <2>2 DEF Proceed, Admit, Refuse, RunFallback
  <2> QED
    BY <2>1, <2>2
<1>5. ASSUME NEW w \in Writers, NEW s \in Sinks, Answer(w, s)
      PROVE  /\ BackoffOf(r)
             /\ breaker'[r].state = "open" => breaker'[r].wait = rest'[r]
  <2>1. CASE WriteSucceeds(w, s) /\ r = s
    <3>1. breaker'[r] = Succeeded(breaker[r]) /\ rest' = rest
      BY <1>1, <2>1 DEF WriteSucceeds
    <3>2. /\ Succeeded(breaker[r]).state = "open" <=> breaker[r].state = "open"
          /\ Succeeded(breaker[r]).wait = breaker[r].wait
      BY <1>1, SucceededFacts DEF Breaker, CircuitState
    <3> QED
      BY <3>1, <3>2 DEF ClockAgrees, BackoffOf
  <2>2. CASE WriteFails(w, s) /\ r = s
    <3>1. breaker'[r] = Failed(breaker[r]) /\ rest'[r] = 0
      BY <1>1, <2>2 DEF WriteFails, FailureOf, TypeInv, TypeOK
    <3>2. breaker[r].state = "open" => Failed(breaker[r]).state = "open"
      BY <1>1, FailedFacts DEF Breaker, CircuitState
    <3> QED
      BY <1>1, <3>1, <3>2, FailedFacts DEF BackoffOf
  <2>3. CASE ~(WriteSucceeds(w, s) /\ r = s) /\ ~(WriteFails(w, s) /\ r = s)
    BY <1>1, <1>2, <1>5, <2>3
    DEF Answer, StartEnds, WriteSucceeds, WriteFails, FailureOf, FallbackEnds, TypeInv, TypeOK
  <2> QED
    BY <2>1, <2>2, <2>3
<1>6. CASE Elapse
  <2>1. /\ breaker'[r] = Aged(breaker[r])
        /\ breaker[r].state = "open" =>
             rest'[r] = IF rest[r] < RecoveryTime THEN rest[r] + 1 ELSE rest[r]
    BY <1>6 DEF Elapse
  <2> QED
    BY <1>1, <2>1, AgedFacts DEF ClockAgrees, BackoffOf
<1>7. CASE Outage \/ UNCHANGED deliveryVars
  BY <1>2, <1>7 DEF Outage, Break, Heal, deliveryVars
<1> QED
  BY <1>3, <1>4, <1>5, <1>6, <1>7 DEF DeliveryNext, DeliveryStep

LEMMA ClockInvariant == DeliverySpec => []ClockAgrees
<1>1. DeliveryInit => ClockAgrees
  BY DEF DeliveryInit, ClockAgrees, NewBreaker
<1>2. TypeInv /\ ClockAgrees /\ [DeliveryNext]_deliveryVars => ClockAgrees'
  BY NextClock DEF ClockAgrees
<1> QED
  BY <1>1, <1>2, TypeInvariant, PTL DEF DeliverySpec

(* However late the writes under way when the circuit opened answer, no     *)
(* probe goes to a sink before recovery_timeout_seconds have passed since   *)
(* the last failure it returned (circuit_breaker.should_allow,              *)
(* record_failure).                                                         *)
THEOREM BackoffIsHonoured == DeliverySpec => BackoffAfterFailure
<1>1. TypeInv /\ ClockAgrees /\ [DeliveryNext]_deliveryVars =>
        [\A s \in Sinks :
           breaker[s].state = "open" /\ breaker[s]'.state # "open" => rest[s] >= RecoveryTime
        ]_deliveryVars
  BY NextClock DEF BackoffOf
<1> QED
  BY <1>1, TypeInvariant, ClockInvariant, PTL DEF DeliverySpec, BackoffAfterFailure

-----------------------------------------------------------------------------
(* How many circuits are not closed, and what one sink changes about it.   *)
LEMMA CircuitsCounted ==
  ASSUME NEW C \in SUBSET Sinks, NEW s \in Sinks
  PROVE  /\ Cardinality(C) \in Nat /\ Cardinality(C) <= NumSinks
         /\ s \in C => Cardinality(C \ {s}) = Cardinality(C) - 1
         /\ Cardinality(C \cup {s}) <= Cardinality(C) + 1
<1>1. IsFiniteSet(Sinks) /\ Cardinality(Sinks) = NumSinks
  <2>1. 1 \in Int /\ NumSinks \in Int /\ NumSinks >= 1
    OBVIOUS
  <2> QED
    BY <2>1, FS_Interval DEF Sinks
<1>2. IsFiniteSet(C) /\ Cardinality(C) <= NumSinks
  BY <1>1, FS_Subset
<1>3. Cardinality(C) \in Nat
  BY <1>2, FS_CardinalityType
<1>4. s \in C => Cardinality(C \ {s}) = Cardinality(C) - 1
  BY <1>2, FS_RemoveElement
<1>5. CASE s \in C
  <2>1. Cardinality(C \cup {s}) = Cardinality(C)
    <3>1. C \cup {s} = C
      BY <1>5
    <3> QED
      BY <3>1
  <2> QED
    BY <1>2, <1>3, <1>4, <2>1
<1>6. CASE s \notin C
  <2>1. Cardinality(C \cup {s}) = Cardinality(C) + 1
    BY <1>2, <1>6, FS_AddElement
  <2> QED
    BY <1>2, <1>3, <1>4, <2>1
<1> QED
  BY <1>5, <1>6

LEMMA NextBoostCovers ==
  TypeInv /\ BoostCoversOpen /\ [DeliveryNext]_deliveryVars => BoostCoversOpen'
<1> SUFFICES ASSUME TypeInv, BoostCoversOpen, [DeliveryNext]_deliveryVars
             PROVE  BoostCoversOpen'
  OBVIOUS
<1>1. breaker \in [Sinks -> Breaker] /\ boost \in 0 .. MaxBoost
  BY DEF TypeInv, TypeOK
<1>2. ASSUME boost' = boost,
             \A s \in Sinks : breaker'[s].state = "closed" <=> breaker[s].state = "closed"
      PROVE  BoostCoversOpen'
  BY <1>2 DEF BoostCoversOpen, NotClosed
<1>3. ASSUME NEW w \in Writers, Begin(w)
      PROVE  BoostCoversOpen'
  BY <1>1, <1>2, <1>3, AskedFacts DEF Begin, BeginParallel, BeginSequential
<1>4. ASSUME NEW w \in Writers, NEW s \in Sinks, Proceed(w, s)
      PROVE  BoostCoversOpen'
  BY <1>1, <1>2, <1>4, AskedFacts DEF Proceed, Admit, Refuse, RunFallback
<1>5. ASSUME NEW w \in Writers, NEW s \in Sinks, WriteSucceeds(w, s)
      PROVE  BoostCoversOpen'
  <2>1. \A t \in Sinks :
          breaker'[t].state = "closed" <=>
            breaker[t].state = "closed" \/ (t = s /\ breaker[s].state = "half_open")
    <3>1. breaker[s] \in Breaker /\ breaker'[s] = Succeeded(breaker[s])
      BY <1>1, <1>5 DEF WriteSucceeds
    <3>2. \A t \in Sinks : t # s => breaker'[t] = breaker[t]
      BY <1>1, <1>5 DEF WriteSucceeds
    <3>3. breaker'[s].state = "closed" <=>
            breaker[s].state = "closed" \/ breaker[s].state = "half_open"
      BY <3>1, SucceededFacts DEF Breaker, CircuitState
    <3> TAKE t \in Sinks
    <3> QED
      BY <3>2, <3>3
  <2>2. CASE EmitsClosed(breaker[s])
    <3>1. s \in NotClosed /\ NotClosed' = NotClosed \ {s}
      BY <2>1, <2>2 DEF EmitsClosed, NotClosed
    <3>2. Cardinality(NotClosed') = Cardinality(NotClosed) - 1
      BY <3>1, CircuitsCounted DEF NotClosed
    <3>3. boost' = IF boost > 0 THEN boost - 1 ELSE boost
      BY <1>5, <2>2 DEF WriteSucceeds
    <3>4. Cardinality(NotClosed) \in Nat
      BY CircuitsCounted DEF NotClosed
    <3>5. boost >= Cardinality(NotClosed) /\ boost \in Nat
      BY <1>1 DEF BoostCoversOpen
    <3> QED
      BY <3>2, <3>3, <3>4, <3>5 DEF BoostCoversOpen
  <2>3. CASE ~EmitsClosed(breaker[s])
    <3>1. boost' = boost /\ breaker[s].state # "half_open"
      BY <1>5, <2>3 DEF WriteSucceeds, EmitsClosed
    <3> QED
      BY <1>2, <2>1, <3>1
  <2> QED
    BY <2>2, <2>3
<1>6. ASSUME NEW w \in Writers, NEW s \in Sinks, WriteFails(w, s)
      PROVE  BoostCoversOpen'
  <2>1. \A t \in Sinks :
          breaker'[t].state = "closed" <=>
            breaker[t].state = "closed" /\ ~(t = s /\ EmitsOpen(breaker[s]))
    BY <1>1, <1>6, FailedFacts DEF WriteFails, FailureOf
  <2>2. CASE EmitsOpen(breaker[s])
    <3>1. NotClosed' = NotClosed \cup {s}
      BY <2>1, <2>2 DEF NotClosed
    <3>2. Cardinality(NotClosed') <= Cardinality(NotClosed) + 1
      BY <3>1, CircuitsCounted DEF NotClosed
    <3>3. Cardinality(NotClosed') \in Nat /\ Cardinality(NotClosed') <= NumSinks
      BY CircuitsCounted DEF NotClosed
    <3>4. boost' = IF boost < MaxBoost THEN boost + 1 ELSE boost
      BY <1>6, <2>2 DEF WriteFails
    <3>5. Cardinality(NotClosed) \in Nat
      BY CircuitsCounted DEF NotClosed
    <3>6. boost >= Cardinality(NotClosed) /\ boost \in Nat /\ boost <= MaxBoost
      BY <1>1 DEF BoostCoversOpen
    <3> QED
      BY <3>2, <3>3, <3>4, <3>5, <3>6 DEF BoostCoversOpen
  <2>3. CASE ~EmitsOpen(breaker[s])
    BY <1>2, <1>6, <2>1, <2>3 DEF WriteFails
  <2> QED
    BY <2>2, <2>3
<1>7. ASSUME NEW w \in Writers, NEW s \in Sinks, StartEnds(w, s) \/ FallbackEnds(w, s)
      PROVE  BoostCoversOpen'
  BY <1>2, <1>7 DEF StartEnds, FallbackEnds
<1>8. CASE Elapse
  BY <1>1, <1>2, <1>8, AgedFacts DEF Elapse
<1>9. CASE Outage \/ UNCHANGED deliveryVars
  BY <1>2, <1>9 DEF Outage, Break, Heal, deliveryVars
<1> QED
  BY <1>3, <1>4, <1>5, <1>6, <1>7, <1>8, <1>9 DEF DeliveryNext, DeliveryStep, Answer

(* While the circuits of k sinks are open or half-open, the pressure        *)
(* monitor's boost is at least k times circuit_pressure_boost: the          *)
(* callbacks of the breakers never take off more than they have put on      *)
(* (record_success, record_failure, pressure.on_circuit_state_change).      *)
THEOREM BoostIsNeverShort == DeliverySpec => []BoostCoversOpen
<1>1. DeliveryInit => BoostCoversOpen
  <2>1. DeliveryInit => NotClosed = {} /\ boost = 0
    BY DEF DeliveryInit, NotClosed, NewBreaker
  <2> QED
    BY <2>1, FS_EmptySet DEF BoostCoversOpen
<1>2. TypeInv /\ BoostCoversOpen /\ [DeliveryNext]_deliveryVars => BoostCoversOpen'
  BY NextBoostCovers
<1> QED
  BY <1>1, <1>2, TypeInvariant, PTL DEF DeliverySpec

-----------------------------------------------------------------------------
(* The pressure monitor.                                                   *)

USE ThresholdAssumption, WorkerAssumption, MonitorAssumption
\* A level is left only for its neighbours.
LEMMA NextLevelFacts ==
  ASSUME NEW l \in Level, NEW f
  PROVE  NextLevel(l, f) \in Level /\ NextLevel(l, f) \in {l - 1, l, l + 1}
BY DEF Level, NextLevel, Escalates, Deescalates

(* Under a fill ratio that stays what it is, a level that has just been     *)
(* entered is not left the way it was entered: the thresholds               *)
(* validate_threshold_ordering accepts never make evaluate() oscillate.     *)
THEOREM Hysteresis ==
  ASSUME NEW l \in Level, NEW f \in Percent, NextLevel(l, f) # l
  PROVE  NextLevel(NextLevel(l, f), f) # l
<1>1. CASE Escalates(l, f)
  <2>1. l + 1 \in 1 .. 3 /\ l \in 0 .. 2 /\ l = (l + 1) - 1
    BY <1>1 DEF Escalates, Level
  <2>2. DeescalateTo[l] < EscalateTo[l + 1] /\ f >= EscalateTo[l + 1]
    BY <1>1, <2>1 DEF Escalates
  <2>3. DeescalateTo[l] \in Percent /\ EscalateTo[l + 1] \in Percent
    BY <2>1
  <2>4. ~Deescalates(l + 1, f)
    BY <2>1, <2>2, <2>3 DEF Deescalates, Percent
  <2> QED
    BY <1>1, <2>1, <2>4 DEF NextLevel, Level
<1>2. CASE ~Escalates(l, f)
  <2>1. Deescalates(l, f)
    BY <1>2 DEF NextLevel
  <2>2. l - 1 \in 0 .. 2 /\ l \in 1 .. 3 /\ (l - 1) + 1 = l
    BY <2>1 DEF Deescalates, Level
  <2>3. DeescalateTo[l - 1] < EscalateTo[(l - 1) + 1] /\ f < DeescalateTo[l - 1]
    BY <2>1, <2>2 DEF Deescalates
  <2>4. DeescalateTo[l - 1] \in Percent /\ EscalateTo[l] \in Percent
    BY <2>2
  <2>5. ~Escalates(l - 1, f)
    BY <2>2, <2>3, <2>4 DEF Escalates, Percent
  <2> QED
    BY <1>2, <2>1, <2>2, <2>5 DEF NextLevel, Level
<1> QED
  BY <1>1, <1>2

(* The pool the levels ask for never shrinks below worker_count, exceeds    *)
(* max_workers only if worker_count itself does, and grows with the level   *)
(* (target_for_level, also where the product is odd and is rounded up).     *)
THEOREM WorkerTargets ==
  ASSUME NEW k \in Level, NEW l \in Level, k <= l
  PROVE  /\ TargetForLevel(l) \in Nat /\ TargetForLevel(l) >= InitialWorkers
         /\ TargetForLevel(l) <= MaxWorkers \/ TargetForLevel(l) = InitialWorkers
         /\ TargetForLevel(0) = InitialWorkers
         /\ TargetForLevel(k) <= TargetForLevel(l)
<1> DEFINE Raw(n) == (InitialWorkers * WorkerScale[n] + 1) \div 2
<1>1. /\ WorkerScale[0] = 2 /\ WorkerScale[1] = 2
      /\ WorkerScale[2] = 3 /\ WorkerScale[3] = 4
  BY DEF WorkerScale, Level
<1>2. /\ Raw(0) = InitialWorkers /\ Raw(1) = InitialWorkers
      /\ Raw(2) \in Nat /\ InitialWorkers <= Raw(2) /\ Raw(2) <= Raw(3)
      /\ Raw(3) = 2 * InitialWorkers
  BY <1>1
<1> HIDE DEF Raw
<1>3. Raw(l) \in Nat /\ Raw(k) \in Nat /\ Raw(k) <= Raw(l)
  BY <1>2 DEF Level
<1>4. \A n \in Level : TargetForLevel(n) =
        LET capped == IF Raw(n) < MaxWorkers THEN Raw(n) ELSE MaxWorkers
        IN  IF capped > InitialWorkers THEN capped ELSE InitialWorkers
  BY DEF TargetForLevel, Raw
<1> QED
  BY <1>2, <1>3, <1>4 DEF Level

-----------------------------------------------------------------------------
(***************************************************************************)
(* OneStepPerCooldown speaks of the history variable; the code decides by  *)
(* its own clock, so the two have to agree.                                *)
(***************************************************************************)
MonitorInv == MonitorTypeOK /\ cool = sinceChange

LEMMA MonitorInvariant == Spec => []MonitorInv
<1>1. Init => MonitorInv
  BY DEF Init, MonitorInv, MonitorTypeOK, Level
<1>2. MonitorInv /\ [Next]_adaptiveVars => MonitorInv'
  <2> SUFFICES ASSUME MonitorInv, [Next]_adaptiveVars PROVE MonitorInv'
    OBVIOUS
  <2> USE DEF MonitorInv, MonitorTypeOK
  <2>1. CASE MonitorTick
    BY <2>1, NextLevelFacts DEF MonitorTick
  <2>2. CASE ClockTick
    BY <2>2 DEF ClockTick
  <2>3. CASE QueueChanges
    BY <2>3 DEF QueueChanges
  <2>4. CASE UNCHANGED monitorVars
    BY <2>4 DEF monitorVars
  <2> QED
    BY <2>1, <2>2, <2>3, <2>4 DEF Next, adaptiveVars
<1> QED
  BY <1>1, <1>2, PTL DEF Spec

(* However the load, the outages and the probes change the fill ratio, the  *)
(* level moves to a neighbour at most once in cooldown_seconds              *)
(* (EscalationStateMachine.evaluate, PressureMonitor._tick).                *)
THEOREM LevelsMoveSlowly == Spec => OneStepPerCooldown
<1>1. MonitorInv /\ [Next]_adaptiveVars =>
        [level' # level =>
           level' \in {level - 1, level + 1} /\ sinceChange >= Cooldown]_adaptiveVars
  <2> SUFFICES ASSUME MonitorInv, [Next]_adaptiveVars, level' # level
               PROVE  level' \in {level - 1, level + 1} /\ sinceChange >= Cooldown
    OBVIOUS
  <2>1. MonitorTick
    BY DEF Next, adaptiveVars, monitorVars, ClockTick, QueueChanges
  <2> QED
    BY <2>1, NextLevelFacts DEF MonitorTick, MonitorInv, MonitorTypeOK
<1> QED
  BY <1>1, MonitorInvariant, PTL DEF Spec, OneStepPerCooldown

-----------------------------------------------------------------------------
(* The monitor only reads what the breakers tell it: with or without        *)
(* adaptive mode the sinks are written to as SinkDelivery says.             *)
THEOREM MonitorOnlyListens == Spec => DeliverySpec
<1>1. Init => DeliveryInit
  BY DEF Init
<1>2. [Next]_adaptiveVars => [DeliveryNext]_deliveryVars
  BY DEF Next, adaptiveVars, MonitorTick, ClockTick, QueueChanges, DeliveryNext
<1> QED
  BY <1>1, <1>2, PTL DEF Spec, DeliverySpec

(* So in adaptive mode too failures stay with the sink that fails, and the  *)
(* boost the monitor adds covers every circuit that is not closed.          *)
THEOREM AdaptiveDeliveryIsSafe == Spec => [](Isolation /\ BoostCoversOpen /\ ProbesUnderway)
BY MonitorOnlyListens, FailuresAreContained, BoostIsNeverShort, ProbesStayUnderway, PTL

-----------------------------------------------------------------------------
(* The level comes to rest.  Whether a level may be entered from below or    *)
(* left downwards is decided by the fill ratio alone, and never both.        *)

AtNormal == level = 0
AtElevated == level = 1
AtHigh == level = 2
AtCritical == level = 3
MayElevate == FillRatio >= EscalateTo[1]
MayGetHigh == FillRatio >= EscalateTo[2]
MayGetCritical == FillRatio >= EscalateTo[3]

LEMMA RatioTyped ==
  ASSUME TypeInv, MonitorInv
  PROVE  FillRatio \in Percent
<1>1. fill \in Nat /\ PerOpen \in Nat /\ boost \in Nat
  BY DEF TypeInv, TypeOK, MonitorInv, MonitorTypeOK, Percent
<1>2. boost * PerOpen \in Nat
  BY <1>1
<1> QED
  BY <1>1, <1>2 DEF FillRatio, Percent

\* A step crosses a threshold upwards only if the ratio reaches it, else downwards.
LEMMA LevelSteps ==
  ASSUME TypeInv, MonitorInv, [Next]_adaptiveVars
  PROVE  \/ UNCHANGED level
         \/ AtNormal /\ MayElevate /\ AtElevated'
         \/ AtElevated /\ MayGetHigh /\ AtHigh'
         \/ AtHigh /\ MayGetCritical /\ AtCritical'
         \/ AtElevated /\ ~MayElevate /\ AtNormal'
         \/ AtHigh /\ ~MayGetHigh /\ AtElevated'
         \/ AtCritical /\ ~MayGetCritical /\ AtHigh'
<1>1. level \in 0 .. 3
  BY DEF MonitorInv, MonitorTypeOK, Level
<1>2. UNCHANGED level \/ level' = NextLevel(level, FillRatio)
  BY DEF Next, adaptiveVars, monitorVars, MonitorTick, ClockTick, QueueChanges
<1>3. PICK f : f = FillRatio
  OBVIOUS
<1>4. f \in Percent
  BY <1>3, RatioTyped
<1>5. \A l \in 0 .. 2 : f < DeescalateTo[l] => ~(f >= EscalateTo[l + 1])
  <2> SUFFICES ASSUME NEW l \in 0 .. 2 PROVE f < DeescalateTo[l] => ~(f >= EscalateTo[l + 1])
    OBVIOUS
  <2>1. DeescalateTo[l] \in Percent /\ EscalateTo[l + 1] \in Percent
        /\ DeescalateTo[l] < EscalateTo[l + 1]
    OBVIOUS
  <2> QED
    BY <1>4, <2>1 DEF Percent
<1>6. /\ f < DeescalateTo[0] => ~(f >= EscalateTo[1])
      /\ f < DeescalateTo[1] => ~(f >= EscalateTo[2])
      /\ f < DeescalateTo[2] => ~(f >= EscalateTo[3])
  BY <1>5
<1>7. \/ UNCHANGED level
      \/ level = 0 /\ f >= EscalateTo[1] /\ level' = 1
      \/ level = 1 /\ f >= EscalateTo[2] /\ level' = 2
      \/ level = 2 /\ f >= EscalateTo[3] /\ level' = 3
      \/ level = 1 /\ f < DeescalateTo[0] /\ level' = 0
      \/ level = 2 /\ f < DeescalateTo[1] /\ level' = 1
      \/ level = 3 /\ f < DeescalateTo[2] /\ level' = 2
  BY <1>1, <1>2, <1>3 DEF NextLevel, Escalates, Deescalates
<1> QED
  BY <1>3, <1>6, <1>7 DEF AtNormal, AtElevated, AtHigh, AtCritical,
                          MayElevate, MayGetHigh, MayGetCritical

(***************************************************************************)
(* Hysteresis over time: under a load that no longer changes the level     *)
(* comes to rest instead of going up and down between two thresholds, for  *)
(* all thresholds validate_threshold_ordering accepts and without any      *)
(* fairness (EscalationStateMachine.evaluate).                             *)
(***************************************************************************)
THEOREM LevelSettles == Spec => Settles
<1>1. MonitorInv => /\ AtNormal \/ AtElevated \/ AtHigh \/ AtCritical
                    /\ ~(AtNormal /\ AtElevated) /\ ~(AtNormal /\ AtHigh)
                    /\ ~(AtNormal /\ AtCritical) /\ ~(AtElevated /\ AtHigh)
                    /\ ~(AtElevated /\ AtCritical) /\ ~(AtHigh /\ AtCritical)
  BY DEF MonitorInv, MonitorTypeOK, Level, AtNormal, AtElevated, AtHigh, AtCritical
<1>2. TypeInv /\ MonitorInv /\ [Next]_adaptiveVars =>
        \/ UNCHANGED level
        \/ AtNormal /\ MayElevate /\ AtElevated'
        \/ AtElevated /\ MayGetHigh /\ AtHigh'
        \/ AtHigh /\ MayGetCritical /\ AtCritical'
        \/ AtElevated /\ ~MayElevate /\ AtNormal'
        \/ AtHigh /\ ~MayGetHigh /\ AtElevated'
        \/ AtCritical /\ ~MayGetCritical /\ AtHigh'
  BY LevelSteps
<1>3. [FillRatio' = FillRatio]_adaptiveVars =>
        /\ MayElevate' <=> MayElevate
        /\ MayGetHigh' <=> MayGetHigh
        /\ MayGetCritical' <=> MayGetCritical
  BY DEF MayElevate, MayGetHigh, MayGetCritical, FillRatio, adaptiveVars, monitorVars,
         deliveryVars
<1>4. UNCHANGED level =>
        /\ AtNormal' <=> AtNormal
        /\ AtElevated' <=> AtElevated
        /\ AtHigh' <=> AtHigh
        /\ AtCritical' <=> AtCritical
  BY DEF AtNormal, AtElevated, AtHigh, AtCritical
<1>5. /\ AtNormal /\ AtNormal' => [level' = level]_adaptiveVars
      /\ AtElevated /\ AtElevated' => [level' = level]_adaptiveVars
      /\ AtHigh /\ AtHigh' => [level' = level]_adaptiveVars
      /\ AtCritical /\ AtCritical' => [level' = level]_adaptiveVars
  BY DEF AtNormal, AtElevated, AtHigh, AtCritical
<1>6. Spec => DeliverySpec
  BY MonitorOnlyListens
<1>7. Spec => [][Next]_adaptiveVars
  BY DEF Spec
<1> QED
  BY <1>1, <1>2, <1>3, <1>4, <1>5, <1>6, <1>7, TypeInvariant, MonitorInvariant, PTL DEF Settles

-----------------------------------------------------------------------------
(* The level rises.  PromisedRatio counts the circuits, FillRatio what the   *)
(* callbacks have added up; BoostCoversOpen is what relates the two.         *)

\* A level that the load and the open circuits call for is reached by NextLevel.
LEMMA PromiseIsKept ==
  ASSUME TypeInv, BoostCoversOpen, MonitorInv, NEW l \in 1 .. 3,
         PromisedRatio >= EscalateTo[l]
  PROVE  FillRatio >= EscalateTo[l]
<1>1. fill \in Nat /\ PerOpen \in Nat /\ boost \in Nat
  BY DEF TypeInv, TypeOK, MonitorInv, MonitorTypeOK, Percent
<1>2. Cardinality(NotClosed) \in Nat
  <2>1. 1 \in Sinks /\ NotClosed \subseteq Sinks
    BY DEF Sinks, NotClosed
  <2> QED
    BY <2>1, CircuitsCounted
<1>3. PICK k \in Nat : k = Cardinality(NotClosed)
  BY <1>2
<1>4. k <= boost
  BY <1>1, <1>3 DEF BoostCoversOpen
<1>5. k * PerOpen <= boost * PerOpen
  <2>1. PICK d \in Nat : boost = k + d
    <3>1. boost - k \in Nat /\ boost = k + (boost - k)
      BY <1>1, <1>4
    <3> QED
      BY <3>1
  <2>2. boost * PerOpen = k * PerOpen + d * PerOpen
    BY <1>1, <2>1
  <2>3. k * PerOpen \in Nat /\ d * PerOpen \in Nat
    BY <1>1, <2>1
  <2> QED
    BY <2>2, <2>3
<1>6. PICK b \in Nat : b = boost * PerOpen
  BY <1>1
<1>7. PICK c \in Nat : c = k * PerOpen
  BY <1>1
<1>8. EscalateTo[l] \in 0 .. 100 /\ fill + c >= EscalateTo[l] /\ c <= b
  BY <1>3, <1>5, <1>6, <1>7 DEF PromisedRatio, Percent
<1>9. fill + b >= EscalateTo[l]
  BY <1>1, <1>8
<1> QED
  BY <1>6, <1>8, <1>9 DEF FillRatio

LEMMA LevelsBelowAreCalledFor ==
  ASSUME NEW l \in 1 .. 3, NEW m \in 1 .. 3, m <= l,
         NEW f \in Percent, f >= EscalateTo[l]
  PROVE  f >= EscalateTo[m]
<1>1. /\ EscalateTo[1] \in Percent /\ EscalateTo[2] \in Percent /\ EscalateTo[3] \in Percent
      /\ EscalateTo[1] < EscalateTo[2] /\ EscalateTo[2] < EscalateTo[3]
  OBVIOUS
<1>2. EscalateTo[m] <= EscalateTo[l]
  BY <1>1 DEF Percent
<1> QED
  BY <1>1, <1>2 DEF Percent

\* Below that level the monitor goes up, at it or above it never below it again.
LEMMA CalledForGoesUp ==
  ASSUME NEW l \in 1 .. 3, NEW k \in Level, NEW f \in Percent, f >= EscalateTo[l]
  PROVE  /\ k < l => NextLevel(k, f) = k + 1
         /\ k >= l => NextLevel(k, f) >= l
<1>1. CASE k < l
  <2>1. k + 1 \in 1 .. 3 /\ k + 1 <= l /\ k < 3
    BY <1>1 DEF Level
  <2>2. f >= EscalateTo[k + 1]
    BY <2>1, LevelsBelowAreCalledFor
  <2> QED
    BY <1>1, <2>1, <2>2 DEF NextLevel, Escalates, Level
<1>2. CASE k = l
  <2>1. ~Deescalates(k, f)
    <3>1. k - 1 \in 0 .. 2 /\ (k - 1) + 1 = l
      BY <1>2
    <3>2. DeescalateTo[k - 1] < EscalateTo[l] /\ DeescalateTo[k - 1] \in Percent
          /\ EscalateTo[l] \in Percent
      BY <3>1
    <3> QED
      BY <3>2 DEF Deescalates, Percent
  <2> QED
    BY <1>2, <2>1 DEF NextLevel, Level
<1>3. CASE k > l
  BY <1>3, NextLevelFacts DEF Level
<1> QED
  BY <1>1, <1>2, <1>3 DEF Level

(***************************************************************************)
(* The safe half of OutagesRaisePressure: while the load and the open      *)
(* circuits call for a level, no tick leaves it and none moves away from   *)
(* it, whichever writes and probes end meanwhile (PressureMonitor._tick,   *)
(* EscalationStateMachine.evaluate).                                       *)
(***************************************************************************)
NoStepBack ==
  [][\A l \in 1 .. 3 :
       PromisedRatio >= EscalateTo[l] =>
         /\ level >= l => level' >= l
         /\ level < l => level' >= level
    ]_adaptiveVars

LEMMA NextNoStepBack ==
  ASSUME TypeInv, BoostCoversOpen, MonitorInv, [Next]_adaptiveVars, NEW l \in 1 .. 3,
         PromisedRatio >= EscalateTo[l]
  PROVE  /\ level >= l => level' >= l
         /\ level < l => level' >= level
         /\ level < l => NextLevel(level, FillRatio) = level + 1
<1>1. level \in Level /\ FillRatio \in Percent
  BY RatioTyped DEF MonitorInv, MonitorTypeOK
<1>2. UNCHANGED level \/ level' = NextLevel(level, FillRatio)
  BY DEF Next, adaptiveVars, monitorVars, MonitorTick, ClockTick, QueueChanges
<1>3. FillRatio >= EscalateTo[l]
  BY PromiseIsKept
<1>4. /\ level < l => NextLevel(level, FillRatio) = level + 1
      /\ level >= l => NextLevel(level, FillRatio) >= l
  BY <1>1, <1>3, CalledForGoesUp
<1> QED
  BY <1>1, <1>2, <1>4 DEF Level

THEOREM PressureIsNotRelieved == Spec => NoStepBack
<1>1. TypeInv /\ BoostCoversOpen /\ MonitorInv /\ [Next]_adaptiveVars =>
        [\A l \in 1 .. 3 :
           PromisedRatio >= EscalateTo[l] =>
             /\ level >= l => level' >= l
             /\ level < l => level' >= level]_adaptiveVars
  BY NextNoStepBack
<1> QED
  BY <1>1, MonitorOnlyListens, TypeInvariant, BoostIsNeverShort, MonitorInvariant, PTL
     DEF Spec, NoStepBack

(***************************************************************************)
(* The other half: the monitor goes on evaluating (PressureMonitor.run),   *)
(* here said without ENABLED.  Where its verdict differs from the level    *)
(* for ever, it is acted on, because the cooldown ends.                    *)
(***************************************************************************)
VerdictDiffers == NextLevel(level, FillRatio) # level
MonitorGoesOn == <>[]VerdictDiffers => []<><<MonitorTick>>_adaptiveVars

LEMMA RisesToLevel ==
  ASSUME NEW l \in 1 .. 3
  PROVE  Spec /\ MonitorGoesOn => (<>[](PromisedRatio >= EscalateTo[l]) => <>[](level >= l))
<1> DEFINE Promised == PromisedRatio >= EscalateTo[l]
           Reached == level >= l
<1>1. MonitorInv => AtNormal \/ AtElevated \/ AtHigh \/ AtCritical
  BY DEF MonitorInv, MonitorTypeOK, Level, AtNormal, AtElevated, AtHigh, AtCritical
<1>2. AtCritical => Reached
  BY DEF AtCritical
<1>3. TypeInv /\ BoostCoversOpen /\ MonitorInv /\ [Next]_adaptiveVars /\ Promised =>
        /\ Reached => Reached'
        /\ ~Reached => VerdictDiffers
        /\ ~Reached /\ AtElevated => Reached' \/ AtElevated' \/ AtHigh'
        /\ ~Reached /\ AtHigh => Reached' \/ AtHigh' \/ AtCritical'
        /\ ~Reached /\ AtNormal => AtNormal' \/ AtElevated'
  <2> SUFFICES ASSUME TypeInv, BoostCoversOpen, MonitorInv, [Next]_adaptiveVars, Promised
               PROVE  /\ Reached => Reached'
                      /\ ~Reached => VerdictDiffers
                      /\ ~Reached /\ AtElevated => Reached' \/ AtElevated' \/ AtHigh'
                      /\ ~Reached /\ AtHigh => Reached' \/ AtHigh' \/ AtCritical'
                      /\ ~Reached /\ AtNormal => AtNormal' \/ AtElevated'
    OBVIOUS
  <2>1. /\ level >= l => level' >= l
        /\ level < l => NextLevel(level, FillRatio) = level + 1
    BY NextNoStepBack
  <2>2. level \in 0 .. 3
    BY DEF MonitorInv, MonitorTypeOK, Level
  <2>3. UNCHANGED level \/ level' = NextLevel(level, FillRatio)
    BY DEF Next, adaptiveVars, monitorVars, MonitorTick, ClockTick, QueueChanges
  <2> QED
    BY <2>1, <2>2, <2>3 DEF VerdictDiffers, AtNormal, AtElevated, AtHigh, AtCritical
<1>4. TypeInv /\ BoostCoversOpen /\ MonitorInv /\ [Next]_adaptiveVars /\ Promised
      /\ ~Reached /\ <<MonitorTick>>_adaptiveVars =>
        /\ AtNormal => AtElevated'
        /\ AtElevated => AtHigh'
        /\ AtHigh => AtCritical'
  <2> SUFFICES ASSUME TypeInv, BoostCoversOpen, MonitorInv, [Next]_adaptiveVars, Promised,
                      ~Reached, <<MonitorTick>>_adaptiveVars
               PROVE  /\ AtNormal => AtElevated'
                      /\ AtElevated => AtHigh'
                      /\ AtHigh => AtCritical'
    OBVIOUS
  <2>1. level < l => NextLevel(level, FillRatio) = level + 1
    BY NextNoStepBack
  <2>2. level \in 0 .. 3
    BY DEF MonitorInv, MonitorTypeOK, Level
  <2>3. level' = NextLevel(level, FillRatio)
    BY DEF MonitorTick
  <2> QED
    BY <2>1, <2>2, <2>3 DEF AtNormal, AtElevated, AtHigh, AtCritical
<1> HIDE DEF Promised, Reached
<1>6. Spec => DeliverySpec
  BY MonitorOnlyListens
<1>7. Spec => [][Next]_adaptiveVars
  BY DEF Spec
<1>8. Spec /\ MonitorGoesOn => (<>[]Promised => <>[]Reached)
  BY <1>1, <1>2, <1>3, <1>4, <1>6, <1>7, TypeInvariant, BoostIsNeverShort, MonitorInvariant,
     PTL DEF MonitorGoesOn
<1> QED
  BY <1>8 DEF Promised, Reached

(***************************************************************************)
(* So the level promised for load and outages is reached and kept, for any *)
(* number of sinks and writers and all settings the validators accept,     *)
(* provided that the monitor goes on.                                      *)
(***************************************************************************)
THEOREM PressureRises == Spec /\ MonitorGoesOn => OutagesRaisePressure
BY RisesToLevel DEF OutagesRaisePressure
=============================================================================
