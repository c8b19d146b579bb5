----------------------- MODULE EscalationStateMachine -----------------------
(***************************************************************************)
(* EscalationStateMachine.evaluate (core/pressure.py) and                  *)
(* WorkerPool.target_for_level (core/worker_pool.py) as functions of their *)
(* arguments.  Levels are the indices of _LEVELS (NORMAL, ELEVATED, HIGH,  *)
(* CRITICAL), ratios are percentages.                                      *)
(***************************************************************************)
EXTENDS Integers

CONSTANTS
  EscalateTo,      \* escalate_to_elevated, _high, _critical: by the level entered
  DeescalateTo,    \* deescalate_from_*: by the level entered
  InitialWorkers,  \* worker_count
  MaxWorkers       \* adaptive.max_workers

Level == 0 .. 3
Percent == 0 .. 100

\* AdaptiveSettings.validate_threshold_ordering.
ASSUME ThresholdAssumption ==
  /\ EscalateTo \in [1 .. 3 -> Percent]
  /\ DeescalateTo \in [0 .. 2 -> Percent]
  /\ EscalateTo[1] < EscalateTo[2] /\ EscalateTo[2] < EscalateTo[3]
  /\ \A l \in 0 .. 2 : DeescalateTo[l] < EscalateTo[l + 1]

ASSUME WorkerAssumption ==
  /\ InitialWorkers \in Nat \ {0}
  /\ MaxWorkers \in Nat \ {0}

\* Mutant: the threshold to fall below is that of the next escalation.
DeescalatesBelowNext(l, fill) == l > 0 /\ fill < EscalateTo[IF l < 3 THEN l + 1 ELSE 3]

\* evaluate(): one step up is looked for first, then one step down.
Escalates(l, fill) == l < 3 /\ fill >= EscalateTo[l + 1]
Deescalates(l, fill) == l > 0 /\ ~Escalates(l, fill) /\ fill < DeescalateTo[l - 1]

NextLevel(l, fill) ==
  IF Escalates(l, fill) THEN l + 1 ELSE IF Deescalates(l, fill) THEN l - 1 ELSE l

\* WORKER_SCALE, in halves.
WorkerScale == [l \in Level |-> CASE l = 2 -> 3 [] l = 3 -> 4 [] OTHER -> 2]

\* target_for_level(): rounded up and clamped.
TargetForLevel(l) ==
  LET raw == (InitialWorkers * WorkerScale[l] + 1) \div 2
      capped == IF raw < MaxWorkers THEN raw ELSE MaxWorkers
  IN  IF capped > InitialWorkers THEN capped ELSE InitialWorkers
=============================================================================
