-------------------------- MODULE AdaptiveDelivery --------------------------
(***************************************************************************)
(* The sinks and their breakers (SinkDelivery) with the PressureMonitor    *)
(* (core/pressure.py) that LoggerMixin._maybe_start_pressure_monitor wires *)
(* to them: every breaker reports its changes to the monitor               *)
(* (breaker.on_state_change), and on every tick the monitor adds the boost *)
(* the open circuits have left to the fill ratio of the main queue.        *)
(*                                                                         *)
(* The queue is the environment: its fill ratio is any of Fills at any     *)
(* time.  The shedding of the protected queue, which the same tick         *)
(* decides, is in LogPipeline.                                             *)
(***************************************************************************)
EXTENDS SinkDelivery, EscalationStateMachine

CONSTANTS
  Fills,      \* the fill ratios of the main queue considered, in percent
  PerOpen,    \* circuit_pressure_boost, in percent
  Cooldown    \* cooldown_seconds, in ticks

ASSUME MonitorAssumption ==
  /\ Fills # {} /\ Fills \subseteq Percent
  /\ PerOpen \in Percent
  /\ Cooldown \in Nat

VARIABLES
  fill,         \* main_qsize() / capacity
  level,        \* EscalationStateMachine._level
  cool,         \* ticks since _last_transition_time, cut off at Cooldown; at
                \* first Cooldown: _first_evaluation waits for nothing
  sinceChange   \* history: ticks since the level last changed

monitorVars == <<fill, level, cool, sinceChange>>
adaptiveVars == <<deliveryVars, monitorVars>>

MonitorTypeOK ==
  /\ fill \in Fills
  /\ level \in Level
  /\ cool \in 0 .. Cooldown
  /\ sinceChange \in 0 .. Cooldown

Init ==
  /\ DeliveryInit
  /\ fill \in Fills
  /\ level = 0
  /\ cool = Cooldown
  /\ sinceChange = Cooldown

-----------------------------------------------------------------------------
\* Mutant: the boost is forgotten.
QueueRatio == fill

\* _tick(): min(1.0, raw_fill + _circuit_boost).
FillRatio ==
  LET boosted == fill + boost * PerOpen IN IF boosted < 100 THEN boosted ELSE 100

\* _tick() when evaluate() finds a new level; another tick changes nothing.
MonitorTick ==
  /\ cool >= Cooldown
  /\ NextLevel(level, FillRatio) # level
  /\ level' = NextLevel(level, FillRatio)
  /\ cool' = 0
  /\ sinceChange' = 0
  /\ UNCHANGED <<fill, deliveryVars>>

\* The clock of the breakers is the clock of the cooldown.
ClockTick ==
  /\ Elapse
  /\ cool' = IF cool < Cooldown THEN cool + 1 ELSE cool
  /\ sinceChange' = IF sinceChange < Cooldown THEN sinceChange + 1 ELSE sinceChange
  /\ UNCHANGED <<fill, level>>

\* Producers and workers fill and empty the main queue.
QueueChanges ==
  /\ fill' \in Fills
  /\ UNCHANGED <<level, cool, sinceChange, deliveryVars>>

Next ==
  \/ (DeliveryStep \/ Outage) /\ UNCHANGED monitorVars
  \/ MonitorTick
  \/ ClockTick
  \/ QueueChanges

Spec == Init /\ [][Next]_adaptiveVars

\* The loop runs the tasks that are ready, the monitor's among them.
FairSpec ==
  /\ Spec
  /\ \A w \in Writers : WF_deliveryVars(\E s \in Sinks : Proceed(w, s))
  /\ WF_adaptiveVars(MonitorTick)
  /\ WF_adaptiveVars(ClockTick)

-----------------------------------------------------------------------------
(***************************************************************************)
(* The level moves one step at a time, and never within cooldown_seconds   *)
(* of its last move, escalating or de-escalating (evaluate).               *)
(***************************************************************************)
OneStepPerCooldown ==
  [][level' # level =>
       level' \in {level - 1, level + 1} /\ sinceChange >= Cooldown]_adaptiveVars

(***************************************************************************)
(* Hysteresis: under a load that no longer changes the level comes to rest *)
(* instead of going up and down between two thresholds.                    *)
(***************************************************************************)
Settles ==
  <>[][FillRatio' = FillRatio]_adaptiveVars => <>[][level' = level]_adaptiveVars

(***************************************************************************)
(* The fill ratio of adaptive-pipeline.md: the open circuits and the queue *)
(* together.  Load and outages that reach the threshold of a level and     *)
(* last bring the pipeline to that level and keep it there, whichever      *)
(* writes and probes fail or succeed meanwhile.                            *)
(***************************************************************************)
PromisedRatio == fill + Cardinality(NotClosed) * PerOpen

OutagesRaisePressure ==
  \A l \in 1 .. 3 : <>[](PromisedRatio >= EscalateTo[l]) => <>[](level >= l)
=============================================================================
