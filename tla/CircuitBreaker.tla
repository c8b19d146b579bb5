--------------------------- MODULE CircuitBreaker ---------------------------
(***************************************************************************)
(* SinkCircuitBreaker (core/circuit_breaker.py): one breaker as a record,  *)
(* and what each method makes of it.  Every method runs under the          *)
(* breaker's lock, so each is one atomic operator.                         *)
(*                                                                         *)
(*   state     _state                                                      *)
(*   failures  _failure_count, cut off at FailureThreshold: the code only  *)
(*             asks whether the count has reached it                       *)
(*   wait      time since _last_failure_time in ticks, cut off at          *)
(*             RecoveryTime, advanced only while the circuit is open: it   *)
(*             is read in no other state, and every way into "open"        *)
(*             sets _last_failure_time                                     *)
(*   probes    _half_open_calls                                            *)
(***************************************************************************)
EXTENDS Naturals

CONSTANTS
  FailureThreshold,   \* failure_threshold
  RecoveryTime,       \* recovery_timeout_seconds, in ticks
  ProbeMax            \* half_open_max_calls

ASSUME BreakerAssumption ==
  /\ FailureThreshold \in Nat \ {0}
  /\ RecoveryTime \in Nat
  /\ ProbeMax \in Nat \ {0}

CircuitState == {"closed", "open", "half_open"}

Breaker ==
  [state : CircuitState, failures : 0 .. FailureThreshold,
   wait : 0 .. RecoveryTime, probes : 0 .. ProbeMax]

NewBreaker == [state |-> "closed", failures |-> 0, wait |-> 0, probes |-> 0]

\* should_allow(): the answer ...
Allows(b) ==
  \/ b.state = "closed"
  \/ b.state = "open" /\ b.wait >= RecoveryTime
  \/ b.state = "half_open" /\ b.probes < ProbeMax

\* ... and the breaker once it has been given: asking is what admits a probe.
Asked(b) ==
  IF b.state = "closed" \/ ~Allows(b)
    THEN b
    ELSE [b EXCEPT !.state = "half_open",
                   !.probes = IF b.state = "open" THEN 1 ELSE @ + 1]

\* Mutant: the circuit closes only if the failure count has been reset before.
SucceedsOnCleanCount(b) ==
  [b EXCEPT !.state = IF @ = "half_open" /\ b.failures = 0 THEN "closed" ELSE @,
            !.failures = 0]

\* record_success()
Succeeded(b) ==
  [b EXCEPT !.state = IF @ = "half_open" THEN "closed" ELSE @, !.failures = 0]

\* Mutant: a late success reports a circuit that stays open as closed.
EmitsClosedUnlessClosed(b) == b.state # "closed"

\* The callback on_state_change(CLOSED) that record_success makes.
EmitsClosed(b) == b.state = "half_open"

\* The failure count record_failure reaches.
OneMore(b) == IF b.failures < FailureThreshold THEN b.failures + 1 ELSE b.failures

\* The callback on_state_change(OPEN) that record_failure makes: also when the
\* circuit is open already and the count is still at the threshold.
EmitsOpen(b) == b.state = "half_open" \/ OneMore(b) = FailureThreshold

\* Mutant: a failed probe does not restart the recovery timeout.
FailedKeepingTime(b) ==
  [b EXCEPT !.state = IF EmitsOpen(b) THEN "open" ELSE @,
            !.failures = OneMore(b),
            !.wait = IF b.state = "half_open" THEN @ ELSE 0]

\* record_failure()
Failed(b) ==
  [b EXCEPT !.state = IF EmitsOpen(b) THEN "open" ELSE @,
            !.failures = OneMore(b),
            !.wait = 0]

\* A tick of the clock.
Aged(b) ==
  IF b.state = "open" /\ b.wait < RecoveryTime THEN [b EXCEPT !.wait = @ + 1] ELSE b
=============================================================================
