----------------------------- MODULE EventLedger -----------------------------
(***************************************************************************)
(* What a logger promises the application about its log calls, with no     *)
(* threads, queues, batches or workers: an event is submitted, is decided   *)
(* once and for good, and the DrainResult of a graceful shutdown closes the *)
(* books.  Nothing is pending when it is made, and its counters are the     *)
(* numbers of events that met each fate.                                   *)
(***************************************************************************)
EXTENDS Integers, FiniteSets

CONSTANTS
  Events,     \* the log calls of a behaviour
  NoReport    \* the books are open

VARIABLES
  status,     \* what became of each event
  report      \* NoReport, or the counters of the DrainResult

ledger == <<status, report>>

Outcomes == {"written", "discarded", "filtered"}

With(s) == {e \in Events : status[e] = s}

LedgerInit ==
  /\ status = [e \in Events |-> "new"]
  /\ report = NoReport

SubmitEvent(e) ==
  /\ report = NoReport
  /\ status[e] = "new"
  /\ status' = [status EXCEPT ![e] = "live"]
  /\ UNCHANGED report

(* Several events may be decided at once: a filter pass over a batch.      *)
Decide(chosen) ==
  /\ chosen # {} /\ chosen \subseteq With("live")
  /\ \E outcome \in [chosen -> Outcomes] :
       status' = [e \in Events |-> IF e \in chosen THEN outcome[e] ELSE status[e]]
  /\ UNCHANGED report

Close ==
  /\ report = NoReport
  /\ With("live") = {}
  /\ report' = [submitted |-> Cardinality(Events \ With("new")),
                processed |-> Cardinality(With("written")),
                dropped   |-> Cardinality(With("discarded"))]
  /\ UNCHANGED status

LedgerNext ==
  \/ \E e \in Events : SubmitEvent(e)
  \/ \E chosen \in SUBSET Events : Decide(chosen)
  \/ Close

LedgerSpec == LedgerInit /\ [][LedgerNext]_ledger
=============================================================================
