------------------------------ MODULE DualQueue ------------------------------
(***************************************************************************)
(* The two bounded queues between the threads that log and the worker      *)
(* thread (src/fapilog/core/concurrency.py).  Events of a protected level   *)
(* have a queue of their own, which is always served first; while           *)
(* `shedding' is set the main queue is hidden from try_dequeue.             *)
(*                                                                         *)
(* Every operator below is one critical section of the code (one method of *)
(* NonBlockingRingQueue under its lock, with the unlocked counter update    *)
(* that follows it).  A method of DualQueue that takes several critical     *)
(* sections, such as try_dequeue, is several steps of its caller.           *)
(***************************************************************************)
EXTENDS Integers, Sequences, FiniteSets

CONSTANTS
  Events,        \* the log calls of a behaviour, each one distinct
  Protected,     \* those whose level is in protected_levels
  MainCap,       \* queue_capacity
  ProtCap        \* protected_queue_size

ASSUME QueueAssumption ==
  /\ Protected \subseteq Events
  /\ MainCap \in Nat \ {0}
  /\ ProtCap \in Nat \ {0}

VARIABLES
  main,          \* _main._dq
  prot,          \* _protected._dq
  mainDrops,     \* _main_drops
  protDrops,     \* _protected_drops
  shedding       \* _shedding

queueVars == <<main, prot, mainDrops, protDrops, shedding>>

QueueInit ==
  /\ main = <<>>
  /\ prot = <<>>
  /\ mainDrops = 0
  /\ protDrops = 0
  /\ shedding = FALSE

QueueTypeOK ==
  /\ main \in Seq(Events)
  /\ prot \in Seq(Events)
  /\ mainDrops \in Nat
  /\ protDrops \in Nat
  /\ shedding \in BOOLEAN

-----------------------------------------------------------------------------
(* Mutated forms, used to show that the properties depend on the code.     *)

MainAlwaysVisible == TRUE

PeekMain ==
  /\ main # <<>>
  /\ UNCHANGED <<main, prot, mainDrops, protDrops, shedding>>

-----------------------------------------------------------------------------
(* Room for e in the queue its level routes it to.                         *)
Admits(e) ==
  IF e \in Protected THEN Len(prot) < ProtCap ELSE Len(main) < MainCap

(* try_enqueue when there is room ...                                      *)
Put(e) ==
  /\ IF e \in Protected
       THEN /\ prot' = Append(prot, e)
            /\ UNCHANGED main
       ELSE /\ main' = Append(main, e)
            /\ UNCHANGED prot
  /\ UNCHANGED <<mainDrops, protDrops, shedding>>

(* ... and when there is none: the refusal is counted per queue.           *)
Refuse(e) ==
  /\ IF e \in Protected
       THEN /\ protDrops' = protDrops + 1
            /\ UNCHANGED mainDrops
       ELSE /\ mainDrops' = mainDrops + 1
            /\ UNCHANGED protDrops
  /\ UNCHANGED <<main, prot, shedding>>

(* Does try_dequeue go on to the main queue when no event is protected?    *)
MainVisible == ~shedding

(* The two halves of try_dequeue and drain_into that remove an event.      *)
PopProtected ==
  /\ prot # <<>>
  /\ prot' = Tail(prot)
  /\ UNCHANGED <<main, mainDrops, protDrops, shedding>>

PopMain ==
  /\ main # <<>>
  /\ main' = Tail(main)
  /\ UNCHANGED <<prot, mainDrops, protDrops, shedding>>

SetShedding(on) ==
  /\ shedding' = on
  /\ UNCHANGED <<main, prot, mainDrops, protDrops>>

(* No queue ever holds more than its capacity: callers on many threads     *)
(* append while workers and drain remove (the memory bound the docs        *)
(* promise for max_queue_size).                                            *)
QueueBound == Len(main) <= MainCap /\ Len(prot) <= ProtCap
=============================================================================
