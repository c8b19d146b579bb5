---------------------------- MODULE ResourcePool ----------------------------
(***************************************************************************)
(* AsyncResourcePool (core/resources.py) as the HTTP sinks use it: one     *)
(* pool as a record, and what each method makes of it.  Creating an HTTP   *)
(* client suspends nothing, so acquiring is one atomic step up to the wait *)
(* for an idle client, and the pool's lock is never contended.             *)
(*                                                                         *)
(*   idle     _idle, the clients nobody holds, first in first out          *)
(*   created  _created_count; client n is the n-th one created, so         *)
(*            _all_resources is 1 .. created                               *)
(*   inUse    _in_use_count                                                *)
(*   closed   _closed                                                      *)
(*   dead     the clients aclose() was called on                           *)
(***************************************************************************)
EXTENDS Integers, Sequences

CONSTANT MaxClients   \* max_size

ASSUME PoolAssumption == MaxClients \in Nat \ {0}

Clients == 1 .. MaxClients

\* What a sender holds that holds no client.
NoClient == 0

NewPool == [idle |-> <<>>, created |-> 0, inUse |-> 0, closed |-> FALSE, dead |-> {}]

HasIdle(p) == p.idle # <<>>

\* The test under the lock, reached only with no client idle.
MayCreate(p) == p.created < MaxClients

\* The client the next caller of acquire() is given.
NextClient(p) == IF HasIdle(p) THEN Head(p.idle) ELSE p.created + 1

\* Mutant: the client handed out stays in the queue of idle ones.
PeekedFrom(p) ==
  IF HasIdle(p)
    THEN [p EXCEPT !.inUse = @ + 1]
    ELSE [p EXCEPT !.created = @ + 1, !.inUse = @ + 1]

\* The pool once that client has been handed out.
AcquiredFrom(p) ==
  IF HasIdle(p)
    THEN [p EXCEPT !.idle = Tail(@), !.inUse = @ + 1]
    ELSE [p EXCEPT !.created = @ + 1, !.inUse = @ + 1]

\* The end of acquire()'s context: the client goes back, or is closed.
ReleasedTo(p, c) ==
  IF p.closed
    THEN [p EXCEPT !.inUse = @ - 1, !.dead = @ \cup {c}]
    ELSE [p EXCEPT !.inUse = @ - 1, !.idle = Append(@, c)]

\* cleanup(): every client ever created is closed, those in use too; the count
\* of created clients stays.
CleanedUp(p) ==
  [idle |-> <<>>, created |-> p.created, inUse |-> 0, closed |-> TRUE, dead |-> 1 .. p.created]

\* start()
Reopened(p) == [p EXCEPT !.closed = FALSE]
=============================================================================
