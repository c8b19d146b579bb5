---------------------------- MODULE AuditProofs ----------------------------
(* Theorems about AuditTrail, for any number of events, failed writes and  *)
(* new trails, with and without an executor that is short of threads.      *)
EXTENDS AuditTrail, FiniteSetTheorems, TLAPS

-----------------------------------------------------------------------------
(* The queue as a set.                                                     *)

ItemsOf(q) == {q[i] : i \in DOMAIN q}

Distinct(q) == \A i, j \in DOMAIN q : q[i] = q[j] => i = j

LEMMA QueueAppended ==
  ASSUME NEW q \in Seq(Events), NEW e \in Events
  PROVE  /\ Append(q, e) \in Seq(Events)
         /\ ItemsOf(Append(q, e)) = ItemsOf(q) \cup {e}
         /\ Distinct(q) /\ e \notin ItemsOf(q) => Distinct(Append(q, e))
<1> DEFINE c == Append(q, e)
<1>1. /\ c \in Seq(Events) /\ Len(c) = Len(q) + 1 /\ Len(q) \in Nat
      /\ DOMAIN c = 1 .. Len(q) + 1 /\ DOMAIN q = 1 .. Len(q)
      /\ c[Len(q) + 1] = e
      /\ \A i \in 1 .. Len(q) : c[i] = q[i]
  OBVIOUS
<1> HIDE DEF c
<1>2. ItemsOf(c) = ItemsOf(q) \cup {e}
  <2>1. ASSUME NEW x \in ItemsOf(c) PROVE x \in ItemsOf(q) \cup {e}
    <3>1. PICK i \in 1 .. Len(q) + 1 : x = c[i]
      BY <1>1, <2>1 DEF ItemsOf
    <3> QED
      BY <1>1, <3>1 DEF ItemsOf
  <2>2. ASSUME NEW x \in ItemsOf(q) PROVE x \in ItemsOf(c)
    <3>1. PICK i \in 1 .. Len(q) : x = q[i]
      BY <1>1, <2>2 DEF ItemsOf
    <3>2. i \in DOMAIN c /\ c[i] = x
      BY <1>1, <3>1
    <3> QED
      BY <3>2 DEF ItemsOf
  <2>3. e \in ItemsOf(c)
    <3>1. Len(q) + 1 \in DOMAIN c /\ c[Len(q) + 1] = e
      BY <1>1
    <3> QED
      BY <3>1 DEF ItemsOf
  <2> QED
    BY <2>1, <2>2, <2>3
<1>3. ASSUME Distinct(q), e \notin ItemsOf(q) PROVE Distinct(c)
  <2> SUFFICES ASSUME NEW i \in DOMAIN c, NEW j \in DOMAIN c, c[i] = c[j] PROVE i = j
    BY DEF Distinct
  <2>1. \A k \in 1 .. Len(q) : c[k] \in ItemsOf(q)
    BY <1>1 DEF ItemsOf
  <2>2. CASE i \in 1 .. Len(q) /\ j \in 1 .. Len(q)
    BY <1>1, <1>3, <2>2 DEF Distinct
  <2>3. CASE i = Len(q) + 1 \/ j = Len(q) + 1
    BY <1>1, <1>3, <2>1, <2>3
  <2> QED
    BY <1>1, <2>2, <2>3
<1> QED
  BY <1>1, <1>2, <1>3 DEF c

LEMMA QueueTail ==
  ASSUME NEW q \in Seq(Events), q # <<>>
  PROVE  /\ Head(q) \in ItemsOf(q) /\ Head(q) \in Events
         /\ Tail(q) \in Seq(Events)
         /\ ItemsOf(Tail(q)) \subseteq ItemsOf(q)
         /\ ItemsOf(q) = ItemsOf(Tail(q)) \cup {Head(q)}
         /\ Distinct(q) => Distinct(Tail(q)) /\ Head(q) \notin ItemsOf(Tail(q))
<1> DEFINE c == Tail(q)
<1>1. /\ c \in Seq(Events) /\ Len(c) = Len(q) - 1 /\ Len(q) \in Nat \ {0}
      /\ DOMAIN c = 1 .. Len(q) - 1 /\ DOMAIN q = 1 .. Len(q)
      /\ Head(q) = q[1] /\ q[1] \in Events
      /\ \A i \in 1 .. Len(q) - 1 : c[i] = q[i + 1]
  OBVIOUS
<1> HIDE DEF c
<1>2. Head(q) \in ItemsOf(q)
  BY <1>1 DEF ItemsOf
<1>3. ItemsOf(c) \subseteq ItemsOf(q)
  <2>1. ASSUME NEW i \in DOMAIN c PROVE c[i] \in ItemsOf(q)
    <3>1. i + 1 \in DOMAIN q /\ c[i] = q[i + 1]
      BY <1>1
    <3> QED
      BY <3>1 DEF ItemsOf
  <2> QED
    BY <2>1 DEF ItemsOf
<1>4. ItemsOf(q) \subseteq ItemsOf(c) \cup {Head(q)}
  <2>1. ASSUME NEW i \in DOMAIN q, i # 1 PROVE q[i] \in ItemsOf(c)
    <3>1. i - 1 \in DOMAIN c /\ c[i - 1] = q[i]
      BY <1>1, <2>1
    <3> QED
      BY <3>1 DEF ItemsOf
  <2> QED
    BY <1>1, <2>1 DEF ItemsOf
<1>5. ASSUME Distinct(q) PROVE Distinct(c) /\ Head(q) \notin ItemsOf(c)
  <2>1. \A i \in DOMAIN c : i + 1 \in DOMAIN q /\ c[i] = q[i + 1] /\ i + 1 # 1 /\ i \in Nat
    BY <1>1
  <2>2. 1 \in DOMAIN q
    BY <1>1
  <2>3. Distinct(c)
    <3> SUFFICES ASSUME NEW i \in DOMAIN c, NEW j \in DOMAIN c, c[i] = c[j] PROVE i = j
      BY DEF Distinct
    <3>1. i + 1 = j + 1
      BY <1>5, <2>1 DEF Distinct
    <3> QED
      BY <2>1, <3>1
  <2>4. \A i \in DOMAIN c : c[i] # Head(q)
    BY <1>1, <1>5, <2>1, <2>2 DEF Distinct
  <2> QED
    BY <2>3, <2>4 DEF ItemsOf
<1> QED
  BY <1>1, <1>2, <1>3, <1>4, <1>5 DEF c

-----------------------------------------------------------------------------
(* Jobs.                                                                   *)

LEMMA JobTyped ==
  ASSUME NEW j \in Job
  PROVE  /\ j.record \in Record /\ j.record.event \in Events
         /\ j.for \in {"task", "owner", "nobody"} /\ j.started \in BOOLEAN
         /\ [j EXCEPT !.started = TRUE] \in Job
         /\ [j EXCEPT !.started = TRUE].record = j.record
         /\ [j EXCEPT !.for = "nobody"] \in Job
         /\ [j EXCEPT !.for = "nobody"].record = j.record
  BY DEF Job, Record

LEMMA JobsOf ==
  /\ \A e : e \in InJobs <=> \E j \in jobs : j.record.event = e
  /\ \A e : e \in EventsOf(lines) <=> \E r \in lines : r.event = e
  BY DEF InJobs, EventsOf

-----------------------------------------------------------------------------
(***************************************************************************)
(* Where an event is: in the queue, in the hands of the task, in a write,  *)
(* in a file, or lost, and in one of these places at a time; each of the   *)
(* last three has got one number.                                          *)
(***************************************************************************)
Begun == InJobs \cup EventsOf(lines) \cup lost

Apart ==
  /\ Distinct(queue)
  /\ Queued \cap Begun = {}
  /\ held \notin Queued \cup Begun
  /\ lost \cap (InJobs \cup EventsOf(lines)) = {}
  /\ held = NoEvent <=> task # "took"
  /\ StoredOnce

Counted == seqCounter <= Cardinality(Begun)

Sound == TypeOK /\ Apart /\ Counted

LEMMA Places ==
  ASSUME TypeOK
  PROVE  /\ Queued = ItemsOf(queue) /\ Queued \subseteq Events
         /\ Begun \in SUBSET Events /\ NoEvent \notin Begun /\ NoEvent \notin Queued
         /\ IsFiniteSet(Begun) /\ Cardinality(Begun) \in Nat
         /\ Cardinality(Events) \in Nat
<1>1. Queued = ItemsOf(queue) /\ Queued \subseteq Events
  BY DEF Queued, ItemsOf, TypeOK
<1>2. InJobs \subseteq Events
  <2>1. \A j \in jobs : j.record.event \in Events
    BY JobTyped DEF TypeOK
  <2> QED
    BY <2>1, JobsOf
<1>3. EventsOf(lines) \subseteq Events
  BY JobsOf DEF TypeOK, Record
<1>4. Begun \in SUBSET Events
  BY <1>2, <1>3 DEF TypeOK, Begun
<1> QED
  BY <1>1, <1>4, AuditAssumption, FS_Subset, FS_CardinalityType

LEMMA StoreFacts ==
  ASSUME Sound, NEW e \in Events, e \notin Begun, NEW who \in {"task", "owner"},
         Store(e, who), UNCHANGED <<lines, restarts>>
  PROVE  /\ jobs' \subseteq Job /\ Begun' = Begun \cup {e}
         /\ lost' \subseteq Events /\ lost' \cap (InJobs' \cup EventsOf(lines')) = {}
         /\ failures' \in 0 .. MaxFailures
         /\ StoredOnce' /\ Counted'
         /\ seqCounter' \in 0 .. Cardinality(Events) /\ lastHash' \in Events \cup {NoEvent}
<1>1. /\ IsFiniteSet(Begun) /\ Cardinality(Begun) \in Nat /\ Begun \in SUBSET Events
      /\ seqCounter \in Nat /\ seqCounter <= Cardinality(Begun) /\ Cardinality(Events) \in Nat
  BY Places DEF Sound, TypeOK, Counted
<1>2. Cardinality(Begun \cup {e}) = Cardinality(Begun) + 1
  BY <1>1, FS_AddElement
<1>3. Cardinality(Begun \cup {e}) <= Cardinality(Events)
  <2> DEFINE S == Begun \cup {e}
  <2>1. S \in SUBSET Events
    BY <1>1
  <2> HIDE DEF S
  <2>2. Cardinality(S) <= Cardinality(Events)
    BY <2>1, AuditAssumption, FS_Subset
  <2> QED
    BY <2>2 DEF S
<1>4. seqCounter' = seqCounter + 1
  BY DEF Store, Chain, Unserializable, NextNumber
<1>5. seqCounter' \in 1 .. Cardinality(Events)
  BY <1>1, <1>2, <1>3, <1>4
<1>6. e \notin lost /\ e \notin InJobs /\ e \notin EventsOf(lines) /\ EventsOf(lines') = EventsOf(lines)
  BY DEF Begun, EventsOf
<1>7. /\ jobs' \subseteq Job /\ Begun' = Begun \cup {e} /\ StoredOnce'
      /\ lost' \subseteq Events /\ lost' \cap (InJobs' \cup EventsOf(lines')) = {}
      /\ failures' \in 0 .. MaxFailures /\ lastHash' \in Events \cup {NoEvent}
  <2>1. CASE Unserializable(e)
    <3>1. /\ lost' = lost \cup {e} /\ UNCHANGED <<jobs, lines, lastHash>>
          /\ failures < MaxFailures /\ failures' = failures + 1
      BY <2>1 DEF Unserializable
    <3>2. InJobs' = InJobs
      BY <3>1 DEF InJobs, EventsOf
    <3>3. failures' \in 0 .. MaxFailures
      BY <3>1, AuditAssumption DEF Sound, TypeOK
    <3>4. StoredOnce'
      BY <1>6, <3>1, <3>2 DEF Sound, Apart, StoredOnce
    <3>5. Begun' = Begun \cup {e} /\ lost' \cap (InJobs' \cup EventsOf(lines')) = {}
      BY <1>6, <3>1, <3>2 DEF Sound, Apart, Begun
    <3> QED
      BY <3>1, <3>3, <3>4, <3>5 DEF Sound, TypeOK
  <2>2. CASE Chain(e, who)
    <3>1. lastHash' = e /\ UNCHANGED <<failures, lost, lines>>
      BY <2>2 DEF Chain
    <3>2. PICK j : /\ j \in Job /\ j.record.event = e
                   /\ jobs' = jobs \cup {j}
      <4> DEFINE r == [event |-> e, seq |-> NextNumber, prev |-> PreviousHash,
                       trail |-> restarts]
                 k(b) == [record |-> r, for |-> who, started |-> b]
      <4>1. r \in Record /\ r.event = e
        BY <1>4, <1>5 DEF Record, Sound, TypeOK, NextNumber, PreviousHash
      <4>2. PICK b \in BOOLEAN : jobs' = jobs \cup {k(b)}
        BY <2>2 DEF Chain
      <4> HIDE DEF r
      <4>3. k(b) \in Job /\ k(b).record.event = e
        BY <4>1 DEF Job
      <4> QED
        BY <4>2, <4>3
    <3>3. InJobs' = InJobs \cup {e}
      BY <3>2 DEF InJobs, EventsOf
    <3>4. \A k \in jobs : k.record.event # e
      BY <1>6, JobsOf
    <3>5. \A i, k \in jobs' : i.record.event = k.record.event => i = k
      BY <3>2, <3>4 DEF Sound, Apart, StoredOnce
    <3>6. StoredOnce'
      BY <1>6, <3>1, <3>3, <3>5 DEF Sound, Apart, StoredOnce
    <3>7. Begun' = Begun \cup {e} /\ lost' \cap (InJobs' \cup EventsOf(lines')) = {}
      BY <1>6, <3>1, <3>3 DEF Sound, Apart, Begun
    <3> QED
      BY <3>1, <3>2, <3>6, <3>7 DEF Sound, TypeOK
  <2> QED
    BY <2>1, <2>2 DEF Store
<1>8. Counted'
  BY <1>1, <1>2, <1>4, <1>7 DEF Counted
<1> QED
  BY <1>1, <1>5, <1>7, <1>8

\* Cancelling the task's write moves its event to the lost ones, or nothing.
LEMMA CancelFacts ==
  ASSUME Sound, CancelWrite, UNCHANGED lines
  PROVE  /\ jobs' \subseteq Job /\ lost' \subseteq Events
         /\ Begun' = Begun /\ StoredOnce'
         /\ lost' \cap (InJobs' \cup EventsOf(lines')) = {}
         /\ \A k \in jobs' : \E j \in jobs : k.record = j.record
         /\ lost' = {} => {k.record : k \in jobs'} = {j.record : j \in jobs}
<1> DEFINE A == EventsOf({j.record : j \in Abandoned})
           Free(j) == [j EXCEPT !.for = "nobody"]
<1>1. /\ jobs' = (jobs \ (Abandoned \cup Detached)) \cup {Free(j) : j \in Detached}
      /\ lost' = lost \cup A
      /\ jobs \subseteq Job
  BY DEF CancelWrite, Sound, TypeOK
<1>2. /\ Abandoned \subseteq jobs /\ Detached \subseteq jobs
      /\ \A j \in Detached : j \notin Abandoned
  BY DEF Abandoned, Detached
<1>3. \A j \in Job : Free(j) \in Job /\ Free(j).record = j.record
  BY JobTyped
<1>4. \A i, k \in jobs : i.record.event = k.record.event => i = k
  BY DEF Sound, Apart, StoredOnce
<1>5. \A e : e \in A <=> \E j \in Abandoned : j.record.event = e
  BY DEF EventsOf
<1> HIDE DEF A, Free
<1>6. \A k \in jobs' : k \in Job /\ \E j \in jobs \ Abandoned : k.record = j.record
  BY <1>1, <1>2, <1>3
<1>7. \A j \in jobs \ Abandoned : \E k \in jobs' : k.record = j.record
  <2>1. ASSUME NEW j \in jobs \ Abandoned, j \notin Detached PROVE j \in jobs'
    BY <1>1, <2>1
  <2>2. ASSUME NEW j \in Detached PROVE Free(j) \in jobs' /\ Free(j).record = j.record
    BY <1>1, <1>2, <1>3, <2>2
  <2> QED
    BY <2>1, <2>2
<1>8. InJobs' = {j.record.event : j \in jobs \ Abandoned}
  <2>1. InJobs' = {k.record.event : k \in jobs'}
    BY DEF InJobs, EventsOf
  <2> QED
    BY <1>6, <1>7, <2>1
<1>9. InJobs' \cap A = {}
  BY <1>2, <1>4, <1>5, <1>8
<1>10. InJobs = InJobs' \cup A
  <2>1. InJobs = {j.record.event : j \in jobs}
    BY DEF InJobs, EventsOf
  <2> QED
    BY <1>2, <1>5, <1>8, <2>1
<1>11. \A i, k \in jobs' : i.record.event = k.record.event => i = k
  <2> SUFFICES ASSUME NEW i \in jobs', NEW k \in jobs', i.record.event = k.record.event
               PROVE  i = k
    OBVIOUS
  <2>1. \A x \in jobs' : \/ x \in jobs \ (Abandoned \cup Detached)
                         \/ \E j \in Detached : x = Free(j)
    BY <1>1
  <2>2. \A x \in jobs' : \E j \in jobs : /\ x.record = j.record
                                         /\ x = IF j \in Detached THEN Free(j) ELSE j
    BY <1>1, <1>2, <1>3, <2>1
  <2> QED
    BY <1>4, <2>2
<1>12. StoredOnce'
  BY <1>10, <1>11 DEF Sound, Apart, StoredOnce
<1>13. A \subseteq Events
  <2>1. \A j \in jobs : j.record.event \in Events
    BY <1>1, JobTyped
  <2> QED
    BY <1>2, <1>5, <2>1
<1>14. lost' = {} => {k.record : k \in jobs'} = {j.record : j \in jobs}
  <2> SUFFICES ASSUME lost' = {} PROVE {k.record : k \in jobs'} = {j.record : j \in jobs}
    OBVIOUS
  <2>1. Abandoned = {}
    BY <1>1, <1>5
  <2> QED
    BY <1>6, <1>7, <2>1
<1> QED
  BY <1>1, <1>6, <1>9, <1>10, <1>12, <1>13, <1>14 DEF Sound, Apart, StoredOnce, Begun, TypeOK

-----------------------------------------------------------------------------
(* Every step keeps the types, and an event in one place.                  *)

LEMMA InitSound == Init => Sound
<1> SUFFICES ASSUME Init PROVE Sound
  OBVIOUS
<1>1. TypeOK
  BY AuditAssumption, FS_CardinalityType DEF Init, TypeOK, TaskState, OwnerState
<1>2. Queued = {} /\ InJobs = {} /\ EventsOf(lines) = {} /\ Begun = {}
  BY DEF Init, Queued, InJobs, EventsOf, Begun
<1>3. Apart
  BY <1>2 DEF Init, Apart, StoredOnce, Distinct
<1>4. Counted
  BY <1>1, <1>2, Places DEF Init, Counted
<1> QED
  BY <1>1, <1>3, <1>4 DEF Sound

LEMMA SoundLogEvent ==
  ASSUME Sound, NEW e \in Events, LogEvent(e)
  PROVE  Sound'
<1>1. /\ queue' = Append(queue, e) /\ e \notin Queued \cup Begun \cup {held}
      /\ inTime' \subseteq inTime \cup {e}
      /\ UNCHANGED <<seqCounter, lastHash, task, held, owner, jobs, lines, failures,
                     restarts, lost>>
  BY DEF LogEvent, Fresh, Begun
<1>2. queue \in Seq(Events) /\ Queued = ItemsOf(queue) /\ Queued' = ItemsOf(queue')
  BY DEF Sound, TypeOK, Queued, ItemsOf
<1>3. queue' \in Seq(Events) /\ Queued' = Queued \cup {e} /\ Distinct(queue')
  BY <1>1, <1>2, QueueAppended DEF Sound, Apart
<1>4. Begun' = Begun /\ InJobs' = InJobs
  BY <1>1 DEF Begun, InJobs, EventsOf
<1>5. TypeOK'
  BY <1>1, <1>3 DEF Sound, TypeOK
<1>6. Apart'
  <2>1. held' \notin Queued' \cup Begun'
    BY <1>1, <1>3, <1>4 DEF Sound, Apart
  <2>2. Queued' \cap Begun' = {}
    BY <1>1, <1>3, <1>4 DEF Sound, Apart
  <2> QED
    BY <1>1, <1>3, <1>4, <2>1, <2>2 DEF Sound, Apart, StoredOnce, EventsOf
<1> QED
  BY <1>1, <1>4, <1>5, <1>6 DEF Sound, Counted

\* Whoever takes the first event of the queue leaves the rest.
LEMMA Taken ==
  ASSUME Sound, queue # <<>>, queue' = Remaining
  PROVE  /\ queue' \in Seq(Events) /\ Distinct(queue')
         /\ Queued = Queued' \cup {Head(queue)}
         /\ Head(queue) \in Events /\ Head(queue) \in Queued /\ Head(queue) \notin Queued'
         /\ Head(queue) \notin Begun \cup {held}
<1>1. queue \in Seq(Events) /\ Distinct(queue)
      /\ Queued = ItemsOf(queue) /\ Queued' = ItemsOf(queue')
  BY DEF Sound, TypeOK, Apart, Queued, ItemsOf
<1>2. /\ Head(queue) \in ItemsOf(queue) /\ Head(queue) \in Events
      /\ queue' \in Seq(Events) /\ Distinct(queue')
      /\ ItemsOf(queue) = ItemsOf(queue') \cup {Head(queue)}
      /\ Head(queue) \notin ItemsOf(queue')
  BY <1>1, QueueTail DEF Remaining
<1> QED
  BY <1>1, <1>2 DEF Sound, Apart

LEMMA SoundTaskTakes ==
  ASSUME Sound, TaskTakes
  PROVE  Sound'
<1>1. /\ task = "waits" /\ queue # <<>> /\ task' = "took" /\ held' = Head(queue)
      /\ queue' = Remaining
      /\ UNCHANGED <<seqCounter, lastHash, owner, jobs, lines, failures, restarts, inTime, lost>>
  BY DEF TaskTakes
<1>2. /\ queue' \in Seq(Events) /\ Distinct(queue')
      /\ Queued = Queued' \cup {held'}
      /\ held' \in Events /\ held' \notin Queued' /\ held' \notin Begun
  BY <1>1, Taken
<1>3. Begun' = Begun /\ InJobs' = InJobs /\ EventsOf(lines') = EventsOf(lines)
  BY <1>1 DEF Begun, InJobs, EventsOf
<1>4. TypeOK'
  BY <1>1, <1>2 DEF Sound, TypeOK, TaskState
<1>5. held' # NoEvent
  BY <1>2, AuditAssumption
<1>6. Apart'
  BY <1>1, <1>2, <1>3, <1>5 DEF Sound, Apart, StoredOnce
<1> QED
  BY <1>1, <1>3, <1>4, <1>6 DEF Sound, Counted

LEMMA SoundTaskStores ==
  ASSUME Sound, TaskStores
  PROVE  Sound'
<1>1. /\ task = "took" /\ task' = "stores" /\ held' = NoEvent /\ Store(held, "task")
      /\ UNCHANGED <<queue, owner, lines, restarts, inTime>>
  BY DEF TaskStores
<1>2. held \in Events /\ held \notin Begun /\ held \notin Queued
  BY <1>1 DEF Sound, TypeOK, Apart
<1>3. /\ jobs' \subseteq Job /\ Begun' = Begun \cup {held}
      /\ lost' \subseteq Events /\ lost' \cap (InJobs' \cup EventsOf(lines')) = {}
      /\ failures' \in 0 .. MaxFailures
      /\ StoredOnce' /\ Counted'
      /\ seqCounter' \in 0 .. Cardinality(Events) /\ lastHash' \in Events \cup {NoEvent}
  BY <1>1, <1>2, StoreFacts
<1>4. TypeOK'
  BY <1>1, <1>3 DEF Sound, TypeOK, TaskState
<1>5. Queued' = Queued
  BY <1>1 DEF Queued
<1>6. NoEvent \notin Queued' \cup Begun'
  BY <1>2, <1>3, <1>5, Places, AuditAssumption DEF Sound
<1>7. Apart'
  BY <1>1, <1>2, <1>3, <1>5, <1>6 DEF Sound, Apart
<1> QED
  BY <1>3, <1>4, <1>7 DEF Sound

LEMMA SoundDrainStores ==
  ASSUME Sound, DrainStores
  PROVE  Sound'
<1> DEFINE e == Head(queue)
<1>1. /\ queue # <<>> /\ queue' = Remaining /\ Store(e, "owner")
      /\ UNCHANGED <<task, held, owner, lines, restarts, inTime>>
  BY DEF DrainStores
<1>2. /\ queue' \in Seq(Events) /\ Distinct(queue') /\ Queued = Queued' \cup {e}
      /\ e \in Events /\ e \notin Queued' /\ e \notin Begun /\ e # held
  BY <1>1, Taken
<1> HIDE DEF e
<1>3. /\ jobs' \subseteq Job /\ Begun' = Begun \cup {e}
      /\ lost' \subseteq Events /\ lost' \cap (InJobs' \cup EventsOf(lines')) = {}
      /\ failures' \in 0 .. MaxFailures
      /\ StoredOnce' /\ Counted'
      /\ seqCounter' \in 0 .. Cardinality(Events) /\ lastHash' \in Events \cup {NoEvent}
  BY <1>1, <1>2, StoreFacts
<1>4. TypeOK'
  BY <1>1, <1>2, <1>3 DEF Sound, TypeOK
<1>5. Apart'
  BY <1>1, <1>2, <1>3 DEF Sound, Apart
<1> QED
  BY <1>3, <1>4, <1>5 DEF Sound

LEMMA SoundCancel ==
  ASSUME Sound, CancelTask \/ CancelAgain
  PROVE  Sound'
<1>1. /\ CancelWrite /\ task' \in {task, "done"} /\ (task' = "took" <=> task = "took")
      /\ owner' \in {owner, "cancels"}
      /\ UNCHANGED <<queue, seqCounter, lastHash, held, lines, failures, restarts, inTime>>
  BY DEF CancelTask, CancelAgain
<1>2. /\ jobs' \subseteq Job /\ lost' \subseteq Events
      /\ Begun' = Begun /\ StoredOnce'
      /\ lost' \cap (InJobs' \cup EventsOf(lines')) = {}
  BY <1>1, CancelFacts
<1>3. TypeOK'
  BY <1>1, <1>2 DEF Sound, TypeOK, TaskState, OwnerState
<1>4. Queued' = Queued
  BY <1>1 DEF Queued
<1>5. Apart'
  BY <1>1, <1>2, <1>4 DEF Sound, Apart
<1> QED
  BY <1>1, <1>2, <1>3, <1>5 DEF Sound, Counted

LEMMA SoundJobStarts ==
  ASSUME Sound, NEW j \in jobs, JobStarts(j)
  PROVE  Sound' /\ {k.record : k \in jobs'} = {k.record : k \in jobs}
<1> DEFINE s == [j EXCEPT !.started = TRUE]
<1>1. /\ jobs' = (jobs \ {j}) \cup {s}
      /\ UNCHANGED <<queue, seqCounter, lastHash, task, held, owner, lines, failures,
                     restarts, inTime, lost>>
  BY DEF JobStarts
<1>2. s \in Job /\ s.record = j.record
  BY JobTyped DEF Sound, TypeOK
<1> HIDE DEF s
<1>3. {k.record : k \in jobs'} = {k.record : k \in jobs}
  BY <1>1, <1>2
<1>4. InJobs' = InJobs /\ Begun' = Begun /\ Queued' = Queued /\ EventsOf(lines') = EventsOf(lines)
  BY <1>1, <1>3 DEF InJobs, Begun, Queued, EventsOf
<1>5. TypeOK'
  BY <1>1, <1>2 DEF Sound, TypeOK
<1>6. \A i, k \in jobs' : i.record.event = k.record.event => i = k
  BY <1>1, <1>2 DEF Sound, Apart, StoredOnce
<1>7. Apart'
  BY <1>1, <1>4, <1>6 DEF Sound, Apart, StoredOnce
<1> QED
  BY <1>1, <1>3, <1>4, <1>5, <1>7 DEF Sound, Counted

LEMMA SoundJobEnds ==
  ASSUME Sound, NEW j \in jobs, JobWrites(j) \/ JobFails(j)
  PROVE  Sound'
<1> DEFINE e == j.record.event
<1>1. /\ jobs' = jobs \ {j}
      /\ \/ lines' = lines \cup {j.record} /\ UNCHANGED <<lost, failures>>
         \/ lost' = lost \cup {e} /\ lines' = lines
            /\ failures < MaxFailures /\ failures' = failures + 1
      /\ UNCHANGED <<queue, seqCounter, lastHash, task, held, owner, restarts, inTime>>
  BY DEF JobWrites, JobFails
<1>2. j.record \in Record /\ e \in Events
  BY JobTyped DEF Sound, TypeOK
<1>3. TypeOK'
  BY <1>1, <1>2, AuditAssumption DEF Sound, TypeOK
<1>4. InJobs' = InJobs \ {e} /\ e \in InJobs
  <2>1. \A k \in jobs : k.record.event = e => k = j
    BY DEF Sound, Apart, StoredOnce
  <2>2. InJobs' = {k.record.event : k \in jobs'} /\ InJobs = {k.record.event : k \in jobs}
    BY DEF InJobs, EventsOf
  <2> QED
    BY <1>1, <2>1, <2>2
<1>5. e \notin EventsOf(lines) /\ e \notin lost
  BY <1>4 DEF Sound, Apart, StoredOnce
<1>6. \/ EventsOf(lines') = EventsOf(lines) \cup {e} /\ lost' = lost
      \/ EventsOf(lines') = EventsOf(lines) /\ lost' = lost \cup {e}
  BY <1>1 DEF EventsOf
<1>7. Begun' = Begun /\ Queued' = Queued
  BY <1>1, <1>4, <1>6 DEF Begun, Queued
<1>8. StoredOnce'
  <2>1. \A r, s \in lines' : r.event = s.event => r = s
    BY <1>1, <1>5, JobsOf DEF Sound, Apart, StoredOnce
  <2>2. InJobs' \cap EventsOf(lines') = {}
    BY <1>4, <1>6 DEF Sound, Apart, StoredOnce
  <2> QED
    BY <1>1, <2>1, <2>2 DEF Sound, Apart, StoredOnce
<1>9. Apart'
  BY <1>1, <1>4, <1>5, <1>6, <1>7, <1>8 DEF Sound, Apart
<1> QED
  BY <1>1, <1>3, <1>7, <1>9 DEF Sound, Counted

LEMMA SoundNewTrail ==
  ASSUME Sound, Reset \/ Crash
  PROVE  Sound'
<1>1. /\ restarts < MaxRestarts /\ restarts' = restarts + 1
      /\ queue' = <<>> /\ seqCounter' = 0 /\ lastHash' = NoEvent
      /\ task' = "none" /\ held' = NoEvent /\ owner' = "ready"
      /\ UNCHANGED <<lines, failures, inTime>>
      /\ \/ task = "none" /\ lost' = lost \cup Queued /\ jobs' = jobs
         \/ lost' = lost \cup Queued \cup InJobs \cup ({held} \ {NoEvent}) /\ jobs' = {}
  BY DEF Reset, Crash, NewTrail
<1>2. /\ Queued \subseteq Events /\ InJobs \subseteq Events /\ NoEvent \notin Queued \cup Begun
      /\ Cardinality(Events) \in Nat
  BY Places DEF Sound, Begun
<1>3. TypeOK'
  BY <1>1, <1>2, AuditAssumption DEF Sound, TypeOK, TaskState, OwnerState
<1>4. Queued' = {} /\ EventsOf(lines') = EventsOf(lines) /\ Distinct(queue')
  BY <1>1 DEF Queued, EventsOf, Distinct
<1>5. InJobs' = InJobs \/ InJobs' = {}
  BY <1>1 DEF InJobs, EventsOf
<1>6. Begun' = Begun \cup Queued \/ Begun' = Begun \cup Queued \cup ({held} \ {NoEvent})
  <2>1. CASE task = "none" /\ lost' = lost \cup Queued /\ jobs' = jobs
    <3>1. InJobs' = InJobs
      BY <2>1 DEF InJobs
    <3> QED
      BY <2>1, <3>1, <1>4 DEF Begun
  <2>2. CASE lost' = lost \cup Queued \cup InJobs \cup ({held} \ {NoEvent}) /\ jobs' = {}
    <3>1. InJobs' = {}
      BY <2>2 DEF InJobs, EventsOf
    <3> QED
      BY <2>2, <3>1, <1>4 DEF Begun
  <2> QED
    BY <1>1, <2>1, <2>2
<1>7. lost' \cap (InJobs' \cup EventsOf(lines')) = {}
  <2>1. CASE task = "none" /\ lost' = lost \cup Queued /\ jobs' = jobs
    <3>1. InJobs' = InJobs
      BY <2>1 DEF InJobs
    <3> QED
      BY <2>1, <3>1, <1>4 DEF Begun, Sound, Apart
  <2>2. CASE lost' = lost \cup Queued \cup InJobs \cup ({held} \ {NoEvent}) /\ jobs' = {}
    <3>1. InJobs' = {}
      BY <2>2 DEF InJobs, EventsOf
    <3> QED
      BY <2>2, <3>1, <1>4 DEF Begun, Sound, Apart, StoredOnce
  <2> QED
    BY <1>1, <2>1, <2>2
<1>8. StoredOnce'
  BY <1>1, <1>4, <1>5 DEF Sound, Apart, StoredOnce
<1>9. Apart'
  BY <1>1, <1>2, <1>4, <1>6, <1>7, <1>8 DEF Apart
<1>10. Counted'
  <2>1. Begun \in SUBSET Events /\ held \in Events \cup {NoEvent}
    BY Places DEF Sound, TypeOK
  <2>2. Begun' \in SUBSET Events
    BY <1>2, <1>6, <2>1
  <2>3. Cardinality(Begun') \in Nat
    BY <2>2, AuditAssumption, FS_Subset, FS_CardinalityType
  <2> QED
    BY <1>1, <2>3 DEF Counted
<1> QED
  BY <1>3, <1>9, <1>10 DEF Sound

LEMMA SoundOtherwise ==
  ASSUME Sound,
         \/ Start \/ BeginDrain \/ TaskLoops \/ DrainReturns \/ StopReturns
         \/ UNCHANGED trailVars
  PROVE  Sound'
<1>1. /\ UNCHANGED <<queue, seqCounter, lastHash, held, jobs, lines, failures, restarts,
                     inTime, lost>>
      /\ task' \in TaskState /\ owner' \in OwnerState
      /\ (task' = "took" <=> task = "took")
  BY DEF Start, BeginDrain, TaskLoops, DrainReturns, StopReturns, AtLoopHead, trailVars,
         Sound, TypeOK, TaskState, OwnerState
<1>2. TypeOK'
  BY <1>1 DEF Sound, TypeOK
<1>3. Queued' = Queued /\ InJobs' = InJobs /\ EventsOf(lines') = EventsOf(lines) /\ Begun' = Begun
  BY <1>1 DEF Queued, InJobs, EventsOf, Begun
<1>4. Apart'
  BY <1>1, <1>3 DEF Sound, Apart, StoredOnce
<1> QED
  BY <1>1, <1>2, <1>3, <1>4 DEF Sound, Counted

\* The steps, grouped by what they do with the events.
LEMMA Steps ==
  ASSUME [Next]_trailVars
  PROVE  \/ \E e \in Events : LogEvent(e)
         \/ TaskTakes \/ TaskStores \/ DrainStores
         \/ CancelTask \/ CancelAgain
         \/ \E j \in jobs : JobStarts(j)
         \/ \E j \in jobs : JobWrites(j) \/ JobFails(j)
         \/ Reset \/ Crash
         \/ Start \/ BeginDrain \/ TaskLoops \/ DrainReturns \/ StopReturns
         \/ UNCHANGED trailVars
  BY Zenon DEF Next, TaskStep, OwnerStep, PoolStep

LEMMA SoundStep == Sound /\ [Next]_trailVars => Sound'
<1> SUFFICES ASSUME Sound, [Next]_trailVars PROVE Sound'
  OBVIOUS
<1>1. ASSUME NEW e \in Events, LogEvent(e) PROVE Sound'
  BY <1>1, SoundLogEvent
<1>2. CASE TaskTakes
  BY <1>2, SoundTaskTakes
<1>3. CASE TaskStores
  BY <1>3, SoundTaskStores
<1>4. CASE DrainStores
  BY <1>4, SoundDrainStores
<1>5. CASE CancelTask \/ CancelAgain
  BY <1>5, SoundCancel
<1>6. ASSUME NEW j \in jobs, JobStarts(j) PROVE Sound'
  BY <1>6, SoundJobStarts
<1>7. ASSUME NEW j \in jobs, JobWrites(j) \/ JobFails(j) PROVE Sound'
  BY <1>7, SoundJobEnds
<1>8. CASE Reset \/ Crash
  BY <1>8, SoundNewTrail
<1>9. CASE \/ Start \/ BeginDrain \/ TaskLoops \/ DrainReturns \/ StopReturns
           \/ UNCHANGED trailVars
  BY <1>9, SoundOtherwise
<1> QED
  BY <1>1, <1>2, <1>3, <1>4, <1>5, <1>6, <1>7, <1>8, <1>9, Steps

LEMMA AlwaysSound == Spec => []Sound
<1> QED
  BY InitSound, SoundStep, PTL DEF Spec

(***************************************************************************)
(* The state of a trail keeps its shape; in particular no trail numbers    *)
(* more events than there are.                                             *)
(***************************************************************************)
THEOREM AuditTypeCorrect == Spec => []TypeOK
<1>1. Sound => TypeOK
  BY DEF Sound
<1> QED
  BY <1>1, AlwaysSound, PTL

(***************************************************************************)
(* However the task, drains, cancelled writes, resets and crashes          *)
(* interleave, no event gets two lines, or a line and a write.             *)
(***************************************************************************)
THEOREM EventsAreStoredOnce == Spec => []StoredOnce
<1>1. Sound => StoredOnce
  BY DEF Sound, Apart
<1> QED
  BY <1>1, AlwaysSound, PTL

-----------------------------------------------------------------------------
(***************************************************************************)
(* An event logged in time is always somewhere, so it is not logged again; *)
(* and while stop() waits for the task, what is queued came too late.      *)
(***************************************************************************)
Kept == inTime \subseteq Queued \cup {held} \cup Begun

Late == owner = "cancels" => inTime \cap Queued = {}

LEMMA KeptStep == Sound /\ Kept /\ Late /\ [Next]_trailVars => Kept' /\ Late'
<1> SUFFICES ASSUME Sound, Kept, Late, [Next]_trailVars PROVE Kept' /\ Late'
  OBVIOUS
<1>1. /\ Queued = ItemsOf(queue) /\ Queued' = ItemsOf(queue')
      /\ queue \in Seq(Events) /\ NoEvent \notin inTime
  BY AuditAssumption DEF Sound, TypeOK, Queued, ItemsOf
<1>2. ASSUME NEW e \in Events, LogEvent(e) PROVE Kept' /\ Late'
  <2>1. /\ queue' = Append(queue, e) /\ e \notin Queued \cup Begun \cup {held}
        /\ inTime' = IF task # "none" /\ ~Stopping THEN inTime \cup {e} ELSE inTime
        /\ UNCHANGED <<held, owner, jobs, lines, lost>>
    BY <1>2 DEF LogEvent, Fresh, Begun
  <2>2. Queued' = Queued \cup {e}
    BY <1>1, <2>1, QueueAppended
  <2>3. Begun' = Begun
    BY <2>1 DEF Begun, InJobs, EventsOf
  <2>4. Kept'
    BY <2>1, <2>2, <2>3 DEF Kept
  <2>5. e \notin inTime
    BY <2>1 DEF Kept
  <2>6. owner = "cancels" => inTime' = inTime
    BY <2>1 DEF Stopping
  <2> QED
    BY <2>1, <2>2, <2>4, <2>5, <2>6 DEF Late
<1>3. CASE TaskTakes
  <2>1. /\ task = "waits" /\ queue # <<>> /\ queue' = Remaining /\ held' = Head(queue)
        /\ UNCHANGED <<inTime, owner, jobs, lines, lost>>
    BY <1>3 DEF TaskTakes
  <2>2. Queued = Queued' \cup {held'}
    BY <2>1, Taken
  <2>3. Begun' = Begun /\ held = NoEvent
    BY <2>1 DEF Begun, InJobs, EventsOf, Sound, Apart
  <2> QED
    BY <1>1, <2>1, <2>2, <2>3 DEF Kept, Late
<1>4. CASE TaskStores
  <2>1. /\ task = "took" /\ held' = NoEvent /\ Store(held, "task")
        /\ UNCHANGED <<queue, owner, lines, restarts, inTime>>
    BY <1>4 DEF TaskStores
  <2>2. held \in Events /\ held \notin Begun
    BY <2>1 DEF Sound, TypeOK, Apart
  <2>3. Begun' = Begun \cup {held} /\ Queued' = Queued
    BY <2>1, <2>2, StoreFacts DEF Queued
  <2> QED
    BY <2>1, <2>3 DEF Kept, Late
<1>5. CASE DrainStores
  <2>1. /\ queue # <<>> /\ queue' = Remaining /\ Store(Head(queue), "owner")
        /\ UNCHANGED <<held, owner, lines, restarts, inTime>>
    BY <1>5 DEF DrainStores
  <2>2. /\ Queued = Queued' \cup {Head(queue)}
        /\ Head(queue) \in Events /\ Head(queue) \notin Begun
    BY <2>1, Taken
  <2>3. Begun' = Begun \cup {Head(queue)}
    BY <2>1, <2>2, StoreFacts
  <2> QED
    BY <2>1, <2>2, <2>3 DEF Kept, Late
<1>6. CASE CancelTask \/ CancelAgain
  <2>1. /\ CancelWrite /\ (owner' = owner \/ queue = <<>>)
        /\ UNCHANGED <<queue, held, lines, inTime>>
    BY <1>6 DEF CancelTask, CancelAgain, Drained
  <2>2. Begun' = Begun /\ Queued' = Queued
    BY <2>1, CancelFacts DEF Queued
  <2>3. queue = <<>> => Queued = {}
    BY DEF Queued
  <2> QED
    BY <2>1, <2>2, <2>3 DEF Kept, Late
<1>7. ASSUME NEW j \in jobs, JobStarts(j) PROVE Kept' /\ Late'
  <2>1. {k.record : k \in jobs'} = {k.record : k \in jobs}
    BY <1>7, SoundJobStarts
  <2>2. UNCHANGED <<queue, held, owner, lines, inTime, lost>>
    BY <1>7 DEF JobStarts
  <2>3. Begun' = Begun /\ Queued' = Queued
    BY <2>1, <2>2 DEF Begun, InJobs, Queued, EventsOf
  <2> QED
    BY <2>2, <2>3 DEF Kept, Late
<1>8. ASSUME NEW j \in jobs, JobWrites(j) \/ JobFails(j) PROVE Kept' /\ Late'
  <2>1. /\ jobs' = jobs \ {j} /\ lines \subseteq lines' /\ lost \subseteq lost'
        /\ j.record \in lines' \/ j.record.event \in lost'
        /\ UNCHANGED <<queue, held, owner, inTime>>
    BY <1>8 DEF JobWrites, JobFails
  <2>2. Begun \subseteq Begun' /\ Queued' = Queued
    BY <2>1 DEF Begun, InJobs, EventsOf, Queued
  <2> QED
    BY <2>1, <2>2 DEF Kept, Late
<1>9. CASE Reset \/ Crash
  <2>1. /\ owner' = "ready" /\ held' = NoEvent
        /\ UNCHANGED <<lines, inTime>>
        /\ \/ task = "none" /\ lost' = lost \cup Queued /\ jobs' = jobs
           \/ lost' = lost \cup Queued \cup InJobs \cup ({held} \ {NoEvent})
    BY <1>9 DEF Reset, Crash, NewTrail
  <2>2. task = "none" => held = NoEvent
    BY DEF Sound, Apart
  <2>3. CASE task = "none" /\ lost' = lost \cup Queued /\ jobs' = jobs
    <3>1. Queued \cup Begun \subseteq Begun'
      BY <2>1, <2>3 DEF Begun, InJobs, EventsOf
    <3> QED
      BY <1>1, <2>1, <2>2, <2>3, <3>1 DEF Kept, Late
  <2>4. CASE lost' = lost \cup Queued \cup InJobs \cup ({held} \ {NoEvent})
    <3>1. Queued \cup Begun \cup ({held} \ {NoEvent}) \subseteq Begun'
      BY <2>1, <2>4 DEF Begun, EventsOf
    <3> QED
      BY <1>1, <2>1, <3>1 DEF Kept, Late
  <2> QED
    BY <2>1, <2>3, <2>4
<1>10. CASE \/ Start \/ BeginDrain \/ TaskLoops \/ DrainReturns \/ StopReturns
            \/ UNCHANGED trailVars
  <2>1. /\ UNCHANGED <<queue, held, jobs, lines, inTime, lost>>
        /\ owner' = "cancels" => owner = "cancels"
    BY <1>10 DEF Start, BeginDrain, TaskLoops, DrainReturns, StopReturns, trailVars
  <2>2. Begun' = Begun /\ Queued' = Queued
    BY <2>1 DEF Begun, InJobs, EventsOf, Queued
  <2> QED
    BY <2>1, <2>2 DEF Kept, Late
<1> QED
  BY <1>2, <1>3, <1>4, <1>5, <1>6, <1>7, <1>8, <1>9, <1>10, Steps

LEMMA AlwaysKept == Spec => [](Sound /\ Kept /\ Late)
<1>1. Init => Kept /\ Late
  BY DEF Init, Kept, Late
<1> QED
  BY <1>1, KeptStep, AlwaysSound, PTL DEF Spec

(***************************************************************************)
(* stop() returns with every event logged before it began numbered: none   *)
(* is left in the queue or in the hands of the task.                       *)
(***************************************************************************)
THEOREM StopLeavesNothing == Spec => StopDrains
<1>1. Sound /\ Kept /\ Late => (StopReturns => inTime \cap (Queued \cup {held}) = {})
  <2> SUFFICES ASSUME Sound, Late, StopReturns PROVE inTime \cap (Queued \cup {held}) = {}
    OBVIOUS
  <2>1. owner = "cancels" /\ task # "took"
    BY DEF StopReturns
  <2>2. held = NoEvent /\ NoEvent \notin inTime
    BY <2>1, AuditAssumption DEF Sound, Apart, TypeOK
  <2> QED
    BY <2>1, <2>2 DEF Late
<1> QED
  BY <1>1, AlwaysKept, PTL DEF StopDrains

-----------------------------------------------------------------------------
(***************************************************************************)
(* The chain.  The records of the present trail, in its files or on their  *)
(* way, are numbered apart, each names the one numbered before it, and     *)
(* only a lost write leaves a number out.                                  *)
(***************************************************************************)
Records == {j.record : j \in jobs} \cup lines
Mine == {r \in Records : r.trail = restarts}

Chained ==
  /\ \A r \in Records : r.trail <= restarts
  /\ \A r \in Mine : r.seq <= seqCounter
  /\ \A r, s \in Mine : r.seq = s.seq => r = s
  /\ \A r \in Mine : r.seq = 1 => r.prev = NoEvent
  /\ \A r, s \in Mine : r.seq = s.seq + 1 => r.prev = s.event
  /\ \A r \in Mine : r.seq = seqCounter => r.event = lastHash
  /\ seqCounter = 0 => lastHash = NoEvent
  /\ lost = {} => \A n \in 1 .. seqCounter : \E r \in Mine : r.seq = n

LEMMA RecordsTyped ==
  ASSUME TypeOK
  PROVE  \A r \in Records : /\ r \in Record /\ r.seq \in 1 .. Cardinality(Events)
                            /\ r.seq \in Nat /\ r.trail \in Nat
<1>1. Cardinality(Events) \in Nat
  BY AuditAssumption, FS_CardinalityType
<1>2. \A r \in Records : r \in Record
  BY DEF TypeOK, Records, Job
<1> QED
  BY <1>1, <1>2 DEF Record

\* Nothing is added to what the trail has under way or in its files.
LEMMA ChainShrinks ==
  ASSUME Chained, Records' \subseteq Records, lost' = {} => lost = {} /\ Records' = Records,
         UNCHANGED <<seqCounter, lastHash, restarts>>
  PROVE  Chained'
<1>1. Mine' \subseteq Mine /\ (lost' = {} => Mine' = Mine)
  BY DEF Mine
<1> QED
  BY <1>1 DEF Chained

\* A number is used for an event that is not chained.
LEMMA ChainSkips ==
  ASSUME Sound, Chained, NEW e, Unserializable(e), UNCHANGED <<lines, restarts>>
  PROVE  Chained'
<1>1. /\ seqCounter' = seqCounter + 1 /\ lost' = lost \cup {e}
      /\ UNCHANGED <<lastHash, jobs, lines, restarts>>
  BY DEF Unserializable, NextNumber
<1>2. seqCounter \in Nat /\ lost' # {}
  BY <1>1, AuditAssumption, FS_CardinalityType DEF Sound, TypeOK
<1>3. Records' = Records /\ Mine' = Mine
  BY <1>1 DEF Records, Mine
<1>4. \A r \in Mine : r.seq \in Nat /\ r.seq <= seqCounter
  BY RecordsTyped DEF Sound, Mine, Chained
<1>5. \A r \in Mine' : r.seq <= seqCounter' /\ r.seq # seqCounter'
  BY <1>1, <1>2, <1>3, <1>4
<1>6. seqCounter' # 0
  BY <1>1, <1>2
<1> QED
  BY <1>1, <1>2, <1>3, <1>5, <1>6 DEF Chained

LEMMA ChainGrows ==
  ASSUME Sound, Chained, NEW e, NEW who, Chain(e, who), UNCHANGED <<lines, restarts>>
  PROVE  Chained'
<1> DEFINE x == [event |-> e, seq |-> seqCounter + 1, prev |-> lastHash, trail |-> restarts]
<1>1. seqCounter \in Nat /\ restarts \in Nat
  BY AuditAssumption, FS_CardinalityType DEF Sound, TypeOK
<1>2. seqCounter' = seqCounter + 1 /\ lastHash' = e /\ lost' = lost
  BY DEF Chain, NextNumber
<1>3. Records' = Records \cup {x}
  <2>1. PICK b \in BOOLEAN :
          jobs' = jobs \cup {[record |-> x, for |-> who, started |-> b]}
    BY DEF Chain, NextNumber, PreviousHash
  <2> DEFINE j == [record |-> x, for |-> who, started |-> b]
  <2>2. j.record = x /\ jobs' = jobs \cup {j} /\ lines' = lines
    BY <2>1
  <2> HIDE DEF j, x
  <2> QED
    BY <2>2 DEF Records
<1>4. x.event = e /\ x.seq = seqCounter + 1 /\ x.prev = lastHash /\ x.trail = restarts
  OBVIOUS
<1> HIDE DEF x
<1>5. Mine' = Mine \cup {x}
  BY <1>3, <1>4 DEF Mine
<1>6. \A r \in Mine : r \in Records /\ r.seq \in Nat /\ r.seq >= 1 /\ r.seq <= seqCounter
  BY <1>1, RecordsTyped DEF Sound, Mine, Chained
<1>7. \A r \in Records' : r.trail <= restarts'
  BY <1>1, <1>3, <1>4 DEF Chained
<1>8. \A r \in Mine' : r.seq <= seqCounter'
  BY <1>1, <1>2, <1>4, <1>5, <1>6
<1>9. \A r, s \in Mine' : r.seq = s.seq => r = s
  BY <1>1, <1>4, <1>5, <1>6 DEF Chained
<1>10. \A r \in Mine' : r.seq = 1 => r.prev = NoEvent
  <2>1. x.seq = 1 => x.prev = NoEvent
    BY <1>1, <1>4 DEF Chained
  <2> QED
    BY <1>5, <2>1 DEF Chained
<1>11. \A r, s \in Mine' : r.seq = s.seq + 1 => r.prev = s.event
  <2>1. ASSUME NEW r \in Mine', NEW s \in Mine', r.seq = s.seq + 1 PROVE r.prev = s.event
    <3>1. s \in Mine
      BY <1>1, <1>4, <1>5, <1>6, <2>1
    <3>2. CASE r \in Mine
      BY <2>1, <3>1, <3>2 DEF Chained
    <3>3. CASE r = x
      <4>1. s.seq = seqCounter
        BY <1>1, <1>4, <1>6, <2>1, <3>1, <3>3
      <4> QED
        BY <1>4, <3>1, <3>3, <4>1 DEF Chained
    <3> QED
      BY <1>5, <3>2, <3>3
  <2> QED
    BY <2>1
<1>12. \A r \in Mine' : r.seq = seqCounter' => r.event = lastHash'
  BY <1>1, <1>2, <1>4, <1>5, <1>6
<1>13. lost' = {} => \A n \in 1 .. seqCounter' : \E r \in Mine' : r.seq = n
  <2>1. ASSUME lost' = {}, NEW n \in 1 .. seqCounter' PROVE \E r \in Mine' : r.seq = n
    <3>1. CASE n = seqCounter + 1
      BY <1>4, <1>5, <3>1
    <3>2. CASE n \in 1 .. seqCounter
      BY <1>2, <1>5, <2>1, <3>2 DEF Chained
    <3> QED
      BY <1>1, <1>2, <2>1, <3>1, <3>2
  <2> QED
    BY <2>1
<1>14. seqCounter' # 0
  BY <1>1, <1>2
<1> QED
  BY <1>7, <1>8, <1>9, <1>10, <1>11, <1>12, <1>13, <1>14 DEF Chained

LEMMA ChainedStep == Sound /\ Chained /\ [Next]_trailVars => Chained'
<1> SUFFICES ASSUME Sound, Chained, [Next]_trailVars PROVE Chained'
  OBVIOUS
<1>1. CASE TaskStores
  BY <1>1, ChainGrows, ChainSkips DEF TaskStores, Store
<1>2. CASE DrainStores
  BY <1>2, ChainGrows, ChainSkips DEF DrainStores, Store
<1>3. CASE CancelTask \/ CancelAgain
  <2>1. CancelWrite /\ UNCHANGED <<seqCounter, lastHash, lines, restarts>>
    BY <1>3 DEF CancelTask, CancelAgain
  <2>2. /\ \A k \in jobs' : \E j \in jobs : k.record = j.record
        /\ lost' = {} => {k.record : k \in jobs'} = {j.record : j \in jobs}
    BY <2>1, CancelFacts
  <2>3. lost \subseteq lost'
    BY <2>1 DEF CancelWrite
  <2>4. Records' \subseteq Records /\ (lost' = {} => lost = {} /\ Records' = Records)
    BY <2>1, <2>2, <2>3 DEF Records
  <2> QED
    BY <2>1, <2>4, ChainShrinks
<1>4. ASSUME NEW j \in jobs, JobStarts(j) PROVE Chained'
  <2>1. {k.record : k \in jobs'} = {k.record : k \in jobs}
    BY <1>4, SoundJobStarts
  <2>2. UNCHANGED <<seqCounter, lastHash, lines, restarts, lost>>
    BY <1>4 DEF JobStarts
  <2>3. Records' = Records
    BY <2>1, <2>2 DEF Records
  <2> QED
    BY <2>2, <2>3, ChainShrinks
<1>5. ASSUME NEW j \in jobs, JobWrites(j) \/ JobFails(j) PROVE Chained'
  <2>1. /\ jobs' = jobs \ {j}
        /\ \/ lines' = lines \cup {j.record} /\ lost' = lost
           \/ lines' = lines /\ lost' # {}
        /\ UNCHANGED <<seqCounter, lastHash, restarts>>
    BY <1>5 DEF JobWrites, JobFails
  <2>2. Records' \subseteq Records /\ (lost' = {} => lost = {} /\ Records' = Records)
    BY <2>1 DEF Records
  <2> QED
    BY <2>1, <2>2, ChainShrinks
<1>6. CASE Reset \/ Crash
  <2>1. /\ restarts' = restarts + 1 /\ seqCounter' = 0 /\ lastHash' = NoEvent
        /\ lines' = lines /\ (jobs' = jobs \/ jobs' = {})
    BY <1>6 DEF Reset, Crash, NewTrail
  <2>2. Records' \subseteq Records /\ restarts \in Nat
    BY <2>1 DEF Records, Sound, TypeOK
  <2>3. \A r \in Records : r.trail \in Nat /\ r.trail <= restarts
    BY RecordsTyped DEF Sound, Chained
  <2>4. (\A r \in Records' : r.trail <= restarts') /\ Mine' = {}
    BY <2>1, <2>2, <2>3 DEF Mine
  <2> QED
    BY <2>1, <2>4 DEF Chained
<1>7. CASE \/ \E e \in Events : LogEvent(e)
           \/ TaskTakes
           \/ Start \/ BeginDrain \/ TaskLoops \/ DrainReturns \/ StopReturns
           \/ UNCHANGED trailVars
  <2>1. UNCHANGED <<seqCounter, lastHash, jobs, lines, restarts, lost>>
    BY <1>7 DEF LogEvent, TaskTakes, Start, BeginDrain, TaskLoops, DrainReturns, StopReturns,
                trailVars
  <2>2. Records' = Records
    BY <2>1 DEF Records
  <2> QED
    BY <2>1, <2>2, ChainShrinks
<1> QED
  BY <1>1, <1>2, <1>3, <1>4, <1>5, <1>6, <1>7, Steps

\* A quiet trail with a record for each number verifies, and one that has
\* lost nothing has them.
LEMMA QuietChain == Sound /\ Chained => QuietTrailVerifies
<1> SUFFICES ASSUME Sound, Chained, jobs = {}
             PROVE  /\ Cardinality(Written) = seqCounter => Verifies(Written)
                    /\ lost = {} => Cardinality(Written) = seqCounter
  BY DEF QuietTrailVerifies
<1>1. Mine = Written
  BY DEF Mine, Records, Written
<1>2. seqCounter \in Nat
  BY AuditAssumption, FS_CardinalityType DEF Sound, TypeOK
<1> DEFINE f == [r \in Written |-> r.seq]
           S == 1 .. seqCounter
<1>3. \A r \in Written : r.seq \in S
  BY <1>1, <1>2, RecordsTyped DEF Sound, Chained, Mine
<1>4. f \in Injection(Written, S)
  BY <1>1, <1>3 DEF Injection, IsInjective, Chained
<1>5. IsFiniteSet(S) /\ Cardinality(S) = seqCounter
  BY <1>2, FS_Interval
<1>6. \A r \in Written : f[r] = r.seq
  OBVIOUS
<1> HIDE DEF f, S
<1>7. Cardinality(Written) = seqCounter <=> f \in Surjection(Written, S)
  BY <1>4, <1>5, FS_Injection
<1>8. ASSUME lost = {} PROVE Cardinality(Written) = seqCounter
  <2>1. \A n \in S : \E r \in Written : f[r] = n
    BY <1>1, <1>6, <1>8 DEF Chained, S
  <2>2. f \in Surjection(Written, S)
    BY <1>4, <2>1 DEF Surjection, Injection
  <2> QED
    BY <1>7, <2>2
<1>9. ASSUME Cardinality(Written) = seqCounter PROVE Verifies(Written)
  <2>1. \A n \in S : \E r \in Written : r.seq = n
    BY <1>6, <1>7, <1>9 DEF Surjection
  <2>2. {r.seq : r \in Written} = 1 .. Cardinality(Written)
    BY <1>3, <1>9, <2>1 DEF S
  <2>3. ASSUME NEW r \in Written
        PROVE  r.prev = IF r.seq = 1 THEN NoEvent
                        ELSE (CHOOSE p \in Written : p.seq = r.seq - 1).event
    <3>1. CASE r.seq = 1
      BY <1>1, <3>1 DEF Chained
    <3>2. CASE r.seq # 1
      <4> DEFINE p == CHOOSE p \in Written : p.seq = r.seq - 1
      <4>1. r.seq \in Nat /\ r.seq - 1 \in S
        BY <1>2, <1>3, <3>2 DEF S
      <4>2. p \in Written /\ p.seq = r.seq - 1
        BY <2>1, <4>1
      <4> HIDE DEF p
      <4>3. r.seq = p.seq + 1
        <5>1. p.seq = r.seq - 1
          BY <4>2
        <5>2. r.seq \in Nat
          BY <4>1
        <5> QED
          BY <5>1, <5>2
      <4>4. r.prev = p.event
        BY <1>1, <4>2, <4>3 DEF Chained
      <4>5. r.prev = (CHOOSE q \in Written : q.seq = r.seq - 1).event
        BY <4>4, Zenon DEF p
      <4> QED
        BY <3>2, <4>5, Zenon
    <3> QED
      BY <3>1, <3>2
  <2> QED
    BY <2>2, <2>3 DEF Verifies
<1> QED
  BY <1>8, <1>9

(***************************************************************************)
(* Once no write is under way, what the trail has stored verifies unless a *)
(* write was lost, and is all it has numbered if none was.                 *)
(***************************************************************************)
THEOREM QuietTrailsVerify == Spec => []QuietTrailVerifies
<1>1. Init => Chained
  <2> SUFFICES ASSUME Init PROVE Chained
    OBVIOUS
  <2>1. Records = {} /\ Mine = {} /\ seqCounter = 0 /\ lastHash = NoEvent
    BY DEF Init, Records, Mine
  <2> QED
    BY <2>1 DEF Chained
<1> QED
  BY <1>1, ChainedStep, QuietChain, AlwaysSound, PTL DEF Spec
=============================================================================
