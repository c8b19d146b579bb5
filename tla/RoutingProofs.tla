---------------------------- MODULE RoutingProofs ----------------------------
(* Theorems about HotRouting, for every set of sinks, levels, writers and   *)
(* configurations.                                                          *)
EXTENDS HotRouting, FiniteSetTheorems, SequenceTheorems, WellFoundedInduction, TLAPS

-----------------------------------------------------------------------------
(* Induction.  The library's theorem takes a predicate; as the steps below   *)
(* are about a set of numbers, its members stand for the predicate.          *)

LEMMA LeastNumber ==
  ASSUME NEW T, T \subseteq Nat, T # {}
  PROVE  \E n \in T : \A m \in T : n <= m
<1>1. PICK n \in T : \A m \in T : ~ (<<m, n>> \in OpToRel(<, Nat))
  BY NatLessThanWellFounded, WFMin
<1>2. \A m \in Nat : m < n => <<m, n>> \in OpToRel(<, Nat)
  BY <1>1, Zenon DEF OpToRel
<1>3. ASSUME NEW m \in T PROVE n <= m
  <2>1. ~ (m < n)
    BY <1>1, <1>2, Zenon
  <2>2. m \in Nat /\ n \in Nat
    BY <1>1, Zenon
  <2> QED
    BY <2>1, <2>2
<1> QED
  BY <1>1, <1>3, Zenon

LEMMA CountingUp ==
  ASSUME NEW T, 0 \in T, \A n \in Nat : n \in T => n + 1 \in T
  PROVE  Nat \subseteq T
<1> SUFFICES ASSUME Nat \ T # {} PROVE FALSE
  OBVIOUS
<1>1. PICK n \in Nat \ T : \A m \in Nat \ T : n <= m
  BY LeastNumber
<1>2. n - 1 \in Nat /\ ~(n <= n - 1)
  BY <1>1
<1>3. n - 1 \in T
  BY <1>1, <1>2
<1> QED
  BY <1>1, <1>2, <1>3

-----------------------------------------------------------------------------
(* Sequences joined, one after the other: what FlattenSeq returns.          *)

Joins(ss, f) ==
  f = [i \in 1 .. Len(ss) |-> IF i = 1 THEN ss[i] ELSE f[i - 1] \o ss[i]]

LEMMA JoinsExists ==
  ASSUME NEW S, NEW ss \in Seq(Seq(S))
  PROVE  \E f : Joins(ss, f)
<1> DEFINE Part(n, f) ==
      f = [i \in 1 .. n |-> IF i = 1 THEN ss[i] ELSE f[i - 1] \o ss[i]]
<1> DEFINE T == {n \in Nat : \E f : Part(n, f)}
<1>1. 0 \in T
  <2>1. Part(0, <<>>)
    OBVIOUS
  <2> QED
    BY <2>1
<1>2. ASSUME NEW n \in Nat, n \in T PROVE n + 1 \in T
  <2>1. PICK f : Part(n, f)
    BY <1>2
  <2> DEFINE g == [i \in 1 .. n + 1 |->
                     IF i = n + 1 THEN (IF i = 1 THEN ss[i] ELSE f[n] \o ss[i]) ELSE f[i]]
  <2>2. ASSUME NEW i \in 1 .. n + 1
        PROVE  g[i] = IF i = 1 THEN ss[i] ELSE g[i - 1] \o ss[i]
    <3>1. CASE i = n + 1 /\ i = 1
      BY <3>1
    <3>2. CASE i = n + 1 /\ i # 1
      <4>1. i - 1 = n /\ i - 1 \in 1 .. n + 1 /\ i - 1 # n + 1
        BY <3>2
      <4>2. g[i - 1] = f[n]
        BY <4>1
      <4> QED
        BY <3>2, <4>2
    <3>3. CASE i # n + 1
      <4>1. i \in 1 .. n
        BY <3>3
      <4>2. f[i] = IF i = 1 THEN ss[i] ELSE f[i - 1] \o ss[i]
        BY <2>1, <4>1
      <4>3. i # 1 => i - 1 \in 1 .. n + 1 /\ i - 1 # n + 1
        BY <4>1
      <4>4. i # 1 => g[i - 1] = f[i - 1]
        BY <4>3
      <4> QED
        BY <3>3, <4>2, <4>4
    <3> QED
      BY <3>1, <3>2, <3>3
  <2>3. PICK h : h = g
    OBVIOUS
  <2>4. \A i \in 1 .. n + 1 : h[i] = IF i = 1 THEN ss[i] ELSE h[i - 1] \o ss[i]
    BY <2>2, <2>3
  <2>5. h = [i \in 1 .. n + 1 |-> h[i]]
    BY <2>3
  <2> HIDE DEF g
  <2>6. Part(n + 1, h)
    BY <2>4, <2>5
  <2>7. n + 1 \in Nat
    OBVIOUS
  <2> HIDE DEF Part
  <2> QED
    BY <2>6, <2>7
<1>3. Nat \subseteq T
  <2> HIDE DEF T
  <2> QED
    BY <1>1, <1>2, CountingUp
<1>4. Len(ss) \in Nat
  BY LenProperties
<1>5. PICK f : Part(Len(ss), f)
  BY <1>3, <1>4
<1> QED
  BY <1>5 DEF Joins

LEMMA FlattenJoins ==
  ASSUME NEW S, NEW ss \in Seq(Seq(S)), ss # <<>>
  PROVE  \E f : Joins(ss, f) /\ FlattenSeq(ss) = f[Len(ss)]
<1> DEFINE F == CHOOSE f : Joins(ss, f)
<1>1. Joins(ss, F)
  BY JoinsExists, Zenon
<1>2. Len(ss) # 0
  BY EmptySeq
<1>3. FlattenSeq(ss) = F[Len(ss)]
  BY <1>2, Zenon DEF FlattenSeq, Joins
<1> QED
  BY <1>1, <1>3

LEMMA ConcatHolds ==
  ASSUME NEW S, NEW s \in Seq(S), NEW t \in Seq(S)
  PROVE  s \o t \in Seq(S) /\ ToSet(s \o t) = ToSet(s) \cup ToSet(t)
<1> DEFINE u == s \o t
<1>1. /\ u \in Seq(S) /\ Len(u) = Len(s) + Len(t) /\ Len(s) \in Nat /\ Len(t) \in Nat
      /\ \A i \in 1 .. Len(s) + Len(t) : u[i] = IF i <= Len(s) THEN s[i] ELSE t[i - Len(s)]
      /\ DOMAIN s = 1 .. Len(s) /\ DOMAIN t = 1 .. Len(t) /\ DOMAIN u = 1 .. Len(u)
  BY ConcatProperties, LenProperties
<1> HIDE DEF u
<1>2. ASSUME NEW x \in ToSet(u) PROVE x \in ToSet(s) \cup ToSet(t)
  <2>1. PICK i \in 1 .. Len(s) + Len(t) : x = u[i]
    BY <1>1 DEF ToSet
  <2>2. CASE i <= Len(s)
    BY <1>1, <2>1, <2>2 DEF ToSet
  <2>3. CASE ~(i <= Len(s))
    <3>1. i - Len(s) \in 1 .. Len(t) /\ x = t[i - Len(s)]
      BY <1>1, <2>1, <2>3
    <3> QED
      BY <1>1, <3>1 DEF ToSet
  <2> QED
    BY <2>2, <2>3
<1>3. ASSUME NEW x \in ToSet(s) PROVE x \in ToSet(u)
  <2>1. PICK i \in 1 .. Len(s) : x = s[i]
    BY <1>1 DEF ToSet
  <2>2. i \in 1 .. Len(u) /\ u[i] = x
    BY <1>1, <2>1
  <2> QED
    BY <1>1, <2>2 DEF ToSet
<1>4. ASSUME NEW x \in ToSet(t) PROVE x \in ToSet(u)
  <2>1. PICK i \in 1 .. Len(t) : x = t[i]
    BY <1>1 DEF ToSet
  <2>2. i + Len(s) \in 1 .. Len(u) /\ u[i + Len(s)] = x
    BY <1>1, <2>1
  <2> QED
    BY <1>1, <2>2 DEF ToSet
<1> QED
  BY <1>1, <1>2, <1>3, <1>4 DEF u

LEMMA FlattenHolds ==
  ASSUME NEW S, NEW ss \in Seq(Seq(S))
  PROVE  /\ FlattenSeq(ss) \in Seq(S)
         /\ ToSet(FlattenSeq(ss)) = UNION {ToSet(ss[i]) : i \in 1 .. Len(ss)}
<1>1. CASE ss = <<>>
  <2>1. FlattenSeq(ss) = <<>> /\ Len(ss) = 0
    BY <1>1 DEF FlattenSeq
  <2> QED
    BY <2>1 DEF ToSet
<1>2. CASE ss # <<>>
  <2>1. PICK f : Joins(ss, f) /\ FlattenSeq(ss) = f[Len(ss)]
    BY <1>2, FlattenJoins
  <2>2. Len(ss) \in Nat \ {0} /\ \A i \in 1 .. Len(ss) : ss[i] \in Seq(S)
    BY <1>2, EmptySeq, ElementOfSeq
  <2> DEFINE Whole(n) == f[n] \in Seq(S) /\ ToSet(f[n]) = UNION {ToSet(ss[i]) : i \in 1 .. n}
  <2> DEFINE T == {n \in Nat : n \in 1 .. Len(ss) => Whole(n)}
  <2>3. 0 \in T
    OBVIOUS
  <2>4. ASSUME NEW n \in Nat, n \in T, n + 1 \in 1 .. Len(ss) PROVE Whole(n + 1)
    <3>1. CASE n = 0
      <4>1. f[1] = ss[1]
        BY <2>1, <2>2 DEF Joins
      <4>2. 1 .. n + 1 = {1} /\ n + 1 = 1
        BY <3>1
      <4> QED
        BY <2>2, <4>1, <4>2
    <3>2. CASE n # 0
      <4>0. \A i \in 1 .. Len(ss) : i # 1 => f[i] = f[i - 1] \o ss[i]
        BY <2>1 DEF Joins
      <4>1. n \in 1 .. Len(ss) /\ n + 1 # 1 /\ n + 1 - 1 = n
        BY <2>2, <2>4, <3>2
      <4>2. f[n + 1] = f[n] \o ss[n + 1]
        <5>1. PICK m \in 1 .. Len(ss) : m = n + 1
          BY <2>4
        <5>2. m # 1 /\ m - 1 = n
          BY <4>1, <5>1
        <5>3. f[m] = f[m - 1] \o ss[m]
          BY <4>0, <5>2, Zenon
        <5> QED
          BY <5>1, <5>2, <5>3, Zenon
      <4>3. Whole(n) /\ ss[n + 1] \in Seq(S)
        BY <2>2, <2>4, <4>1
      <4>4. f[n + 1] \in Seq(S) /\ ToSet(f[n + 1]) = ToSet(f[n]) \cup ToSet(ss[n + 1])
        BY <4>2, <4>3, ConcatHolds
      <4>5. 1 .. n + 1 = (1 .. n) \cup {n + 1}
        OBVIOUS
      <4> QED
        BY <4>3, <4>4, <4>5, Zenon
    <3> QED
      BY <3>1, <3>2
  <2>5. ASSUME NEW n \in Nat, n \in T PROVE n + 1 \in T
    <3>1. n + 1 \in Nat
      OBVIOUS
    <3>2. n + 1 \in 1 .. Len(ss) => Whole(n + 1)
      BY <2>4, <2>5, Zenon
    <3> HIDE DEF Whole
    <3> QED
      BY <3>1, <3>2
  <2>6. Nat \subseteq T
    <3> HIDE DEF T
    <3> QED
      BY <2>3, <2>5, CountingUp
  <2>7. Whole(Len(ss))
    BY <2>2, <2>6
  <2> QED
    BY <2>1, <2>7
<1> QED
  BY <1>1, <1>2

-----------------------------------------------------------------------------
(* Where an event goes: get_sinks_for_level returns what is promised.       *)

Route == [levels : SUBSET (Levels \cup {Wildcard}), sinks : Seq(Sinks)]
Routing == [rules : Seq(Route), fallback : Seq(Sinks)]

LEMMA RoutingParts ==
  ASSUME NEW config \in Routing
  PROVE  /\ config.rules \in Seq(Route) /\ config.fallback \in Seq(Sinks)
         /\ Len(config.rules) \in Nat
         /\ \A i \in 1 .. Len(config.rules) :
              config.rules[i].sinks \in Seq(Sinks)
<1>1. config.rules \in Seq(Route) /\ config.fallback \in Seq(Sinks)
  BY DEF Routing
<1>2. ASSUME NEW i \in 1 .. Len(config.rules) PROVE config.rules[i].sinks \in Seq(Sinks)
  <2>1. config.rules[i] \in Route
    BY <1>1, ElementOfSeq
  <2> QED
    BY <2>1 DEF Route
<1> QED
  BY <1>1, <1>2, LenProperties

LEMMA SinksOfHolds ==
  ASSUME NEW config \in Routing, NEW chosen \in SUBSET (1 .. Len(config.rules))
  PROVE  /\ SinksOf(config, chosen) \in Seq(Sinks)
         /\ ToSet(SinksOf(config, chosen)) =
              UNION {ToSet(config.rules[i].sinks) : i \in chosen}
<1> DEFINE n == Len(config.rules)
<1> DEFINE ss == [i \in 1 .. n |-> IF i \in chosen THEN config.rules[i].sinks ELSE <<>>]
<1>1. n \in Nat /\ \A i \in 1 .. n : config.rules[i].sinks \in Seq(Sinks)
  BY RoutingParts
<1>2. \A i \in 1 .. n : ss[i] \in Seq(Sinks)
  BY <1>1, EmptySeq
<1>3. ss \in Seq(Seq(Sinks)) /\ Len(ss) = n
  BY <1>1, <1>2
<1>4. /\ FlattenSeq(ss) \in Seq(Sinks)
      /\ ToSet(FlattenSeq(ss)) = UNION {ToSet(ss[i]) : i \in 1 .. n}
  <2> HIDE DEF ss, n
  <2> QED
    BY <1>3, FlattenHolds
<1>5. \A i \in 1 .. n : ToSet(ss[i]) = IF i \in chosen THEN ToSet(config.rules[i].sinks) ELSE {}
  <2>1. ToSet(<<>>) = {}
    BY DEF ToSet
  <2> QED
    BY <2>1
<1>6. UNION {ToSet(ss[i]) : i \in 1 .. n} = UNION {ToSet(config.rules[i].sinks) : i \in chosen}
  <2> HIDE DEF ss
  <2> QED
    BY <1>5
<1> QED
  BY <1>4, <1>6 DEF SinksOf

\* What the rules of a set name, which rules of a level count, and where an event goes.
Named(config, is) == UNION {ToSet(config.rules[i].sinks) : i \in is}
Counted(all, is) == IF all THEN is ELSE {i \in is : \A j \in is : i <= j}
Goes(all, config, level) ==
  IF RulesFor(config, level) = {}
  THEN Named(config, RulesFor(config, Wildcard)) \cup ToSet(config.fallback)
  ELSE Named(config, Counted(all, RulesFor(config, level)))

LEMMA PromisedNamed ==
  ASSUME overlap \in BOOLEAN, NEW config, NEW level
  PROVE  Promised(config, level) = Goes(overlap, config, level)
BY DEF Promised, Goes, RulesFor, Named, Counted

LEMMA EntriesHold ==
  ASSUME overlap \in BOOLEAN, NEW config \in Routing, NEW level, HasRoute(config, level)
  PROVE  /\ Entries(config, level, overlap) \in Seq(Sinks)
         /\ ToSet(Entries(config, level, overlap)) =
              Named(config, Counted(overlap, RulesFor(config, level)))
<1> DEFINE mine == RulesFor(config, level)
<1>1. mine \subseteq 1 .. Len(config.rules) /\ mine # {}
  BY DEF RulesFor, HasRoute
<1>2. CASE overlap
  <2>1. Entries(config, level, overlap) = SinksOf(config, mine)
    BY <1>2 DEF Entries
  <2>2. /\ SinksOf(config, mine) \in Seq(Sinks)
        /\ ToSet(SinksOf(config, mine)) = Named(config, mine)
    BY <1>1, SinksOfHolds DEF Named
  <2> QED
    BY <1>2, <2>1, <2>2 DEF Counted
<1>3. CASE ~overlap
  <2> DEFINE first == CHOOSE i \in mine : \A j \in mine : i <= j
  <2> DEFINE least == {i \in mine : \A j \in mine : i <= j}
  <2>1. Entries(config, level, overlap) = config.rules[first].sinks
    BY <1>3 DEF Entries
  <2>2. mine \subseteq Nat
    BY <1>1
  <2>3. \E i \in mine : \A j \in mine : i <= j
    BY <1>1, <2>2, LeastNumber
  <2>4. first \in mine /\ \A j \in mine : first <= j
    BY <2>3
  <2> HIDE DEF first
  <2>5. least = {first}
    BY <2>2, <2>4
  <2>6. Named(config, least) = ToSet(config.rules[first].sinks)
    BY <2>5 DEF Named
  <2>7. config.rules[first].sinks \in Seq(Sinks)
    BY <1>1, <2>4, RoutingParts
  <2>8. Counted(overlap, mine) = least
    BY <1>3 DEF Counted
  <2> QED
    BY <2>1, <2>6, <2>7, <2>8
<1> QED
  BY <1>2, <1>3

LEMMA FallbackHolds ==
  ASSUME NEW config \in Routing
  PROVE  /\ Fallback(config) \in Seq(Sinks)
         /\ ToSet(Fallback(config)) =
              Named(config, RulesFor(config, Wildcard)) \cup ToSet(config.fallback)
<1> DEFINE wild == RulesFor(config, Wildcard)
<1>1. wild \subseteq 1 .. Len(config.rules)
  BY DEF RulesFor
<1>2. /\ SinksOf(config, wild) \in Seq(Sinks)
      /\ ToSet(SinksOf(config, wild)) = Named(config, wild)
  BY <1>1, SinksOfHolds DEF Named
<1>3. config.fallback \in Seq(Sinks)
  BY RoutingParts
<1> HIDE DEF wild
<1>4. ToSet(SinksOf(config, wild) \o config.fallback) =
        Named(config, wild) \cup ToSet(config.fallback)
      /\ SinksOf(config, wild) \o config.fallback \in Seq(Sinks)
  BY <1>2, <1>3, ConcatHolds
<1> QED
  BY <1>4 DEF Fallback, wild

\* One more rule of a level, later than those that count already.
LEMMA OneMoreCounts ==
  ASSUME overlap \in BOOLEAN, NEW config, NEW is, is \subseteq Nat, NEW r \in Nat,
         \A i \in is : i < r
  PROVE  Named(config, Counted(overlap, is \cup {r})) =
           IF overlap \/ is = {}
           THEN Named(config, Counted(overlap, is)) \cup ToSet(config.rules[r].sinks)
           ELSE Named(config, Counted(overlap, is))
<1>1. CASE overlap
  BY <1>1 DEF Named, Counted
<1>2. CASE ~overlap /\ is = {}
  <2>1. Counted(overlap, is \cup {r}) = {r} /\ Counted(overlap, is) = {}
    BY <1>2 DEF Counted
  <2> QED
    BY <1>2, <2>1 DEF Named
<1>3. CASE ~overlap /\ is # {}
  <2>1. PICK k \in is : TRUE
    BY <1>3
  <2>2. k \in Nat /\ k < r /\ ~(r <= k)
    BY <2>1
  <2>3. ASSUME NEW i \in is \cup {r}, \A j \in is \cup {r} : i <= j PROVE i \in is
    BY <2>1, <2>2, <2>3
  <2>4. ASSUME NEW i \in is, \A j \in is : i <= j, NEW j \in is \cup {r} PROVE i <= j
    BY <2>4
  <2>5. Counted(overlap, is \cup {r}) = Counted(overlap, is)
    BY <1>3, <2>3, <2>4 DEF Counted
  <2> QED
    BY <1>3, <2>5
<1> QED
  BY <1>1, <1>2, <1>3

-----------------------------------------------------------------------------
(* The invariant: types, and                                                *)
(*   Tables     outside update_rules() the tables are what the rules in     *)
(*              force make them; inside, what the rules placed so far do    *)
(*   Decided    a write under way whose look nothing overlapped has the     *)
(*              targets promised when it looked, and holds no list that an  *)
(*              update_rules() under way may extend                         *)
(*   Abreast    the watcher has seen no signature that is yet to come, what *)
(*              it announces or applies is valid, and while the file has    *)
(*              not changed since it was seen, what is announced or applied *)
(*              is what it says.                                            *)

CallState == [phase : {"none", "looking", "listed"},
              level : Levels \cup {Missing}, hit : BOOLEAN,
              targets : Seq(Sinks), status : Seq(Status), source : Sources,
              together : BOOLEAN, config : Contents, torn : BOOLEAN]

CallsTyped == call \in [Writers -> CallState]

TablesTyped ==
  /\ DOMAIN table \subseteq Levels /\ table \in [DOMAIN table -> Seq(Sinks)]
  /\ fallback \in Seq(Sinks)
  /\ place \in [rule : Nat, left : SUBSET (Levels \cup {Wildcard}), open : Levels \cup {Missing}]

RestTyped ==
  /\ file \in [content : Contents, signature : 0 .. MaxEdits]
  /\ overlap \in Overlaps /\ parallel \in ParallelModes
  /\ rules \in Configs \ Invalid
  /\ watcher \in {"none", "sleeping", "loading", "notifying", "applying", "ended"}
  /\ previous \in -1 .. MaxEdits
  /\ loaded \in Contents
  /\ stopping \in BOOLEAN /\ faults \in 0 .. MaxFaults /\ mishap \in BOOLEAN

LEMMA TypesSplit == TypeOK <=> CallsTyped /\ TablesTyped /\ RestTyped
BY DEF TypeOK, CallsTyped, TablesTyped, RestTyped, CallState

\* The tables are what a configuration makes them.
Made(config) ==
  /\ \A level \in Levels : level \in DOMAIN table <=> RulesFor(config, level) # {}
  /\ \A level \in DOMAIN table :
       ToSet(table[level]) = Named(config, Counted(overlap, RulesFor(config, level)))
  /\ ToSet(fallback) = Named(config, RulesFor(config, Wildcard)) \cup ToSet(config.fallback)

\* The rules that update_rules() has placed for a level.
Placed(level) ==
  {i \in RulesFor(Rules[loaded], level) :
     i < place.rule \/ (i = place.rule /\ level \notin place.left)}

Position ==
  /\ place.rule \in 1 .. Len(Rules[loaded].rules) + 1
  /\ place.left \subseteq IF place.rule > Len(Rules[loaded].rules) THEN {}
                         ELSE Rules[loaded].rules[place.rule].levels
  /\ place.open # Missing => overlap /\ place.open \in place.left

Filling ==
  /\ \A level \in Levels : level \in DOMAIN table <=> Placed(level) # {} \/ level = place.open
  /\ \A level \in DOMAIN table :
       ToSet(table[level]) = Named(Rules[loaded], Counted(overlap, Placed(level)))
  /\ ToSet(fallback) =
       Named(Rules[loaded], Placed(Wildcard)) \cup ToSet(Rules[loaded].fallback)

Applying == watcher = "applying"

Tables ==
  /\ ~Applying => place = Nowhere /\ Made(Rules[rules])
  /\ Applying /\ place.rule = 0 => place = Nowhere /\ DOMAIN table = {}
  /\ Applying /\ place.rule # 0 => Position /\ Filling

CallOK(c) ==
  /\ Len(c.status) = Len(c.targets)
  /\ c.phase = "looking" =>
       /\ c.level \in Levels /\ c.config \in Configs \ Invalid
       /\ ~c.torn => ~Applying /\ c.config = rules /\ (c.hit <=> c.level \in DOMAIN table)
  /\ c.phase = "listed" /\ ~c.torn =>
       /\ c.config \in Configs \ Invalid
       /\ ToSet(c.targets) = Goes(overlap, Rules[c.config], c.level)
  /\ c.source # Missing => c.phase = "listed"
  /\ Applying /\ (c.source \in Levels \/ (c.source = Wildcard /\ place.rule # 0)) => c.torn

Decided == \A w \in Writers : CallOK(call[w])

SettledFile == previous = file.signature /\ ~mishap /\ file.content \in Configs \ Invalid

\* The watcher that sleeps on the present content has applied it.
CaughtUp == watcher = "sleeping" /\ SettledFile => rules = file.content

Abreast ==
  /\ previous <= file.signature
  /\ watcher \in {"notifying", "applying"} =>
       /\ loaded \in Configs \ Invalid
       /\ SettledFile => loaded = file.content
  /\ CaughtUp

Sound == TypeOK /\ Tables /\ Decided /\ Abreast

\* The targets of a write that are not begun at once are begun one after the other.
TurnsKept(c) ==
  ~c.together => \A i, j \in 1 .. Len(c.status) :
                   i < j /\ c.status[j] # "waiting" => c.status[i] = "done"

InTurn == \A w \in Writers : TurnsKept(call[w])

LEMMA RulesTyped ==
  ASSUME NEW c \in Configs \ Invalid
  PROVE  Rules[c] \in Routing
BY HotRoutingAssumption DEF Routing, Route

LEMMA SoundAtFirst == Init => Sound /\ InTurn
<1> SUFFICES ASSUME Init PROVE Sound /\ InTurn
  OBVIOUS
<1> DEFINE first == Rules[FirstConfig]
<1>1. /\ file = [content |-> FirstConfig, signature |-> 0] /\ overlap \in Overlaps
      /\ parallel \in ParallelModes /\ rules = FirstConfig
      /\ table = Table(first, Levels, overlap) /\ fallback = Fallback(first)
      /\ place = Nowhere
      /\ call = [w \in Writers |-> NoCall]
      /\ watcher = "none" /\ previous = -1 /\ loaded = Missing
      /\ stopping = FALSE /\ faults = 0 /\ mishap = FALSE
  BY DEF Init
<1>2. first \in Routing /\ overlap \in BOOLEAN
  BY <1>1, RulesTyped, HotRoutingAssumption
<1>3. /\ NoCall \in CallState /\ NoCall.status = <<>> /\ NoCall.targets = <<>>
      /\ NoCall.phase = "none" /\ NoCall.source = Missing
  BY EmptySeq DEF NoCall, CallState, Contents, Sources
<1>4. CallsTyped
  BY <1>1, <1>3 DEF CallsTyped
<1>5. /\ DOMAIN table = {l \in Levels : HasRoute(first, l)}
      /\ \A l \in DOMAIN table : table[l] = Entries(first, l, overlap)
      /\ table = [l \in DOMAIN table |-> table[l]]
  BY <1>1 DEF Table
<1>6. TablesTyped
  <2>1. fallback \in Seq(Sinks)
    BY <1>1, <1>2, FallbackHolds
  <2>2. \A l \in DOMAIN table : table[l] \in Seq(Sinks)
    BY <1>2, <1>5, EntriesHold
  <2>3. place \in [rule : Nat, left : SUBSET (Levels \cup {Wildcard}),
                   open : Levels \cup {Missing}]
    BY <1>1 DEF Nowhere
  <2>4. table \in [DOMAIN table -> Seq(Sinks)]
    <3>1. PICK D : D = DOMAIN table
      OBVIOUS
    <3>2. table = [l \in D |-> table[l]]
      BY <1>5, <3>1, Zenon
    <3>4. \A l \in D : table[l] \in Seq(Sinks)
      BY <2>2, <3>1
    <3>3. table \in [D -> Seq(Sinks)]
      BY <3>2, <3>4
    <3> QED
      BY <3>1, <3>3
  <2>5. DOMAIN table \subseteq Levels
    BY <1>5
  <2> QED
    BY <2>1, <2>3, <2>4, <2>5 DEF TablesTyped
<1>7. RestTyped
  <2>1. file \in [content : Contents, signature : 0 .. MaxEdits]
    BY <1>1, HotRoutingAssumption DEF Contents
  <2>2. previous \in -1 .. MaxEdits /\ faults \in 0 .. MaxFaults
    BY <1>1, HotRoutingAssumption
  <2> QED
    BY <1>1, <2>1, <2>2, HotRoutingAssumption DEF RestTyped, Contents
<1>8. Tables
  <2>1. \A l \in DOMAIN table : ToSet(table[l]) = Named(first, Counted(overlap, RulesFor(first, l)))
    BY <1>2, <1>5, EntriesHold
  <2>2. \A l \in Levels : l \in DOMAIN table <=> RulesFor(first, l) # {}
    BY <1>5 DEF HasRoute
  <2>3. ToSet(fallback) = Named(first, RulesFor(first, Wildcard)) \cup ToSet(first.fallback)
    BY <1>1, <1>2, FallbackHolds
  <2> QED
    BY <1>1, <2>1, <2>2, <2>3 DEF Tables, Made, Applying
<1>9. Decided
  <2>1. CallOK(NoCall)
    BY <1>1, <1>3 DEF CallOK, Applying
  <2> QED
    BY <1>1, <2>1 DEF Decided
<1>10. Abreast
  BY <1>1 DEF Abreast, CaughtUp
<1>11. InTurn
  BY <1>1, <1>3 DEF InTurn, TurnsKept
<1> QED
  BY <1>4, <1>6, <1>7, <1>8, <1>9, <1>10, <1>11, TypesSplit DEF Sound

\* Tables that are made as they should be send every level where it is promised.
LEMMA MadeAsPromised ==
  ASSUME overlap \in BOOLEAN, NEW config, Made(config), NEW level \in Levels
  PROVE  Routed(level) = Goes(overlap, config, level) /\ Routed(level) = Promised(config, level)
BY PromisedNamed DEF Made, Routed, Goes

\* A step that leaves everything but the writes alone.
LEMMA OnlyWrites ==
  ASSUME Sound, UNCHANGED <<file, overlap, parallel, tableVars, reloadVars>>,
         CallsTyped', Decided'
  PROVE  Sound'
<1>1. UNCHANGED <<file, overlap, parallel, table, fallback, place, rules>>
      /\ UNCHANGED <<watcher, previous, loaded, stopping, faults, mishap>>
  BY DEF tableVars, reloadVars
<1>2. Abreast'
  BY <1>1 DEF Sound, Abreast, CaughtUp, SettledFile
<1>3. Tables'
  <2>1. Made(Rules[rules])' <=> Made(Rules[rules])
    BY <1>1 DEF Made
  <2>2. (Position' <=> Position) /\ (Filling' <=> Filling)
    BY <1>1 DEF Position, Filling, Placed
  <2> QED
    BY <1>1, <2>1, <2>2 DEF Sound, Tables, Applying
<1>4. TablesTyped' /\ RestTyped'
  BY <1>1, TypesSplit DEF Sound, TablesTyped, RestTyped
<1>5. TypeOK'
  BY <1>4 DEF TypeOK, CallsTyped, TablesTyped, RestTyped, CallState
<1> QED
  BY <1>2, <1>3, <1>5 DEF Sound

\* One write moves on: its record, a call with the same surroundings, is as it should be.
LEMMA OneWrite ==
  ASSUME Sound, InTurn, NEW w \in Writers, NEW d \in CallState,
         UNCHANGED <<file, overlap, parallel, tableVars, reloadVars>>,
         call' = [call EXCEPT ![w] = d], CallOK(d), TurnsKept(d)
  PROVE  Sound' /\ InTurn'
<1>1. UNCHANGED <<overlap, table, place, rules, watcher>>
  BY DEF tableVars, reloadVars
<1>2. CallsTyped
  BY TypesSplit DEF Sound
<1>3. CallsTyped' /\ \A v \in Writers : call'[v] = IF v = w THEN d ELSE call[v]
  BY <1>2 DEF CallsTyped
<1>4. \A v \in Writers : CallOK(call'[v]) /\ TurnsKept(call'[v])
  BY <1>3 DEF Sound, Decided, InTurn
<1>5. ASSUME NEW v \in Writers PROVE CallOK(call[v])' /\ TurnsKept(call[v])'
  BY <1>1, <1>4 DEF CallOK, Applying, TurnsKept
<1>6. Decided' /\ InTurn'
  BY <1>5 DEF Decided, InTurn
<1> QED
  BY <1>3, <1>6, OnlyWrites

LEMMA BeginWriteSound ==
  ASSUME Sound, InTurn, NEW w \in Writers, NEW level \in Levels, BeginWrite(w, level)
  PROVE  Sound' /\ InTurn'
<1>0. PICK hit : hit = (level \in DOMAIN table)
  OBVIOUS
<1>00. PICK torn : torn = (watcher = "applying")
  OBVIOUS
<1>1. PICK d : d = [NoCall EXCEPT !.phase = "looking", !.level = level, !.hit = hit,
                                  !.config = rules, !.torn = torn]
  OBVIOUS
<1>2. /\ call' = [call EXCEPT ![w] = d]
      /\ UNCHANGED <<file, overlap, parallel, tableVars, reloadVars>>
  BY <1>0, <1>00, <1>1 DEF BeginWrite
<1>3. rules \in Configs \ Invalid
  BY DEF Sound, TypeOK
<1>4. /\ d.phase = "looking" /\ d.level = level /\ (d.hit <=> level \in DOMAIN table)
      /\ d.config = rules /\ (d.torn <=> watcher = "applying")
      /\ d.targets = <<>> /\ d.status = <<>> /\ d.source = Missing
  BY <1>0, <1>00, <1>1 DEF NoCall
<1>5. d \in CallState
  <2>1. hit \in BOOLEAN /\ torn \in BOOLEAN
    BY <1>0, <1>00
  <2>2. NoCall \in CallState
    BY EmptySeq DEF NoCall, CallState, Contents, Sources
  <2> QED
    BY <1>1, <1>3, <2>1, <2>2 DEF CallState, Contents
<1>6. CallOK(d)
  BY <1>3, <1>4, HotRoutingAssumption DEF CallOK, Applying, Wildcard, Missing
<1>7. TurnsKept(d)
  BY <1>4 DEF TurnsKept
<1> QED
  BY <1>2, <1>5, <1>6, <1>7, OneWrite

LEMMA NoCallSound ==
  ASSUME Sound, InTurn, NEW w \in Writers, call' = [call EXCEPT ![w] = NoCall],
         UNCHANGED <<file, overlap, parallel, tableVars, reloadVars>>
  PROVE  Sound' /\ InTurn'
<1>1. NoCall \in CallState /\ NoCall.status = <<>> /\ NoCall.targets = <<>>
      /\ NoCall.phase = "none" /\ NoCall.source = Missing
  BY EmptySeq DEF NoCall, CallState, Contents, Sources
<1>2. CallOK(NoCall) /\ TurnsKept(NoCall)
  BY <1>1, HotRoutingAssumption DEF CallOK, TurnsKept, Wildcard, Missing
<1> QED
  BY <1>1, <1>2, OneWrite

LEMMA FetchSound ==
  ASSUME Sound, InTurn, NEW w \in Writers, FetchTargets(w)
  PROVE  Sound' /\ InTurn'
<1> DEFINE c == call[w]
<1>1. /\ c.phase = "looking" /\ c \in CallState /\ CallOK(c)
      /\ UNCHANGED <<file, overlap, parallel, tableVars, reloadVars>>
  BY TypesSplit DEF FetchTargets, Sound, CallsTyped, Decided
<1>2. CASE c.hit /\ c.level \notin DOMAIN table
  BY <1>1, <1>2, NoCallSound DEF FetchTargets
<1>3. CASE ~(c.hit /\ c.level \notin DOMAIN table)
  <2>1. PICK from : from = IF c.hit THEN c.level ELSE Wildcard
    OBVIOUS
  <2>2. PICK list : list = IF c.hit THEN table[c.level] ELSE fallback
    OBVIOUS
  <2>3. PICK status : status = [i \in 1 .. Len(list) |-> "waiting"]
    OBVIOUS
  <2>4. PICK source : source = IF list = <<>> THEN Missing ELSE from
    OBVIOUS
  <2>5. PICK together : together = (parallel /\ Len(list) > 1)
    OBVIOUS
  <2>6. PICK d : d = [c EXCEPT !.phase = "listed", !.targets = list, !.status = status,
                              !.source = source, !.together = together]
    OBVIOUS
  <2>7. call' = [call EXCEPT ![w] = d]
    BY <1>3, <2>1, <2>2, <2>3, <2>4, <2>5, <2>6, Zenon DEF FetchTargets
  <2>8. list \in Seq(Sinks) /\ Len(list) \in Nat /\ parallel \in BOOLEAN
    <3>1. TablesTyped /\ RestTyped
      BY TypesSplit DEF Sound
    <3>2. list \in Seq(Sinks)
      BY <1>3, <2>2, <3>1 DEF TablesTyped
    <3> QED
      BY <3>1, <3>2, LenProperties, HotRoutingAssumption DEF RestTyped
  <2>9. /\ status \in Seq(Status) /\ Len(status) = Len(list)
        /\ \A i \in 1 .. Len(status) : status[i] = "waiting"
    BY <2>3, <2>8 DEF Status
  <2>10. source \in Sources /\ together \in BOOLEAN
    <3>1. c.hit => c.level \in Levels
      BY <1>1, <1>3, TypesSplit DEF Sound, TablesTyped
    <3> QED
      BY <2>1, <2>4, <2>5, <2>8, <3>1 DEF Sources
  <2>11. /\ d.phase = "listed" /\ d.targets = list /\ d.status = status /\ d.source = source
         /\ d.together = together /\ d.level = c.level /\ d.config = c.config
         /\ d.torn = c.torn /\ d \in CallState
    BY <1>1, <2>6, <2>8, <2>9, <2>10 DEF CallState
  <2>12. c.level \in Levels /\ c.config \in Configs \ Invalid
         /\ (~c.torn => ~Applying /\ c.config = rules /\ (c.hit <=> c.level \in DOMAIN table))
    BY <1>1 DEF CallOK
  <2>13. ASSUME ~c.torn PROVE ToSet(list) = Goes(overlap, Rules[c.config], c.level)
    <3>1. Made(Rules[rules]) /\ overlap \in BOOLEAN
      BY <2>12, <2>13, HotRoutingAssumption DEF Sound, Tables, TypeOK
    <3>2. Routed(c.level) = Goes(overlap, Rules[rules], c.level)
      BY <2>12, <3>1, MadeAsPromised
    <3>3. Routed(c.level) = ToSet(list)
      BY <2>2, <2>12, <2>13 DEF Routed
    <3> QED
      BY <2>12, <2>13, <3>2, <3>3
  <2>14. CallOK(d)
    BY <2>9, <2>11, <2>12, <2>13 DEF CallOK
  <2>15. TurnsKept(d)
    BY <2>9, <2>11 DEF TurnsKept
  <2> QED
    BY <1>1, <2>7, <2>11, <2>14, <2>15, OneWrite
<1> QED
  BY <1>2, <1>3

\* A target goes on: its status changes, and perhaps the write lets go of the list.
LEMMA TargetMoves ==
  ASSUME Sound, InTurn, NEW w \in Writers, NEW i \in 1 .. Len(call[w].status),
         NEW to \in {"writing", "done"}, NEW source \in {call[w].source, Missing},
         call[w].status[i] = "writing" \/ Ready(w, i),
         call' = [call EXCEPT ![w].status[i] = to, ![w].source = source],
         UNCHANGED <<file, overlap, parallel, tableVars, reloadVars>>
  PROVE  Sound' /\ InTurn'
<1>1. PICK c : c = call[w]
  OBVIOUS
<1>2. PICK status : status = [c.status EXCEPT ![i] = to]
  OBVIOUS
<1>3. PICK d : d = [c EXCEPT !.status = status, !.source = source]
  OBVIOUS
<1>4. call \in [Writers -> CallState] /\ CallOK(c) /\ TurnsKept(c)
  BY <1>1, TypesSplit DEF Sound, CallsTyped, Decided, InTurn
<1>5. c \in CallState /\ c.status \in Seq(Status) /\ i \in 1 .. Len(c.status) /\ to \in Status
  BY <1>1, <1>4 DEF CallState, Status
<1>6. /\ status \in Seq(Status) /\ Len(status) = Len(c.status)
      /\ \A j \in 1 .. Len(c.status) : status[j] = IF j = i THEN to ELSE c.status[j]
  BY <1>2, <1>5, ExceptSeq
<1>7. source \in Sources
  BY <1>1, <1>5 DEF CallState, Sources
<1>8. /\ d \in CallState /\ d.phase = c.phase /\ d.level = c.level /\ d.hit = c.hit
      /\ d.config = c.config /\ d.torn = c.torn /\ d.together = c.together
      /\ d.targets = c.targets /\ d.status = status /\ d.source = source
  BY <1>3, <1>5, <1>6, <1>7 DEF CallState
<1>9. call' = [call EXCEPT ![w] = d]
  BY <1>1, <1>2, <1>3, <1>4 DEF CallState
<1>10. CallOK(d)
  BY <1>1, <1>4, <1>6, <1>8, HotRoutingAssumption DEF CallOK, Wildcard, Missing
<1>11. TurnsKept(d)
  <2> SUFFICES ASSUME ~c.together,
                      NEW j \in 1 .. Len(c.status), NEW k \in 1 .. Len(c.status),
                      j < k, status[k] # "waiting"
               PROVE  status[j] = "done"
    BY <1>6, <1>8 DEF TurnsKept
  <2>1. \A m, n \in 1 .. Len(c.status) :
          m < n /\ c.status[n] # "waiting" => c.status[m] = "done"
    BY <1>4 DEF TurnsKept
  <2>2. c.status[i] = "writing" \/ \A m \in 1 .. i - 1 : c.status[m] = "done"
    BY <1>1 DEF Ready
  <2>3. \A m \in 1 .. Len(c.status) : m < i => c.status[m] = "done"
    BY <1>5, <2>1, <2>2
  <2>4. c.status[i] # "done"
    BY <1>1 DEF Ready
  <2>5. CASE k = i
    BY <1>6, <2>3, <2>5
  <2>6. CASE k # i
    <3>1. c.status[k] # "waiting" /\ c.status[j] = "done"
      BY <1>6, <2>1, <2>6
    <3> QED
      BY <1>6, <2>4, <3>1
  <2> QED
    BY <2>5, <2>6
<1> QED
  BY <1>8, <1>9, <1>10, <1>11, OneWrite

LEMMA WriteStepSound ==
  ASSUME Sound, InTurn, NEW w \in Writers, WriteStep(w)
  PROVE  Sound' /\ InTurn'
<1>1. call \in [Writers -> CallState]
  BY TypesSplit DEF Sound, CallsTyped
<1>2. CASE FetchTargets(w)
  BY <1>2, FetchSound
<1>3. ASSUME NEW i \in 1 .. Len(call[w].status), BeginTarget(w, i) PROVE Sound' /\ InTurn'
  <2>1. PICK source : source = IF call[w].together THEN Missing ELSE call[w].source
    OBVIOUS
  <2>2. PICK to \in {"writing", "done"} :
          call' = [call EXCEPT ![w].status[i] = to, ![w].source = source]
    BY <1>1, <1>3, <2>1 DEF BeginTarget, CallState
  <2>3. Ready(w, i) /\ UNCHANGED <<file, overlap, parallel, tableVars, reloadVars>>
    BY <1>3 DEF BeginTarget
  <2>4. source \in {call[w].source, Missing}
    BY <2>1
  <2> QED
    BY <2>2, <2>3, <2>4, TargetMoves
<1>4. ASSUME NEW i \in 1 .. Len(call[w].status), WriteEnds(w, i) PROVE Sound' /\ InTurn'
  <2>1. /\ call[w].status[i] = "writing" /\ call' = [call EXCEPT ![w].status[i] = "done"]
        /\ UNCHANGED <<file, overlap, parallel, tableVars, reloadVars>>
    BY <1>4 DEF WriteEnds
  <2>2. PICK source : source = call[w].source
    OBVIOUS
  <2>3. call' = [call EXCEPT ![w].status[i] = "done", ![w].source = source]
    BY <1>1, <2>1, <2>2 DEF CallState
  <2>4. source \in {call[w].source, Missing}
    BY <2>2
  <2>5. "done" \in {"writing", "done"}
    OBVIOUS
  <2> QED
    BY <2>1, <2>3, <2>4, <2>5, TargetMoves
<1>5. CASE EndWrite(w)
  BY <1>5, NoCallSound DEF EndWrite
<1> QED
  BY <1>2, <1>3, <1>4, <1>5 DEF WriteStep

-----------------------------------------------------------------------------
(* The reloader outside update_rules().                                     *)

LEMMA ReloadSound ==
  ASSUME Sound, InTurn,
         \/ Edit \/ StartReloader \/ Poll \/ Load \/ SubscriberFails \/ WatcherDies
         \/ BeginStop \/ EndStop
  PROVE  Sound' /\ InTurn'
<1>1. /\ UNCHANGED <<call, overlap, parallel, tableVars>>
      /\ Applying' <=> Applying
      /\ Applying => UNCHANGED loaded
  <2>1. CASE Edit \/ BeginStop
    BY <2>1 DEF Edit, BeginStop, Applying
  <2>2. CASE StartReloader \/ Poll \/ Load
    BY <2>2 DEF StartReloader, Poll, Load, Applying
  <2>3. CASE SubscriberFails \/ WatcherDies \/ EndStop
    BY <2>3 DEF SubscriberFails, WatcherDies, EndStop, TaskDone, Applying
  <2> QED
    BY <2>1, <2>2, <2>3
<1>2. UNCHANGED <<table, fallback, place, rules>>
  BY <1>1 DEF tableVars
<1>3. InTurn'
  BY <1>1 DEF InTurn, TurnsKept
<1>4. Decided'
  BY <1>1, <1>2 DEF Sound, Decided, CallOK
<1>5. Tables'
  <2>1. Made(Rules[rules])' <=> Made(Rules[rules])
    BY <1>1, <1>2 DEF Made, Counted
  <2>2. Applying => (Position' <=> Position) /\ (Filling' <=> Filling)
    BY <1>1, <1>2 DEF Position, Filling, Placed, Counted
  <2> QED
    BY <1>1, <1>2, <2>1, <2>2 DEF Sound, Tables
<1>6. CallsTyped' /\ TablesTyped'
  BY <1>1, <1>2, TypesSplit DEF Sound, CallsTyped, TablesTyped
<1> SUFFICES RestTyped' /\ Abreast'
  BY <1>3, <1>4, <1>5, <1>6
     DEF Sound, TypeOK, CallsTyped, TablesTyped, RestTyped, CallState
<1>7. /\ file \in [content : Contents, signature : 0 .. MaxEdits]
      /\ rules \in Configs \ Invalid
      /\ overlap \in Overlaps /\ parallel \in ParallelModes
      /\ watcher \in {"none", "sleeping", "loading", "notifying", "applying", "ended"}
      /\ previous \in -1 .. MaxEdits /\ loaded \in Contents
      /\ stopping \in BOOLEAN /\ faults \in 0 .. MaxFaults /\ mishap \in BOOLEAN
      /\ file.content \in Contents /\ file.signature \in 0 .. MaxEdits
  BY DEF Sound, TypeOK
<1>8. MaxEdits \in Nat /\ MaxFaults \in Nat /\ Missing \notin Configs /\ Missing \in Contents
  BY HotRoutingAssumption DEF Contents
<1>9. /\ previous <= file.signature
      /\ watcher \in {"notifying", "applying"} =>
           loaded \in Configs \ Invalid /\ (SettledFile => loaded = file.content)
      /\ watcher = "sleeping" /\ SettledFile => rules = file.content
  BY DEF Sound, Abreast, CaughtUp
<1>10. CASE Edit
  <2>1. PICK x \in Contents : file' = [content |-> x, signature |-> file.signature + 1]
    BY <1>10 DEF Edit
  <2>2. file.signature < MaxEdits /\ mishap' = FALSE
        /\ UNCHANGED <<rules, watcher, previous, loaded, stopping, faults>>
    BY <1>2, <1>10 DEF Edit
  <2>3. file'.signature = file.signature + 1 /\ file'.signature \in 0 .. MaxEdits
    BY <1>7, <1>8, <2>1, <2>2
  <2>4. file' \in [content : Contents, signature : 0 .. MaxEdits]
    BY <2>1, <2>3
  <2>5. previous' <= file'.signature /\ previous' # file'.signature
    BY <1>7, <1>8, <1>9, <2>2, <2>3
  <2>6. Abreast'
    BY <1>9, <2>2, <2>5 DEF Abreast, CaughtUp, SettledFile
  <2>7. RestTyped'
    BY <1>1, <1>7, <2>2, <2>4 DEF RestTyped
  <2> QED
    BY <2>6, <2>7
<1>11. CASE Poll
  <2>1. /\ UNCHANGED <<file, loaded, stopping, faults, mishap>>
        /\ \/ UNCHANGED <<watcher, previous>>
           \/ watcher' = "loading" /\ previous' = file.signature
    BY <1>11 DEF Poll
  <2>2. Abreast'
    BY <1>2, <1>7, <1>9, <2>1 DEF Abreast, CaughtUp, SettledFile
  <2>3. RestTyped'
    BY <1>1, <1>2, <1>7, <1>8, <2>1 DEF RestTyped
  <2> QED
    BY <2>2, <2>3
<1>12. CASE Load
  <2>1. /\ UNCHANGED <<file, previous, stopping, faults, mishap>>
        /\ \/ /\ file.content \in Invalid \cup {Missing}
              /\ watcher' = "sleeping" /\ UNCHANGED loaded
           \/ /\ file.content \notin Invalid \cup {Missing}
              /\ watcher' = "notifying" /\ loaded' = file.content
    BY <1>12 DEF Load
  <2>2. file.content \notin Invalid \cup {Missing} => file.content \in Configs \ Invalid
    BY <1>7 DEF Contents
  <2>3. Abreast'
    BY <1>2, <1>8, <1>9, <2>1, <2>2 DEF Abreast, CaughtUp, SettledFile
  <2>4. RestTyped'
    BY <1>1, <1>2, <1>7, <2>1 DEF RestTyped
  <2> QED
    BY <2>3, <2>4
<1>13. CASE SubscriberFails \/ WatcherDies
  <2>1. /\ UNCHANGED <<file, previous, stopping>>
        /\ watcher' \in {"sleeping", "ended"} /\ mishap' = TRUE /\ loaded' = Missing
        /\ faults < MaxFaults /\ faults' = faults + 1
    BY <1>13 DEF SubscriberFails, WatcherDies
  <2>2. faults' \in 0 .. MaxFaults
    BY <1>7, <1>8, <2>1
  <2>3. Abreast'
    BY <1>9, <2>1 DEF Abreast, CaughtUp, SettledFile
  <2>4. RestTyped'
    BY <1>1, <1>2, <1>7, <1>8, <2>1, <2>2 DEF RestTyped
  <2> QED
    BY <2>3, <2>4
<1>14. CASE StartReloader
  <2>1. /\ UNCHANGED <<file, loaded, stopping, faults, mishap>>
        /\ watcher' = "sleeping" /\ previous' = -1
    BY <1>14 DEF StartReloader
  <2>2. previous' <= file'.signature /\ previous' # file'.signature /\ previous' \in -1 .. MaxEdits
    BY <1>7, <1>8, <2>1
  <2>3. Abreast'
    BY <1>9, <2>1, <2>2 DEF Abreast, CaughtUp, SettledFile
  <2>4. RestTyped'
    BY <1>1, <1>2, <1>7, <2>1, <2>2 DEF RestTyped
  <2> QED
    BY <2>3, <2>4
<1>15. CASE BeginStop \/ EndStop
  <2>1. /\ UNCHANGED <<file, previous, loaded, faults, mishap>>
        /\ stopping' \in BOOLEAN /\ watcher' \in {watcher, "none"}
    BY <1>15 DEF BeginStop, EndStop
  <2>2. Abreast'
    BY <1>2, <1>9, <2>1 DEF Abreast, CaughtUp, SettledFile
  <2>3. RestTyped'
    BY <1>1, <1>2, <1>7, <2>1 DEF RestTyped
  <2> QED
    BY <2>2, <2>3
<1> QED
  BY <1>10, <1>11, <1>12, <1>13, <1>14, <1>15

-----------------------------------------------------------------------------
(* update_rules(), step by step.                                            *)

\* A step of the rebuilding: what it has to bring along.
LEMMA UpdateFrame ==
  ASSUME Sound, UNCHANGED <<file, overlap, parallel, rules, reloadVars>>,
         CallsTyped', TablesTyped', Tables', Decided'
  PROVE  Sound'
<1>1. UNCHANGED <<watcher, previous, loaded, stopping, faults, mishap>>
  BY DEF reloadVars
<1>2. Abreast'
  BY <1>1 DEF Sound, Abreast, CaughtUp, SettledFile
<1>3. RestTyped'
  BY <1>1, TypesSplit DEF Sound, RestTyped
<1>4. TypeOK'
  BY <1>3 DEF TypeOK, CallsTyped, TablesTyped, RestTyped, CallState
<1> QED
  BY <1>2, <1>4 DEF Sound

\* What update_rules() works on.
LEMMA AtWork ==
  ASSUME Sound, watcher \in {"notifying", "applying"}
  PROVE  /\ loaded \in Configs \ Invalid /\ Rules[loaded] \in Routing
         /\ Len(Rules[loaded].rules) \in Nat
         /\ \A i \in 1 .. Len(Rules[loaded].rules) :
              /\ Rules[loaded].rules[i].sinks \in Seq(Sinks)
              /\ Rules[loaded].rules[i].levels \in SUBSET (Levels \cup {Wildcard})
         /\ place.rule \in Nat
         /\ overlap \in BOOLEAN
<1>1. loaded \in Configs \ Invalid
  BY DEF Sound, Abreast
<1>2. Rules[loaded] \in Routing
  BY <1>1, RulesTyped
<1>3. ASSUME NEW i \in 1 .. Len(Rules[loaded].rules)
      PROVE  Rules[loaded].rules[i].levels \in SUBSET (Levels \cup {Wildcard})
  <2>1. Rules[loaded].rules[i] \in Route
    BY <1>2, RoutingParts, ElementOfSeq
  <2> QED
    BY <2>1 DEF Route
<1> QED
  BY <1>1, <1>2, <1>3, RoutingParts, HotRoutingAssumption DEF Sound, TypeOK

\* Lists that the writes let go of.
LEMMA WritesDetach ==
  ASSUME CallsTyped, NEW of \in SUBSET Sources, NEW w \in Writers
  PROVE  LET c == call[w]
             d == Detached(of)[w]
         IN /\ d \in CallState /\ d.phase = c.phase /\ d.level = c.level /\ d.hit = c.hit
            /\ d.config = c.config /\ d.torn = c.torn /\ d.together = c.together
            /\ d.targets = c.targets /\ d.status = c.status
            /\ d.source = IF c.source \in of THEN Missing ELSE c.source
<1>1. PICK c : c = call[w]
  OBVIOUS
<1>2. c \in CallState
  BY <1>1 DEF CallsTyped
<1>3. PICK d : d = IF c.source \in of THEN [c EXCEPT !.source = Missing] ELSE c
  OBVIOUS
<1>4. Detached(of)[w] = d
  BY <1>1, <1>3 DEF Detached
<1>5. Missing \in Sources
  BY DEF Sources
<1>6. /\ d \in CallState /\ d.phase = c.phase /\ d.level = c.level /\ d.hit = c.hit
      /\ d.config = c.config /\ d.torn = c.torn /\ d.together = c.together
      /\ d.targets = c.targets /\ d.status = c.status
      /\ d.source = IF c.source \in of THEN Missing ELSE c.source
  BY <1>2, <1>3, <1>5 DEF CallState
<1> QED
  BY <1>1, <1>4, <1>6

\* A list that grows, and with it the targets of the writes that hold it.
LEMMA WritesGrow ==
  ASSUME CallsTyped, NEW of \in Sources, NEW more \in Seq(Sinks), NEW w \in Writers,
         CallOK(call[w]), TurnsKept(call[w]), of # Missing
  PROVE  LET c == call[w]
             d == Grown(of, more)[w]
         IN /\ d \in CallState /\ TurnsKept(d) /\ Len(d.status) = Len(d.targets)
            /\ d.phase = c.phase /\ d.level = c.level /\ d.hit = c.hit
            /\ d.config = c.config /\ d.torn = c.torn /\ d.source = c.source
            /\ c.source # of => d = c
<1>1. PICK c : c = call[w]
  OBVIOUS
<1>2. c \in CallState /\ Len(c.status) = Len(c.targets) /\ TurnsKept(c)
  BY <1>1 DEF CallsTyped, CallOK
<1>3. CASE c.source # of
  BY <1>1, <1>2, <1>3 DEF Grown
<1>4. CASE c.source = of
  <2>1. PICK tail : tail = [i \in 1 .. Len(more) |-> "waiting"]
    OBVIOUS
  <2>2. PICK targets : targets = c.targets \o more
    OBVIOUS
  <2>3. PICK status : status = c.status \o tail
    OBVIOUS
  <2>4. PICK d : d = [c EXCEPT !.targets = targets, !.status = status]
    OBVIOUS
  <2>5. Grown(of, more)[w] = d
    BY <1>1, <1>4, <2>1, <2>2, <2>3, <2>4 DEF Grown
  <2>6. c.targets \in Seq(Sinks) /\ c.status \in Seq(Status)
    BY <1>2 DEF CallState
  <2>7. Len(more) \in Nat /\ tail \in Seq(Status) /\ Len(tail) = Len(more)
        /\ \A i \in 1 .. Len(tail) : tail[i] = "waiting"
    <3>1. Len(more) \in Nat
      BY LenProperties
    <3> QED
      BY <2>1, <3>1 DEF Status
  <2>8. targets \in Seq(Sinks) /\ Len(targets) = Len(c.targets) + Len(more)
    BY <2>2, <2>6, ConcatProperties
  <2>9. /\ status \in Seq(Status) /\ Len(status) = Len(c.status) + Len(tail)
        /\ \A i \in 1 .. Len(c.status) + Len(tail) :
             status[i] = IF i <= Len(c.status) THEN c.status[i] ELSE tail[i - Len(c.status)]
        /\ Len(c.status) \in Nat
    <3>1. Len(c.status) \in Nat
      BY <2>6, LenProperties
    <3>2. tail \in Seq(Status)
      BY <2>7
    <3>3. /\ status \in Seq(Status) /\ Len(status) = Len(c.status) + Len(tail)
          /\ \A i \in 1 .. Len(c.status) + Len(tail) :
               status[i] = IF i <= Len(c.status) THEN c.status[i] ELSE tail[i - Len(c.status)]
      BY <2>3, <2>6, <3>2, ConcatProperties
    <3> QED
      BY <3>1, <3>3
  <2>10. /\ d \in CallState /\ d.phase = c.phase /\ d.level = c.level /\ d.hit = c.hit
         /\ d.config = c.config /\ d.torn = c.torn /\ d.source = c.source
         /\ d.together = c.together /\ d.targets = targets /\ d.status = status
    BY <1>2, <2>4, <2>8, <2>9 DEF CallState
  <2>11. Len(d.status) = Len(d.targets)
    BY <1>2, <2>7, <2>8, <2>9, <2>10
  <2>12. TurnsKept(d)
    <3> SUFFICES ASSUME ~c.together, NEW i \in 1 .. Len(status), NEW j \in 1 .. Len(status),
                        i < j, status[j] # "waiting"
                 PROVE  status[i] = "done"
      BY <2>10 DEF TurnsKept
    <3>1. j <= Len(c.status)
      <4> SUFFICES ASSUME ~(j <= Len(c.status)) PROVE FALSE
        OBVIOUS
      <4>1. j - Len(c.status) \in 1 .. Len(tail)
        BY <2>7, <2>9
      <4>2. status[j] = tail[j - Len(c.status)]
        BY <2>9
      <4> QED
        BY <2>7, <4>1, <4>2
    <3>2. i \in 1 .. Len(c.status) /\ j \in 1 .. Len(c.status)
      BY <2>9, <3>1
    <3>3. status[i] = c.status[i] /\ status[j] = c.status[j]
      BY <2>7, <2>9, <3>2
    <3> QED
      BY <1>2, <3>2, <3>3 DEF TurnsKept
  <2> QED
    BY <1>1, <1>4, <2>5, <2>10, <2>11, <2>12
<1> QED
  BY <1>3, <1>4

LEMMA ClearSound ==
  ASSUME Sound, InTurn, ClearTable
  PROVE  Sound' /\ InTurn'
<1>1. /\ watcher = "notifying" /\ watcher' = "applying" /\ table' = <<>>
      /\ UNCHANGED <<file, overlap, parallel, fallback, place, rules, previous, loaded,
                     stopping, faults, mishap>>
      /\ call' = [w \in Writers |-> [Detached(Levels)[w] EXCEPT
                                      !.torn = @ \/ call[w].phase = "looking"]]
  BY DEF ClearTable
<1>2. DOMAIN table' = {} /\ place = Nowhere /\ place' = Nowhere
  BY <1>1 DEF Sound, Tables, Applying
<1>3. CallsTyped /\ TablesTyped /\ RestTyped
  BY TypesSplit DEF Sound
<1>4. ASSUME NEW w \in Writers
      PROVE  call'[w] \in CallState /\ CallOK(call[w])' /\ TurnsKept(call[w])'
  <2>1. PICK c : c = call[w]
    OBVIOUS
  <2>2. PICK d : d = Detached(Levels)[w]
    OBVIOUS
  <2>3. Levels \in SUBSET Sources
    BY DEF Sources
  <2>4. /\ d \in CallState /\ d.phase = c.phase /\ d.level = c.level /\ d.hit = c.hit
        /\ d.config = c.config /\ d.torn = c.torn /\ d.together = c.together
        /\ d.targets = c.targets /\ d.status = c.status
        /\ d.source = IF c.source \in Levels THEN Missing ELSE c.source
    BY <1>3, <2>1, <2>2, <2>3, WritesDetach
  <2>5. PICK torn : torn = (d.torn \/ c.phase = "looking")
    OBVIOUS
  <2>6. PICK e : e = [d EXCEPT !.torn = torn]
    OBVIOUS
  <2>7. call'[w] = e
    BY <1>1, <2>1, <2>2, <2>5, <2>6
  <2>8. torn \in BOOLEAN
    BY <2>4, <2>5 DEF CallState
  <2>9. /\ e \in CallState /\ e.phase = c.phase /\ e.level = c.level /\ e.config = c.config
        /\ (e.torn <=> (c.torn \/ c.phase = "looking")) /\ e.together = c.together
        /\ e.targets = c.targets /\ e.status = c.status
        /\ e.source = IF c.source \in Levels THEN Missing ELSE c.source
    BY <2>4, <2>5, <2>6, <2>8 DEF CallState
  <2>10. CallOK(c) /\ TurnsKept(c)
    BY <2>1 DEF Sound, Decided, InTurn
  <2>11. CallOK(call[w])'
    <3>1. place'.rule = 0 /\ overlap' = overlap /\ rules' = rules
      BY <1>1, <1>2 DEF Nowhere
    <3>2. e.source \notin Levels
      BY <2>9, HotRoutingAssumption
    <3>3. Len(e.status) = Len(e.targets) /\ (e.source # Missing => e.phase = "listed")
      BY <2>9, <2>10 DEF CallOK
    <3>4. e.phase = "looking" =>
            e.level \in Levels /\ e.config \in Configs \ Invalid /\ e.torn
      BY <2>9, <2>10 DEF CallOK
    <3>5. e.phase = "listed" /\ ~e.torn =>
            /\ e.config \in Configs \ Invalid
            /\ ToSet(e.targets) = Goes(overlap, Rules[e.config], e.level)
      BY <2>9, <2>10 DEF CallOK
    <3> QED
      BY <2>7, <3>1, <3>2, <3>3, <3>4, <3>5 DEF CallOK
  <2>12. TurnsKept(call[w])'
    BY <2>7, <2>9, <2>10 DEF TurnsKept
  <2> QED
    BY <2>7, <2>9, <2>11, <2>12
<1>5. CallsTyped' /\ Decided' /\ InTurn'
  <2>1. call' = [w \in Writers |-> call'[w]]
    BY <1>1
  <2> QED
    BY <1>4, <2>1 DEF CallsTyped, Decided, InTurn
<1>6. TablesTyped'
  <2>1. table' \in [DOMAIN table' -> Seq(Sinks)]
    BY <1>1, <1>2
  <2> QED
    BY <1>1, <1>2, <1>3, <2>1 DEF TablesTyped
<1>7. RestTyped'
  BY <1>1, <1>3 DEF RestTyped
<1>8. Tables'
  BY <1>1, <1>2 DEF Tables, Applying, Nowhere
<1>9. Abreast'
  BY <1>1 DEF Sound, Abreast, CaughtUp, SettledFile
<1>10. TypeOK'
  BY <1>5, <1>6, <1>7 DEF TypeOK, CallsTyped, TablesTyped, RestTyped, CallState
<1> QED
  BY <1>5, <1>8, <1>9, <1>10 DEF Sound

\* update_rules() turns to a rule: nothing is placed yet that was not before.
LEMMA TurnsToRule ==
  ASSUME Sound, Applying, NEW i \in 1 .. Len(Rules[loaded].rules) + 1,
         place' = AtRule(i), UNCHANGED loaded
  PROVE  /\ place' \in [rule : Nat, left : SUBSET (Levels \cup {Wildcard}),
                        open : Levels \cup {Missing}]
         /\ place'.rule = i /\ place'.open = Missing
         /\ place'.left = IF i > Len(Rules[loaded].rules) THEN {}
                          ELSE Rules[loaded].rules[i].levels
         /\ \A level : Placed(level)' = {r \in RulesFor(Rules[loaded], level) : r < i}
<1>1. /\ Len(Rules[loaded].rules) \in Nat /\ i \in Nat
      /\ \A k \in 1 .. Len(Rules[loaded].rules) :
           Rules[loaded].rules[k].levels \in SUBSET (Levels \cup {Wildcard})
  BY AtWork DEF Applying
<1> DEFINE left == IF i > Len(Rules[loaded].rules) THEN {} ELSE Rules[loaded].rules[i].levels
<1>2. left \in SUBSET (Levels \cup {Wildcard})
  BY <1>1
<1>3. place'.rule = i /\ place'.open = Missing /\ place'.left = left
      /\ place' = [rule |-> i, open |-> Missing, left |-> left]
  BY DEF AtRule
<1>4. ASSUME NEW level
      PROVE  Placed(level)' = {r \in RulesFor(Rules[loaded], level) : r < i}
  <2>1. \A r \in RulesFor(Rules[loaded], level) : r = i => level \in left
    BY <1>1 DEF RulesFor
  <2> HIDE DEF left
  <2> QED
    BY <1>3, <2>1 DEF Placed
<1> HIDE DEF left
<1>5. place' \in [rule : Nat, left : SUBSET (Levels \cup {Wildcard}), open : Levels \cup {Missing}]
  BY <1>1, <1>2, <1>3
<1> QED
  BY <1>3, <1>4, <1>5 DEF left

LEMMA FallbackSound ==
  ASSUME Sound, InTurn, ReplaceFallback
  PROVE  Sound' /\ InTurn'
<1>1. /\ watcher = "applying" /\ place.rule = 0 /\ place' = AtRule(1)
      /\ fallback' = Rules[loaded].fallback /\ call' = Detached({Wildcard})
      /\ UNCHANGED <<file, overlap, parallel, table, rules, reloadVars>>
      /\ UNCHANGED <<watcher, loaded>>
  BY DEF ReplaceFallback, reloadVars
<1>2. Applying /\ Applying' /\ Len(Rules[loaded].rules) \in Nat /\ Rules[loaded] \in Routing
  BY <1>1, AtWork DEF Applying
<1>3. 1 \in 1 .. Len(Rules[loaded].rules) + 1
  BY <1>2
<1>4. /\ place' \in [rule : Nat, left : SUBSET (Levels \cup {Wildcard}),
                     open : Levels \cup {Missing}]
      /\ place'.rule = 1 /\ place'.open = Missing
      /\ place'.left = IF 1 > Len(Rules[loaded].rules) THEN {}
                       ELSE Rules[loaded].rules[1].levels
      /\ \A level : Placed(level)' = {r \in RulesFor(Rules[loaded], level) : r < 1}
  BY <1>1, <1>2, <1>3, TurnsToRule
<1>5. \A level : Placed(level)' = {}
  <2>1. \A level : \A r \in RulesFor(Rules[loaded], level) : ~(r < 1)
    BY <1>2 DEF RulesFor
  <2> QED
    BY <1>4, <2>1
<1>6. CallsTyped /\ TablesTyped
  BY TypesSplit DEF Sound
<1>7. ASSUME NEW w \in Writers
      PROVE  call'[w] \in CallState /\ CallOK(call[w])' /\ TurnsKept(call[w])'
  <2>1. PICK c : c = call[w]
    OBVIOUS
  <2>2. PICK d : d = Detached({Wildcard})[w]
    OBVIOUS
  <2>3. {Wildcard} \in SUBSET Sources
    BY DEF Sources
  <2>4. /\ d \in CallState /\ d.phase = c.phase /\ d.level = c.level /\ d.hit = c.hit
        /\ d.config = c.config /\ d.torn = c.torn /\ d.together = c.together
        /\ d.targets = c.targets /\ d.status = c.status
        /\ d.source = IF c.source \in {Wildcard} THEN Missing ELSE c.source
    BY <1>6, <2>1, <2>2, <2>3, WritesDetach
  <2>5. call'[w] = d
    BY <1>1, <2>2
  <2>6. CallOK(c) /\ TurnsKept(c)
    BY <2>1 DEF Sound, Decided, InTurn
  <2>7. CallOK(call[w])'
    BY <1>1, <1>2, <2>4, <2>5, <2>6, HotRoutingAssumption DEF CallOK, Wildcard, Missing
  <2>8. TurnsKept(call[w])'
    BY <2>4, <2>5, <2>6 DEF TurnsKept
  <2> QED
    BY <2>4, <2>5, <2>7, <2>8
<1>8. CallsTyped' /\ Decided' /\ InTurn'
  <2>1. call' = [w \in Writers |-> call'[w]]
    BY <1>1 DEF Detached
  <2> QED
    BY <1>7, <2>1 DEF CallsTyped, Decided, InTurn
<1>9. TablesTyped'
  <2>1. fallback' \in Seq(Sinks)
    BY <1>1, <1>2, RoutingParts
  <2> QED
    BY <1>1, <1>4, <1>6, <2>1 DEF TablesTyped
<1>10. DOMAIN table' = {}
  BY <1>1, <1>2 DEF Sound, Tables
<1>11. Position'
  BY <1>1, <1>3, <1>4 DEF Position
<1>12. Filling'
  <2>1. ToSet(fallback') = Named(Rules[loaded], {}) \cup ToSet(Rules[loaded].fallback)
    BY <1>1 DEF Named
  <2>2. \A level \in Levels : level # Missing
    BY HotRoutingAssumption
  <2> QED
    BY <1>1, <1>4, <1>5, <1>10, <2>1, <2>2 DEF Filling
<1>13. Tables'
  BY <1>2, <1>4, <1>11, <1>12 DEF Tables
<1> QED
  BY <1>1, <1>8, <1>9, <1>13, UpdateFrame

LEMMA NextRuleSound ==
  ASSUME Sound, InTurn, NextRule
  PROVE  Sound' /\ InTurn'
<1>1. /\ watcher = "applying" /\ place.left = {}
      /\ place.rule \in 1 .. Len(Rules[loaded].rules) /\ place' = AtRule(place.rule + 1)
      /\ UNCHANGED <<file, overlap, parallel, table, fallback, rules, call, reloadVars>>
      /\ UNCHANGED <<watcher, loaded>>
  BY DEF NextRule, reloadVars
<1>2. Applying /\ Applying' /\ Len(Rules[loaded].rules) \in Nat /\ place.rule # 0
      /\ place.rule \in Nat
  BY <1>1, AtWork DEF Applying
<1>3. place.rule + 1 \in 1 .. Len(Rules[loaded].rules) + 1
  BY <1>1, <1>2
<1>4. /\ place' \in [rule : Nat, left : SUBSET (Levels \cup {Wildcard}),
                     open : Levels \cup {Missing}]
      /\ place'.rule = place.rule + 1 /\ place'.open = Missing
      /\ place'.left = IF place.rule + 1 > Len(Rules[loaded].rules) THEN {}
                       ELSE Rules[loaded].rules[place.rule + 1].levels
      /\ \A level : Placed(level)' = {r \in RulesFor(Rules[loaded], level) : r < place.rule + 1}
  BY <1>1, <1>2, <1>3, TurnsToRule
<1>5. Position /\ Filling
  BY <1>2 DEF Sound, Tables
<1>6. place.open = Missing
  BY <1>1, <1>5 DEF Position
<1>7. \A level : Placed(level)' = Placed(level)
  <2>1. \A level : \A r \in RulesFor(Rules[loaded], level) :
          r < place.rule + 1 <=> (r < place.rule \/ r = place.rule)
    BY <1>2 DEF RulesFor
  <2>2. \A level : Placed(level) =
          {r \in RulesFor(Rules[loaded], level) : r < place.rule \/ r = place.rule}
    BY <1>1 DEF Placed
  <2> QED
    BY <1>4, <2>1, <2>2
<1>8. Position'
  BY <1>1, <1>3, <1>4 DEF Position
<1>9. Filling'
  <2>1. ASSUME NEW m \in Levels
        PROVE  m \in DOMAIN table' <=> Placed(m)' # {} \/ m = place'.open
    BY <1>1, <1>4, <1>5, <1>6, <1>7 DEF Filling
  <2>2. ASSUME NEW m \in DOMAIN table'
        PROVE  ToSet(table'[m]) = Named(Rules[loaded], Counted(overlap, Placed(m)'))
    BY <1>1, <1>5, <1>7 DEF Filling
  <2>3. ToSet(fallback') = Named(Rules[loaded], Placed(Wildcard)') \cup ToSet(Rules[loaded].fallback)
    BY <1>1, <1>5, <1>7 DEF Filling
  <2> QED
    BY <1>1, <2>1, <2>2, <2>3 DEF Filling
<1>10. Tables'
  BY <1>2, <1>4, <1>8, <1>9 DEF Tables
<1>11. CallsTyped' /\ TablesTyped'
  BY <1>1, <1>4, TypesSplit DEF Sound, CallsTyped, TablesTyped
<1>12. Decided'
  BY <1>1, <1>2, <1>4 DEF Sound, Decided, CallOK
<1>13. InTurn'
  BY <1>1 DEF InTurn, TurnsKept
<1> QED
  BY <1>1, <1>10, <1>11, <1>12, <1>13, UpdateFrame

\* A level of the rule at hand is placed.
LEMMA OneMorePlaced ==
  ASSUME Sound, Applying, place.rule # 0, NEW level \in place.left, UNCHANGED loaded,
         place'.rule = place.rule, place'.left = place.left \ {level}
  PROVE  /\ place.rule \in 1 .. Len(Rules[loaded].rules)
         /\ \A r \in Placed(level) : r < place.rule
         /\ Placed(level) \subseteq Nat
         /\ Placed(level)' = Placed(level) \cup {place.rule}
         /\ \A m : m # level => Placed(m)' = Placed(m)
<1>1. Position /\ Len(Rules[loaded].rules) \in Nat /\ place.rule \in Nat
  BY AtWork DEF Sound, Tables, Applying
<1>2. place.rule \in 1 .. Len(Rules[loaded].rules)
      /\ level \in Rules[loaded].rules[place.rule].levels
  BY <1>1 DEF Position
<1>3. place.rule \in RulesFor(Rules[loaded], level)
  BY <1>2 DEF RulesFor
<1>4. RulesFor(Rules[loaded], level) \subseteq Nat
  BY <1>1 DEF RulesFor
<1>5. \A r \in Placed(level) : r < place.rule
  BY DEF Placed
<1>6. Placed(level)' = Placed(level) \cup {place.rule}
  <2>1. Placed(level) = {r \in RulesFor(Rules[loaded], level) : r < place.rule}
    BY DEF Placed
  <2>2. Placed(level)' = {r \in RulesFor(Rules[loaded], level) :
                            r < place.rule \/ r = place.rule}
    BY DEF Placed
  <2> QED
    BY <1>3, <2>1, <2>2
<1>7. \A m : m # level => Placed(m)' = Placed(m)
  BY DEF Placed
<1>8. Placed(level) \subseteq Nat
  BY <1>4 DEF Placed
<1> QED
  BY <1>2, <1>5, <1>6, <1>7, <1>8

\* The writes while a list is extended: those that hold it looked during the rebuilding.
LEMMA GrowingHarmless ==
  ASSUME Sound, InTurn, Applying, place.rule # 0, place'.rule = place.rule,
         NEW of \in Levels \cup {Wildcard}, NEW more \in Seq(Sinks), call' = Grown(of, more),
         UNCHANGED <<overlap, rules, watcher>>
  PROVE  CallsTyped' /\ Decided' /\ InTurn'
<1>1. of \in Sources /\ of # Missing /\ Applying'
  BY HotRoutingAssumption DEF Sources, Wildcard, Missing, Applying
<1>2. CallsTyped
  BY TypesSplit DEF Sound
<1>3. ASSUME NEW w \in Writers
      PROVE  call'[w] \in CallState /\ CallOK(call[w])' /\ TurnsKept(call[w])'
  <2>1. PICK c : c = call[w]
    OBVIOUS
  <2>2. PICK d : d = Grown(of, more)[w]
    OBVIOUS
  <2>3. CallOK(c) /\ TurnsKept(c)
    BY <2>1 DEF Sound, Decided, InTurn
  <2>4. /\ d \in CallState /\ TurnsKept(d) /\ Len(d.status) = Len(d.targets)
        /\ d.phase = c.phase /\ d.level = c.level /\ d.hit = c.hit
        /\ d.config = c.config /\ d.torn = c.torn /\ d.source = c.source
        /\ c.source # of => d = c
    BY <1>1, <1>2, <2>1, <2>2, <2>3, WritesGrow
  <2>5. call'[w] = d
    BY <2>2
  <2>6. c.source = of => c.torn
    BY <2>3 DEF CallOK
  <2>7. CallOK(call[w])'
    BY <1>1, <2>3, <2>4, <2>5, <2>6 DEF CallOK
  <2>8. TurnsKept(call[w])'
    BY <2>4, <2>5 DEF TurnsKept
  <2> QED
    BY <2>4, <2>5, <2>7, <2>8
<1>4. call' = [w \in Writers |-> call'[w]]
  BY DEF Grown
<1> QED
  BY <1>3, <1>4 DEF CallsTyped, Decided, InTurn

\* The writes while no list they may hold is touched.
LEMMA WritesUntouched ==
  ASSUME Sound, InTurn, Applying, place'.rule = place.rule, UNCHANGED <<call, overlap, rules, watcher>>
  PROVE  CallsTyped' /\ Decided' /\ InTurn'
<1>1. CallsTyped'
  BY TypesSplit DEF Sound, CallsTyped
<1>2. Decided'
  BY DEF Sound, Decided, CallOK, Applying
<1>3. InTurn'
  BY DEF InTurn, TurnsKept
<1> QED
  BY <1>1, <1>2, <1>3

LEMMA WildcardSound ==
  ASSUME Sound, InTurn, PlaceWildcard
  PROVE  Sound' /\ InTurn'
<1>1. /\ watcher = "applying" /\ place.open = Missing /\ Wildcard \in place.left
      /\ fallback' = fallback \o Resolved /\ call' = Grown(Wildcard, Resolved)
      /\ place' = [place EXCEPT !.left = @ \ {Wildcard}]
      /\ UNCHANGED <<file, overlap, parallel, table, rules, reloadVars>>
      /\ UNCHANGED <<watcher, loaded>>
  BY DEF PlaceWildcard, Placing, reloadVars
<1>2. Applying /\ Applying' /\ CallsTyped /\ TablesTyped
  BY <1>1, TypesSplit DEF Applying, Sound
<1>3. place.rule # 0
  BY <1>1, <1>2 DEF Sound, Tables, Nowhere
<1>4. Position /\ Filling
  BY <1>2, <1>3 DEF Sound, Tables
<1>5. /\ place'.rule = place.rule /\ place'.left = place.left \ {Wildcard}
      /\ place'.open = Missing
      /\ place' \in [rule : Nat, left : SUBSET (Levels \cup {Wildcard}),
                     open : Levels \cup {Missing}]
  BY <1>1, <1>2 DEF TablesTyped
<1>6. /\ place.rule \in 1 .. Len(Rules[loaded].rules)
      /\ Placed(Wildcard)' = Placed(Wildcard) \cup {place.rule}
      /\ \A m : m # Wildcard => Placed(m)' = Placed(m)
  BY <1>1, <1>2, <1>3, <1>5, OneMorePlaced
<1>7. Resolved \in Seq(Sinks)
  BY <1>1, <1>6, AtWork DEF Resolved
<1>8. fallback' \in Seq(Sinks) /\ ToSet(fallback') = ToSet(fallback) \cup ToSet(Resolved)
  BY <1>1, <1>2, <1>7, ConcatHolds DEF TablesTyped
<1>9. CallsTyped' /\ Decided' /\ InTurn'
  BY <1>1, <1>2, <1>3, <1>5, <1>7, GrowingHarmless
<1>10. TablesTyped'
  BY <1>1, <1>2, <1>5, <1>8 DEF TablesTyped
<1>11. Position'
  BY <1>1, <1>4, <1>5 DEF Position
<1>12. Filling'
  <2>1. ToSet(fallback') = Named(Rules[loaded], Placed(Wildcard) \cup {place.rule})
                             \cup ToSet(Rules[loaded].fallback)
    BY <1>4, <1>8 DEF Filling, Named, Resolved
  <2>2. \A level \in Levels : Placed(level)' = Placed(level)
    BY <1>6, HotRoutingAssumption
  <2>3. DOMAIN table \subseteq Levels
    BY <1>2 DEF TablesTyped
  <2>4. Placed(Wildcard)' = Placed(Wildcard) \cup {place.rule}
    BY <1>6
  <2>5. ASSUME NEW m \in Levels
        PROVE  m \in DOMAIN table' <=> Placed(m)' # {} \/ m = place'.open
    BY <1>1, <1>4, <1>5, <2>2 DEF Filling
  <2>6. ASSUME NEW m \in DOMAIN table'
        PROVE  ToSet(table'[m]) = Named(Rules[loaded], Counted(overlap, Placed(m)'))
    BY <1>1, <1>4, <2>2, <2>3 DEF Filling
  <2>7. ToSet(fallback') = Named(Rules[loaded], Placed(Wildcard)') \cup ToSet(Rules[loaded].fallback)
    BY <2>1, <2>4
  <2> QED
    BY <1>1, <2>5, <2>6, <2>7 DEF Filling
<1>13. Tables'
  BY <1>2, <1>3, <1>5, <1>11, <1>12 DEF Tables
<1> QED
  BY <1>1, <1>9, <1>10, <1>13, UpdateFrame

LEMMA AddSound ==
  ASSUME Sound, InTurn, NEW level \in Levels, AddLevel(level)
  PROVE  Sound' /\ InTurn'
<1>1. PICK new : new = IF overlap THEN <<>> ELSE Resolved
  OBVIOUS
<1>2. /\ watcher = "applying" /\ place.open = Missing /\ level \in place.left
      /\ level \notin DOMAIN table
      /\ table' = [l \in DOMAIN table \cup {level} |-> IF l = level THEN new ELSE table[l]]
      /\ place' = IF overlap THEN [place EXCEPT !.open = level]
                  ELSE [place EXCEPT !.left = @ \ {level}]
      /\ UNCHANGED <<file, overlap, parallel, fallback, rules, call, reloadVars>>
      /\ UNCHANGED <<watcher, loaded>>
  BY <1>1 DEF AddLevel, Placing, reloadVars
<1>3. Applying /\ Applying' /\ TablesTyped
  BY <1>2, TypesSplit DEF Applying, Sound
<1>4. place.rule # 0
  BY <1>2, <1>3 DEF Sound, Tables, Nowhere
<1>5. Position /\ Filling
  BY <1>3, <1>4 DEF Sound, Tables
<1>6. /\ place'.rule = place.rule
      /\ place'.left = IF overlap THEN place.left ELSE place.left \ {level}
      /\ place'.open = IF overlap THEN level ELSE Missing
      /\ place' \in [rule : Nat, left : SUBSET (Levels \cup {Wildcard}),
                     open : Levels \cup {Missing}]
  BY <1>2, <1>3 DEF TablesTyped
<1>7. /\ place.rule \in 1 .. Len(Rules[loaded].rules) /\ place.rule \in Nat
      /\ overlap \in BOOLEAN /\ Resolved \in Seq(Sinks)
  <2>1. /\ place.rule \in Nat /\ overlap \in BOOLEAN /\ Len(Rules[loaded].rules) \in Nat
        /\ \A i \in 1 .. Len(Rules[loaded].rules) : Rules[loaded].rules[i].sinks \in Seq(Sinks)
    BY <1>2, AtWork
  <2>2. place.rule \in 1 .. Len(Rules[loaded].rules)
    BY <1>2, <1>5, <2>1 DEF Position
  <2> QED
    BY <2>1, <2>2 DEF Resolved
<1>8. new \in Seq(Sinks)
  BY <1>1, <1>7, EmptySeq
<1>9. /\ DOMAIN table' = DOMAIN table \cup {level} /\ table'[level] = new
      /\ \A l \in DOMAIN table : l # level /\ table'[l] = table[l]
  BY <1>2
<1>10. CallsTyped' /\ Decided' /\ InTurn'
  BY <1>2, <1>3, <1>6, WritesUntouched
<1>11. TablesTyped'
  <2>1. \A l \in DOMAIN table' : table'[l] \in Seq(Sinks)
    BY <1>3, <1>8, <1>9 DEF TablesTyped
  <2>2. table' = [l \in DOMAIN table' |-> table'[l]]
    BY <1>2
  <2> QED
    BY <1>2, <1>3, <1>6, <1>9, <2>1, <2>2 DEF TablesTyped
<1>12. Position'
  BY <1>2, <1>5, <1>6 DEF Position
<1>13. Placed(level) = {} /\ level # Missing /\ level # Wildcard
  BY <1>2, <1>5, HotRoutingAssumption DEF Filling
<1>14. CASE overlap
  <2>1. \A m : Placed(m)' = Placed(m)
    BY <1>2, <1>6, <1>14 DEF Placed
  <2>2. ToSet(new) = Named(Rules[loaded], Counted(overlap, Placed(level)))
    BY <1>1, <1>13, <1>14 DEF ToSet, Named, Counted
  <2>4. Filling'
    <3>1. ASSUME NEW m \in Levels
          PROVE  m \in DOMAIN table' <=> Placed(m)' # {} \/ m = place'.open
      <4>1. CASE m = level
        BY <1>6, <1>9, <1>14, <4>1
      <4>2. CASE m # level
        BY <1>2, <1>5, <1>6, <1>9, <1>14, <2>1, <4>2, HotRoutingAssumption DEF Filling
      <4> QED
        BY <4>1, <4>2
    <3>2. ASSUME NEW m \in DOMAIN table'
          PROVE  ToSet(table'[m]) = Named(Rules[loaded], Counted(overlap, Placed(m)'))
      <4>1. CASE m = level
        BY <1>9, <2>1, <2>2, <4>1
      <4>2. CASE m # level
        BY <1>5, <1>9, <2>1, <4>2 DEF Filling
      <4> QED
        BY <4>1, <4>2
    <3>3. ToSet(fallback') = Named(Rules[loaded], Placed(Wildcard)') \cup ToSet(Rules[loaded].fallback)
      BY <1>2, <1>5, <2>1 DEF Filling
    <3> QED
      BY <1>2, <3>1, <3>2, <3>3 DEF Filling
  <2> QED
    BY <1>2, <1>3, <1>4, <1>6, <1>10, <1>11, <1>12, <2>4, UpdateFrame DEF Tables
<1>15. CASE ~overlap
  <2>1. /\ Placed(level)' = {place.rule}
        /\ \A m : m # level => Placed(m)' = Placed(m)
    BY <1>2, <1>3, <1>4, <1>6, <1>13, <1>15, OneMorePlaced
  <2>2. Named(Rules[loaded], Counted(overlap, {} \cup {place.rule})) =
          Named(Rules[loaded], Counted(overlap, {})) \cup ToSet(Rules[loaded].rules[place.rule].sinks)
    BY <1>7, OneMoreCounts
  <2>3. Named(Rules[loaded], Counted(overlap, {place.rule})) = ToSet(new)
    <3>1. Named(Rules[loaded], Counted(overlap, {})) = {}
      BY DEF Named, Counted
    <3> QED
      BY <1>1, <1>15, <2>2, <3>1 DEF Resolved
  <2>4. \A m : m # level => Counted(overlap, Placed(m))' = Counted(overlap, Placed(m))
    BY <1>2, <2>1 DEF Counted
  <2>5. Counted(overlap, Placed(level))' = Counted(overlap, {place.rule})
    BY <1>2, <2>1 DEF Counted
  <2>6. Filling'
    BY <1>2, <1>5, <1>6, <1>9, <1>13, <1>15, <2>1, <2>3, <2>4, <2>5 DEF Filling
  <2> QED
    BY <1>2, <1>3, <1>4, <1>6, <1>10, <1>11, <1>12, <2>6, UpdateFrame DEF Tables
<1> QED
  BY <1>7, <1>14, <1>15

LEMMA ExtendSound ==
  ASSUME Sound, InTurn, NEW level \in Levels, ExtendLevel(level)
  PROVE  Sound' /\ InTurn'
<1>1. /\ watcher = "applying" /\ place.open \in {Missing, level} /\ level \in place.left
      /\ level \in DOMAIN table
      /\ IF overlap
         THEN /\ table' = [table EXCEPT ![level] = @ \o Resolved]
              /\ call' = Grown(level, Resolved)
         ELSE UNCHANGED <<table, call>>
      /\ place' = [place EXCEPT !.left = @ \ {level}, !.open = Missing]
      /\ UNCHANGED <<file, overlap, parallel, fallback, rules, reloadVars>>
      /\ UNCHANGED <<watcher, loaded>>
  BY DEF ExtendLevel, Placing, reloadVars
<1>2. Applying /\ Applying' /\ TablesTyped
  BY <1>1, TypesSplit DEF Applying, Sound
<1>3. place.rule # 0
  BY <1>1, <1>2 DEF Sound, Tables, Nowhere
<1>4. Position /\ Filling
  BY <1>2, <1>3 DEF Sound, Tables
<1>5. /\ place'.rule = place.rule /\ place'.left = place.left \ {level}
      /\ place'.open = Missing
      /\ place' \in [rule : Nat, left : SUBSET (Levels \cup {Wildcard}),
                     open : Levels \cup {Missing}]
  BY <1>1, <1>2 DEF TablesTyped
<1>6. /\ place.rule \in 1 .. Len(Rules[loaded].rules)
      /\ \A r \in Placed(level) : r < place.rule
      /\ Placed(level) \subseteq Nat
      /\ Placed(level)' = Placed(level) \cup {place.rule}
      /\ \A m : m # level => Placed(m)' = Placed(m)
  BY <1>1, <1>2, <1>3, <1>5, OneMorePlaced
<1>7. Resolved \in Seq(Sinks) /\ overlap \in BOOLEAN /\ place.rule \in Nat
  BY <1>1, <1>6, AtWork DEF Resolved
<1>8. table[level] \in Seq(Sinks)
  BY <1>1, <1>2 DEF TablesTyped
<1>9. table[level] \o Resolved \in Seq(Sinks)
      /\ ToSet(table[level] \o Resolved) = ToSet(table[level]) \cup ToSet(Resolved)
  BY <1>7, <1>8, ConcatHolds
<1>10. Position'
  BY <1>1, <1>4, <1>5 DEF Position
<1>11. level # Missing /\ level # Wildcard
  BY HotRoutingAssumption
<1>12. /\ DOMAIN table' = DOMAIN table
       /\ table'[level] = IF overlap THEN table[level] \o Resolved ELSE table[level]
       /\ \A l \in DOMAIN table : l # level => table'[l] = table[l]
  BY <1>1, <1>2 DEF TablesTyped
<1>13. TablesTyped'
  <2>1. \A l \in DOMAIN table' : table'[l] \in Seq(Sinks)
    BY <1>2, <1>8, <1>9, <1>12 DEF TablesTyped
  <2>2. table' = [l \in DOMAIN table' |-> table'[l]]
    BY <1>1, <1>2 DEF TablesTyped
  <2> QED
    BY <1>1, <1>2, <1>5, <1>12, <2>1, <2>2 DEF TablesTyped
<1>14. CallsTyped' /\ Decided' /\ InTurn'
  <2>1. CASE overlap
    BY <1>1, <1>2, <1>3, <1>5, <1>7, <2>1, GrowingHarmless
  <2>2. CASE ~overlap
    BY <1>1, <1>2, <1>5, <2>2, WritesUntouched
  <2> QED
    BY <1>7, <2>1, <2>2
<1>15. ToSet(table'[level]) = Named(Rules[loaded], Counted(overlap, Placed(level) \cup {place.rule}))
  <2>1. Named(Rules[loaded], Counted(overlap, Placed(level) \cup {place.rule})) =
          IF overlap \/ Placed(level) = {}
          THEN Named(Rules[loaded], Counted(overlap, Placed(level)))
                 \cup ToSet(Rules[loaded].rules[place.rule].sinks)
          ELSE Named(Rules[loaded], Counted(overlap, Placed(level)))
    BY <1>6, <1>7, OneMoreCounts
  <2>2. ToSet(table[level]) = Named(Rules[loaded], Counted(overlap, Placed(level)))
    BY <1>1, <1>4 DEF Filling
  <2>3. ~overlap => Placed(level) # {}
    <3>1. ~overlap => place.open = Missing
      BY <1>4 DEF Position
    <3> QED
      BY <1>1, <1>4, <1>11, <3>1 DEF Filling
  <2> QED
    BY <1>7, <1>9, <1>12, <2>1, <2>2, <2>3 DEF Resolved
<1>16. Filling'
  <2>1. Counted(overlap, Placed(level))' = Counted(overlap, Placed(level) \cup {place.rule})
        /\ \A m : m # level => Counted(overlap, Placed(m))' = Counted(overlap, Placed(m))
    BY <1>1, <1>6 DEF Counted
  <2>2. ASSUME NEW m \in Levels
        PROVE  m \in DOMAIN table' <=> Placed(m)' # {} \/ m = place'.open
    <3>1. CASE m = level
      BY <1>1, <1>6, <1>12, <3>1
    <3>2. CASE m # level
      BY <1>1, <1>4, <1>5, <1>6, <1>12, <3>2, HotRoutingAssumption DEF Filling
    <3> QED
      BY <3>1, <3>2
  <2>3. ASSUME NEW m \in DOMAIN table'
        PROVE  ToSet(table'[m]) = Named(Rules[loaded], Counted(overlap, Placed(m))')
    <3>1. CASE m = level
      BY <1>15, <2>1, <3>1
    <3>2. CASE m # level
      BY <1>4, <1>12, <2>1, <3>2 DEF Filling
    <3> QED
      BY <3>1, <3>2
  <2>4. ToSet(fallback') = Named(Rules[loaded], Placed(Wildcard)') \cup ToSet(Rules[loaded].fallback)
    BY <1>1, <1>4, <1>6, <1>11 DEF Filling
  <2>5. loaded' = loaded
    BY <1>1
  <2> QED
    BY <2>2, <2>3, <2>4, <2>5 DEF Filling, Named
<1>17. Tables'
  BY <1>2, <1>3, <1>5, <1>10, <1>16 DEF Tables
<1> QED
  BY <1>1, <1>13, <1>14, <1>17, UpdateFrame

LEMMA EndSound ==
  ASSUME Sound, InTurn, EndUpdate
  PROVE  Sound' /\ InTurn'
<1>1. /\ watcher = "applying" /\ place.rule > Len(Rules[loaded].rules)
      /\ watcher' = "sleeping" /\ place' = Nowhere
      /\ rules' = loaded /\ loaded' = Missing
      /\ UNCHANGED <<file, overlap, parallel, table, fallback, call, previous, stopping,
                     faults, mishap>>
  BY DEF EndUpdate
<1>2. /\ loaded \in Configs \ Invalid /\ Len(Rules[loaded].rules) \in Nat
      /\ place.rule \in Nat
  BY <1>1, AtWork
<1>3. Applying /\ ~Applying' /\ place.rule # 0
  BY <1>1, <1>2 DEF Applying
<1>4. Position /\ Filling /\ CallsTyped /\ TablesTyped /\ RestTyped
  BY <1>3, TypesSplit DEF Sound, Tables
<1>5. place.left = {} /\ place.open = Missing
  BY <1>1, <1>4 DEF Position
<1>6. \A level : Placed(level) = RulesFor(Rules[loaded], level)
  <2>1. \A level : \A r \in RulesFor(Rules[loaded], level) : r < place.rule
    BY <1>1, <1>2 DEF RulesFor
  <2> QED
    BY <2>1 DEF Placed
<1>7. Made(Rules[loaded])
  BY <1>4, <1>5, <1>6, HotRoutingAssumption DEF Made, Filling
<1>8. Made(Rules[rules])'
  BY <1>1, <1>7 DEF Made, Counted
<1>9. Tables'
  BY <1>1, <1>3, <1>8 DEF Tables
<1>10. TablesTyped'
  BY <1>1, <1>4 DEF TablesTyped, Nowhere
<1>11. RestTyped'
  BY <1>1, <1>2, <1>4 DEF RestTyped, Contents
<1>12. CallsTyped' /\ InTurn'
  BY <1>1, <1>4 DEF CallsTyped, InTurn, TurnsKept
<1>13. Decided'
  BY <1>1, <1>3 DEF Sound, Decided, CallOK
<1>14. Abreast'
  BY <1>1 DEF Sound, Abreast, CaughtUp, SettledFile
<1>15. TypeOK'
  BY <1>10, <1>11, <1>12 DEF TypeOK, CallsTyped, TablesTyped, RestTyped, CallState
<1> QED
  BY <1>9, <1>12, <1>13, <1>14, <1>15 DEF Sound

LEMMA UpdateSound ==
  ASSUME Sound, InTurn, UpdateStep
  PROVE  Sound' /\ InTurn'
<1>1. ASSUME NEW level \in Levels, AddLevel(level) \/ ExtendLevel(level)
      PROVE  Sound' /\ InTurn'
  BY <1>1, AddSound, ExtendSound
<1>2. CASE ClearTable \/ ReplaceFallback \/ PlaceWildcard \/ NextRule
  BY <1>2, ClearSound, FallbackSound, WildcardSound, NextRuleSound
<1> QED
  BY <1>1, <1>2 DEF UpdateStep

LEMMA AlwaysSound == Spec => [](Sound /\ InTurn)
<1>1. Sound /\ InTurn /\ [Next]_vars => (Sound /\ InTurn)'
  <2> SUFFICES ASSUME Sound, InTurn, [Next]_vars PROVE Sound' /\ InTurn'
    OBVIOUS
  <2>1. ASSUME NEW w \in Writers, WriteStep(w) PROVE Sound' /\ InTurn'
    BY <2>1, WriteStepSound
  <2>2. ASSUME NEW w \in Writers, NEW level \in Levels, BeginWrite(w, level)
        PROVE  Sound' /\ InTurn'
    BY <2>2, BeginWriteSound
  <2>3. CASE \/ Edit \/ StartReloader \/ Poll \/ Load \/ SubscriberFails \/ WatcherDies
             \/ BeginStop \/ EndStop
    BY <2>3, ReloadSound
  <2>4. CASE UpdateStep \/ EndUpdate
    BY <2>4, UpdateSound, EndSound
  <2>5. CASE UNCHANGED vars
    <3>1. UNCHANGED <<file, overlap, parallel, tableVars, call, reloadVars>>
          /\ UNCHANGED <<table, place, rules, watcher>>
      BY <2>5 DEF vars, tableVars, reloadVars
    <3>2. CallsTyped' /\ InTurn'
      BY <3>1, TypesSplit DEF Sound, CallsTyped, InTurn, TurnsKept
    <3>3. Decided'
      BY <3>1 DEF Sound, Decided, CallOK, Applying
    <3> QED
      BY <3>1, <3>2, <3>3, OnlyWrites
  <2> QED
    BY <2>1, <2>2, <2>3, <2>4, <2>5 DEF Next, WatchStep
<1> QED
  BY <1>1, SoundAtFirst, PTL DEF Spec

-----------------------------------------------------------------------------
(***************************************************************************)
(* Every variable keeps its type; in particular nothing but a content that *)
(* the loader and the validator took ever becomes the routing rules.       *)
(***************************************************************************)
THEOREM RoutingTypeCorrect == Spec => []TypeOK
BY AlwaysSound, PTL DEF Sound

(***************************************************************************)
(* A write that no update_rules() overlapped while it looked goes to the   *)
(* sinks that the rules in force promise for its level, all of them and no *)
(* others, for any rules, however often and in whatever steps they are     *)
(* replaced while it goes through its list.                                *)
(***************************************************************************)
THEOREM WritesGoAsDecided == Spec => []RoutedAsDecided
<1>1. Sound => RoutedAsDecided
  <2>1. Sound => overlap \in BOOLEAN
    BY HotRoutingAssumption DEF Sound, TypeOK
  <2> QED
    BY <2>1, PromisedNamed DEF Sound, Decided, CallOK, RoutedAsDecided
<1> QED
  BY <1>1, AlwaysSound, PTL

(***************************************************************************)
(* A watcher that sleeps and has seen the file as it is has applied it, if *)
(* it is valid and no fault came in between: the content may have changed  *)
(* between its signature, its loading and its announcement, but then the   *)
(* signature the watcher remembers is not the file's, and it looks again.  *)
(* The tables then send every level where that content promises: the safe  *)
(* half of Converges.                                                      *)
(***************************************************************************)
THEOREM WhatWasSeenIsApplied ==
  Spec => [](watcher = "sleeping" /\ SettledFile =>
               \A level \in Levels : Routed(level) = Promised(Rules[file.content], level))
<1>1. Sound => (watcher = "sleeping" /\ SettledFile =>
                  \A level \in Levels : Routed(level) = Promised(Rules[file.content], level))
  <2> SUFFICES ASSUME Sound, watcher = "sleeping", SettledFile, NEW level \in Levels
               PROVE  Routed(level) = Promised(Rules[file.content], level)
    OBVIOUS
  <2>1. rules = file.content /\ Made(Rules[rules]) /\ overlap \in BOOLEAN
    BY HotRoutingAssumption DEF Sound, Abreast, CaughtUp, Tables, Applying, TypeOK
  <2> QED
    BY <2>1, MadeAsPromised
<1> QED
  BY <1>1, AlwaysSound, PTL

(***************************************************************************)
(* The targets of a write that are not begun at once are begun one after   *)
(* the other in their order, whatever other workers' writes and reloads    *)
(* come in between, and even while the list is still growing.              *)
(***************************************************************************)
THEOREM TargetsTakeTurns == Spec => []InTurn
BY AlwaysSound, PTL

-----------------------------------------------------------------------------
(***************************************************************************)
(* Converges, with what FairSpec provides said without ENABLED: the        *)
(* watcher, as long as it has work, again and again finishes a poll, a     *)
(* load or an announcement with the update_rules() in it.  The bound       *)
(* MaxEdits lets the file settle in every behaviour of the model; for the  *)
(* code that is a premise.                                                 *)
(***************************************************************************)
Undisturbed ==
  watcher \notin {"none", "ended"} /\ ~stopping /\ ~mishap /\ file.content \in Configs \ Invalid

Asleep == watcher = "sleeping"
ReadsFile == watcher = "loading"
Announces == watcher \in {"notifying", "applying"}
HasSeen == previous = file.signature
InLine ==
  /\ file.content \in Configs \ Invalid
  /\ \A level \in Levels : Routed(level) = Promised(Rules[file.content], level)

\* There is a change to look at, to load or to announce.
HasWork == Undisturbed /\ ~(Asleep /\ HasSeen)

WatcherFinishes == Poll \/ Load \/ EndUpdate

FileSettles == <>[][file' = file]_vars
WatcherGoesOn == <>[]HasWork => []<><<WatcherFinishes>>_vars

\* What a step does to a watcher that nothing disturbs.
LEMMA WatcherMoves ==
  ASSUME Sound, [Next]_vars, [file' = file]_vars, Undisturbed, Undisturbed'
  PROVE  /\ HasSeen => HasSeen'
         /\ \/ (Asleep' <=> Asleep) /\ (ReadsFile' <=> ReadsFile) /\ (Announces' <=> Announces)
            \/ Asleep /\ ~HasSeen /\ ReadsFile' /\ HasSeen'
            \/ ReadsFile /\ Announces'
            \/ Announces /\ Asleep'
         /\ HasWork /\ WatcherFinishes =>
              \/ Asleep /\ ~HasSeen /\ ReadsFile' /\ HasSeen'
              \/ ReadsFile /\ Announces'
              \/ Announces /\ Asleep'
<1>1. file' = file
  BY DEF vars
<1>2. /\ watcher \in {"sleeping", "loading", "notifying", "applying"} /\ ~stopping
      /\ file.content \notin Invalid \cup {Missing} /\ ~mishap'
  BY HotRoutingAssumption DEF Sound, TypeOK, Undisturbed
<1>3. CASE Poll
  BY <1>1, <1>2, <1>3 DEF Poll, Asleep, ReadsFile, Announces, HasSeen, HasWork
<1>4. CASE Load
  BY <1>1, <1>2, <1>4 DEF Load, Asleep, ReadsFile, Announces, HasSeen, HasWork
<1>5. CASE EndUpdate
  BY <1>1, <1>2, <1>5 DEF EndUpdate, Asleep, ReadsFile, Announces, HasSeen, HasWork
<1>6. ASSUME ~WatcherFinishes
      PROVE  /\ HasSeen' <=> HasSeen
             /\ (Asleep' <=> Asleep) /\ (ReadsFile' <=> ReadsFile) /\ (Announces' <=> Announces)
  <2>1. ~StartReloader /\ ~SubscriberFails /\ ~WatcherDies /\ ~EndStop
    BY <1>2 DEF StartReloader, SubscriberFails, WatcherDies, EndStop, Undisturbed
  <2>2. ASSUME NEW w \in Writers, WriteStep(w) \/ \E level \in Levels : BeginWrite(w, level)
        PROVE  UNCHANGED <<watcher, previous>>
    BY <2>2 DEF WriteStep, BeginWrite, FetchTargets, BeginTarget, WriteEnds, EndWrite, reloadVars
  <2>3. Edit \/ BeginStop \/ UNCHANGED vars => UNCHANGED <<watcher, previous>>
    BY DEF Edit, BeginStop, vars, reloadVars
  <2>4. ASSUME UpdateStep PROVE (UNCHANGED previous /\ watcher \in {"notifying", "applying"}
                                 /\ watcher' = "applying")
    <3>1. ASSUME NEW level \in Levels, AddLevel(level) \/ ExtendLevel(level)
          PROVE  UNCHANGED previous /\ watcher = "applying" /\ watcher' = watcher
      BY <3>1 DEF AddLevel, ExtendLevel, Placing, reloadVars
    <3>2. CASE ReplaceFallback \/ PlaceWildcard \/ NextRule
      BY <3>2 DEF ReplaceFallback, PlaceWildcard, NextRule, Placing, reloadVars
    <3>3. CASE ClearTable
      BY <3>3 DEF ClearTable
    <3> QED
      BY <2>4, <3>1, <3>2, <3>3 DEF UpdateStep
  <2>5. \/ UNCHANGED <<watcher, previous>>
        \/ UNCHANGED previous /\ watcher \in {"notifying", "applying"} /\ watcher' = "applying"
    BY <1>6, <2>1, <2>2, <2>3, <2>4 DEF Next, WatchStep, WatcherFinishes
  <2> QED
    BY <1>1, <2>5 DEF Asleep, ReadsFile, Announces, HasSeen
<1> QED
  BY <1>3, <1>4, <1>5, <1>6 DEF WatcherFinishes

(***************************************************************************)
(* The tables come in line with the file, for any contents, rules and      *)
(* number of workers: whatever was being loaded or announced when the file *)
(* settled, the watcher ends asleep on the signature of the present        *)
(* content, and then it has applied it.                                    *)
(***************************************************************************)
THEOREM ReloadConverges == Spec /\ FileSettles /\ WatcherGoesOn => Converges
<1>1. Sound /\ Undisturbed => /\ Asleep \/ ReadsFile \/ Announces
                              /\ Asleep /\ HasSeen => InLine
  <2>1. Sound /\ Undisturbed => Asleep \/ ReadsFile \/ Announces
    BY DEF Sound, TypeOK, Undisturbed, Asleep, ReadsFile, Announces
  <2>2. ASSUME Sound, Undisturbed, Asleep, HasSeen PROVE InLine
    <3>1. rules = file.content /\ Made(Rules[rules]) /\ overlap \in BOOLEAN
      BY <2>2, HotRoutingAssumption DEF Sound, Abreast, CaughtUp, SettledFile, Tables, Applying,
           TypeOK, Undisturbed, Asleep, HasSeen
    <3>2. file.content \in Configs \ Invalid
      BY <2>2 DEF Undisturbed
    <3> QED
      BY <3>1, <3>2, MadeAsPromised DEF InLine
  <2> QED
    BY <2>1, <2>2
<1>2. /\ ~(Asleep /\ ReadsFile) /\ ~(Asleep /\ Announces) /\ ~(ReadsFile /\ Announces)
      /\ HasWork <=> Undisturbed /\ ~(Asleep /\ HasSeen)
  BY DEF Asleep, ReadsFile, Announces, HasWork
<1>3. Sound /\ [Next]_vars /\ [file' = file]_vars /\ Undisturbed /\ Undisturbed' =>
        /\ HasSeen => HasSeen'
        /\ \/ (Asleep' <=> Asleep) /\ (ReadsFile' <=> ReadsFile) /\ (Announces' <=> Announces)
           \/ Asleep /\ ~HasSeen /\ ReadsFile' /\ HasSeen'
           \/ ReadsFile /\ Announces'
           \/ Announces /\ Asleep'
  BY WatcherMoves
<1>4. Sound /\ [Next]_vars /\ [file' = file]_vars /\ Undisturbed /\ Undisturbed'
      /\ HasWork /\ <<WatcherFinishes>>_vars =>
           \/ Asleep /\ ~HasSeen /\ ReadsFile' /\ HasSeen'
           \/ ReadsFile /\ Announces'
           \/ Announces /\ Asleep'
  BY WatcherMoves
<1>5. Spec => [][Next]_vars
  BY DEF Spec
<1>6. Spec /\ FileSettles /\ WatcherGoesOn => (<>[]Undisturbed => <>[]InLine)
  BY <1>1, <1>2, <1>3, <1>4, <1>5, AlwaysSound, PTL DEF FileSettles, WatcherGoesOn
<1> QED
  BY <1>6 DEF Converges, Undisturbed, InLine
=============================================================================
