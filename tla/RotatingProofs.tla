--------------------------- MODULE RotatingProofs ---------------------------
(***************************************************************************)
(* Theorems about RotatingFile, for every number of writers and records,   *)
(* every size, budget and interval, and any number of ticks, failures and  *)
(* crashes.                                                                *)
(***************************************************************************)
EXTENDS RotatingFile, FiniteSetTheorems, SequenceTheorems, TLAPS

USE RotatingAssumption, NoFileAssumption

-----------------------------------------------------------------------------
(***************************************************************************)
(* The inductive invariant.  The directory d is in the order in which its  *)
(* files were modified last; w is what was written so far.                 *)
(***************************************************************************)
NamesDiffer(d) == \A p, q \in DOMAIN d : d[p].name = d[q].name => p = q

\* Whatever f holds was written before whatever g holds.
Before(w, f, g) ==
  \A i, j \in DOMAIN w : w[i] \in ToSet(f.records) /\ w[j] \in ToSet(g.records) => i < j

\* The order of the files is that of their records, copies aside.
Sorted(w, d) ==
  \A p, q \in DOMAIN d : p < q => Before(w, d[p], d[q]) \/ d[p].records = d[q].records

\* No record is in two hands, and one that is to be written was not yet.
Payloads ==
  /\ \A x \in Writers : calls[x] # "idle" => payload[x] \in Records
  /\ \A x \in Writers : payload[x] \notin ToSet(written) \cup returned
  /\ \A x, y \in Writers : payload[x] = payload[y] => x = y \/ payload[x] = NoRecord

\* What the lock holder is at.
Holding ==
  /\ lock \in Writers => calls[lock] = "write"
  /\ lock = Owner => stage \in {"retain", "files", "bytes"}
  /\ stage \in {"check", "append", "close"} => active.open
  /\ active.open => stage \in {"none", "check", "append", "close"}
  /\ stage \notin {"files", "bytes"} => candidates = {} /\ spared = {}

\* Where the active file is: last while it is open, then followed by its own
\* archive or what is left of it.
ActiveFile ==
  /\ active.path # NoFile => ~active.path.gz
  /\ active.open \/ stage = "zip" =>
       /\ Len(disk) > 0 /\ disk[Len(disk)].name = active.path
       /\ \A p \in 1 .. Len(disk) - 1 : active.open => Before(written, disk[p], disk[Len(disk)])
  /\ \A p, q \in DOMAIN disk :
       p < q /\ disk[p].name = active.path =>
         disk[q].records = <<>> \/ disk[q].records = disk[p].records
  /\ stage = "unlink" =>
       \E p, q \in DOMAIN disk :
         p # q /\ disk[p].name = active.path /\ disk[q].records = disk[p].records

\* What retention has passed it could not remove.
Retention ==
  /\ candidates \cap spared = {}
  /\ \A f \in candidates : f.name # active.path
  /\ \A p, q \in DOMAIN disk :
       p < q /\ disk[q] \in candidates =>
         disk[p] \in candidates \/ disk[p].name = active.path
           \/ ToSet(disk[p].records) \subseteq stuck

\* _active_size counts at least what is in the active file.
Sizes ==
  /\ active.open => Bytes(disk[Len(disk)].records) <= active.size
  /\ stage = "append" =>
       active.size + SizeOf(payload[lock]) <= MaxBytes \/ active.size = 0

\* What is on disk.
Files ==
  /\ NamesDiffer(disk) /\ OnDisk \subseteq ToSet(written) /\ Sorted(written, disk)
  /\ KeepsTheNewest /\ SizeBound

RotatingInv ==
  /\ TypeOK /\ Files /\ Payloads /\ Holding /\ ActiveFile /\ Retention /\ Sizes
  /\ Acknowledged

-----------------------------------------------------------------------------
(* Numbers and lengths.                                                    *)

LEMMA LeastNumber ==
  ASSUME NEW S, S \subseteq Nat, S # {}
  PROVE  \E m \in S : \A k \in S : m <= k
<1> DEFINE R == {pair \in Nat \X Nat : pair[1] < pair[2]}
<1>1. IsWellFoundedOn(R, Nat)
  BY NatLessThanWellFounded DEF OpToRel
<1>2. \A k, m \in Nat : k < m => <<k, m>> \in R
  OBVIOUS
<1> HIDE DEF R
<1>3. PICK m \in S : \A k \in S : ~ (<<k, m>> \in R)
  BY <1>1, WFMin, Zenon
<1>4. ASSUME NEW k \in S
      PROVE  m <= k
  <2>1. ~ (<<k, m>> \in R)
    BY <1>3
  <2>2. ~ (k < m)
    BY <1>2, <2>1
  <2> QED
    BY <2>2
<1> QED
  BY <1>4

LEMMA IntervalCounts ==
  ASSUME NEW n \in Nat
  PROVE  /\ IsFiniteSet(0 .. n) /\ Cardinality(0 .. n) = n + 1
         /\ IsFiniteSet(1 .. n) /\ Cardinality(1 .. n) = n
<1>1. n \in Int /\ 0 \in Int /\ 1 \in Int
  OBVIOUS
<1>2. IsFiniteSet(0 .. n) /\ Cardinality(0 .. n) = IF 0 > n THEN 0 ELSE n - 0 + 1
  BY <1>1, FS_Interval, Zenon
<1>3. IsFiniteSet(1 .. n) /\ Cardinality(1 .. n) = IF 1 > n THEN 0 ELSE n - 1 + 1
  BY <1>1, FS_Interval, Zenon
<1>4. (IF 0 > n THEN 0 ELSE n - 0 + 1) = n + 1 /\ (IF 1 > n THEN 0 ELSE n - 1 + 1) = n
  OBVIOUS
<1> QED
  BY <1>2, <1>3, <1>4

LEMMA PigeonHole ==
  ASSUME NEW n \in Nat, NEW f \in [0 .. n -> 1 .. n]
  PROVE  \E x, y \in 0 .. n : x # y /\ f[x] = f[y]
<1>1. Cardinality(1 .. n) < Cardinality(0 .. n) /\ IsFiniteSet(0 .. n) /\ IsFiniteSet(1 .. n)
  BY IntervalCounts
<1>2. \A S, T :
        IsFiniteSet(S) /\ IsFiniteSet(T) /\ Cardinality(T) < Cardinality(S) =>
          \A g \in [S -> T] : \E x, y \in S : x # y /\ g[x] = g[y]
  BY FS_PigeonHole
<1>3. \A g \in [0 .. n -> 1 .. n] : \E x, y \in 0 .. n : x # y /\ g[x] = g[y]
  BY <1>1, <1>2, Zenon
<1> QED
  BY <1>3, Zenon

LEMMA SizeOfType ==
  ASSUME NEW r
  PROVE  SizeOf(r) \in Nat /\ SizeOf(r) >= 1
BY DEF SizeOf

\* The number of records in s that are larger than a file.
Bigs(s) == {i \in DOMAIN s : s[i] \in Big}

LEMMA BigsFinite ==
  ASSUME NEW s \in Seq(Records)
  PROVE  IsFiniteSet(Bigs(s)) /\ Cardinality(Bigs(s)) \in Nat
<1>1. IsFiniteSet(1 .. Len(s)) /\ Bigs(s) \subseteq 1 .. Len(s)
  <2>1. Len(s) \in Nat /\ DOMAIN s = 1 .. Len(s)
    OBVIOUS
  <2> QED
    BY <2>1, FS_Interval DEF Bigs
<1> QED
  BY <1>1, FS_Subset, FS_CardinalityType

LEMMA BytesOfNothing == Bytes(<<>>) = 0
<1>1. Bigs(<<>>) = {} /\ Cardinality({}) = 0 /\ Len(<<>>) = 0
  BY FS_EmptySet DEF Bigs
<1>2. Bytes(<<>>) = MaxBytes * 0
  BY <1>1 DEF Bytes, Bigs
<1> QED
  BY <1>2

LEMMA BytesOf ==
  ASSUME NEW s \in Seq(Records), NEW r \in Records
  PROVE  /\ Bytes(s) \in Nat /\ Bytes(s) >= Len(s)
         /\ Bytes(Append(s, r)) = Bytes(s) + SizeOf(r)
<1> DEFINE c == Cardinality(Bigs(s))
<1>1. /\ \A t : Bytes(t) = Len(t) + MaxBytes * Cardinality(Bigs(t))
      /\ c \in Nat /\ IsFiniteSet(Bigs(s))
  BY BigsFinite DEF Bytes, Bigs
<1>2. MaxBytes * c \in Nat /\ MaxBytes * (c + 1) = MaxBytes * c + MaxBytes
  BY <1>1
<1>4. Bytes(Append(s, r)) = Bytes(s) + SizeOf(r)
  <2>1. /\ Append(s, r) \in Seq(Records) /\ Len(Append(s, r)) = Len(s) + 1
        /\ \A i \in 1 .. Len(s) : Append(s, r)[i] = s[i]
        /\ Append(s, r)[Len(s) + 1] = r
    OBVIOUS
  <2>2. CASE r \in Big
    <3>1. Bigs(Append(s, r)) = Bigs(s) \cup {Len(s) + 1} /\ Len(s) + 1 \notin Bigs(s)
      BY <2>1, <2>2 DEF Bigs
    <3>2. Cardinality(Bigs(Append(s, r))) = c + 1
      BY <1>1, <3>1, FS_AddElement
    <3> QED
      <4>1. Bytes(Append(s, r)) = Len(s) + 1 + MaxBytes * (c + 1)
        BY <1>1, <2>1, <3>2
      <4>2. SizeOf(r) = MaxBytes + 1 /\ Bytes(s) = Len(s) + MaxBytes * c
        BY <1>1, <2>2 DEF SizeOf
      <4> HIDE DEF c
      <4> QED
        BY <1>2, <4>1, <4>2
  <2>3. CASE r \notin Big
    <3>1. Bigs(Append(s, r)) = Bigs(s)
      BY <2>1, <2>3 DEF Bigs
    <3> QED
      <4>1. Bytes(Append(s, r)) = Len(s) + 1 + MaxBytes * c
        BY <1>1, <2>1, <3>1
      <4>2. SizeOf(r) = 1 /\ Bytes(s) = Len(s) + MaxBytes * c
        BY <1>1, <2>3 DEF SizeOf
      <4> HIDE DEF c
      <4> QED
        BY <1>2, <4>1, <4>2
  <2> QED
    BY <2>2, <2>3
<1> QED
  BY <1>1, <1>2, <1>4

LEMMA AppendFacts ==
  ASSUME NEW S, NEW s \in Seq(S), NEW x \in S
  PROVE  /\ Append(s, x) \in Seq(S) /\ Len(Append(s, x)) = Len(s) + 1
         /\ DOMAIN Append(s, x) = 1 .. Len(s) + 1
         /\ \A i \in 1 .. Len(s) : Append(s, x)[i] = s[i]
         /\ Append(s, x)[Len(s) + 1] = x
         /\ ToSet(Append(s, x)) = ToSet(s) \cup {x}
<1>1. /\ Append(s, x) \in Seq(S) /\ Len(Append(s, x)) = Len(s) + 1
      /\ DOMAIN Append(s, x) = 1 .. Len(s) + 1 /\ DOMAIN s = 1 .. Len(s)
      /\ \A i \in 1 .. Len(s) : Append(s, x)[i] = s[i]
      /\ Append(s, x)[Len(s) + 1] = x
  OBVIOUS
<1>2. ToSet(Append(s, x)) = ToSet(s) \cup {x}
  BY <1>1 DEF ToSet
<1> QED
  BY <1>1, <1>2

LEMMA RemoveFacts ==
  ASSUME NEW S, NEW s \in Seq(S), NEW p \in 1 .. Len(s)
  PROVE  /\ RemoveAt(s, p) \in Seq(S) /\ Len(RemoveAt(s, p)) = Len(s) - 1
         /\ \A i \in 1 .. Len(s) - 1 :
              RemoveAt(s, p)[i] = IF i < p THEN s[i] ELSE s[i + 1]
<1> DEFINE a == SubSeq(s, 1, p - 1)
           b == SubSeq(s, p + 1, Len(s))
<1>1. a \in Seq(S) /\ Len(a) = p - 1 /\ \A i \in 1 .. p - 1 : a[i] = s[i]
  OBVIOUS
<1>2. b \in Seq(S) /\ Len(b) = Len(s) - p /\ \A i \in 1 .. Len(s) - p : b[i] = s[i + p]
  OBVIOUS
<1>3. RemoveAt(s, p) = a \o b
  BY DEF RemoveAt
<1> HIDE DEF a, b
<1>4. a \o b \in Seq(S) /\ Len(a \o b) = Len(s) - 1
  <2>1. a \in Seq(S) /\ b \in Seq(S) /\ Len(a) = p - 1 /\ Len(b) = Len(s) - p
    BY <1>1, <1>2, Zenon
  <2>2. a \o b \in Seq(S) /\ Len(a \o b) = Len(a) + Len(b)
    BY <2>1, ConcatProperties, Zenon
  <2>3. Len(s) \in Nat /\ p \in 1 .. Len(s)
    OBVIOUS
  <2> QED
    BY <2>1, <2>2, <2>3
<1>5. ASSUME NEW i \in 1 .. Len(s) - 1
      PROVE  (a \o b)[i] = IF i < p THEN s[i] ELSE s[i + 1]
  <2>1. CASE i < p
    BY <1>1, <1>2, <2>1, i \in 1 .. p - 1
  <2>2. CASE ~(i < p)
    <3>1. /\ \A k \in 1 .. Len(a) + Len(b) :
                (a \o b)[k] = IF k <= Len(a) THEN a[k] ELSE b[k - Len(a)]
          /\ Len(a) = p - 1 /\ Len(b) = Len(s) - p
      BY <1>1, <1>2, ConcatProperties
    <3>2. PICK n \in 1 .. Len(s) - p : n = i - (p - 1) /\ n + p = i + 1
      BY <2>2
    <3> QED
      <4>1. (a \o b)[i] = b[n]
        BY <2>2, <3>1, <3>2
      <4>2. b[n] = s[i + 1]
        BY <1>2, <3>2
      <4> QED
        BY <2>2, <4>1, <4>2
  <2> QED
    BY <2>1, <2>2
<1> QED
  BY <1>3, <1>4, <1>5

-----------------------------------------------------------------------------
(***************************************************************************)
(* The directory.  d is it without the file called n, or with a file f of  *)
(* that name put last.                                                     *)
(***************************************************************************)
Thins(d, n) ==
  /\ d \in Seq(File)
  /\ ToSet(d) = {f \in ToSet(disk) : f.name # n}
  /\ \A q, r \in DOMAIN d : q < r =>
       \E p, s \in DOMAIN disk : p < s /\ d[q] = disk[p] /\ d[r] = disk[s]

Grows(d, f) ==
  /\ d \in Seq(File) /\ Len(d) > 0 /\ d[Len(d)] = f
  /\ ToSet(d) = {g \in ToSet(disk) : g.name # f.name} \cup {f}
  /\ \A q \in DOMAIN d : q # Len(d) => d[q] \in ToSet(disk) /\ d[q].name # f.name
  /\ \A q, r \in DOMAIN d : q < r /\ r # Len(d) =>
       \E p, s \in DOMAIN disk : p < s /\ d[q] = disk[p] /\ d[r] = disk[s]

\* The records in the files of d.
Held(d) == UNION {ToSet(f.records) : f \in ToSet(d)}

LEMMA HeldBy ==
  ASSUME NEW d, NEW x
  PROVE  /\ x \in Held(d) <=> \E f \in ToSet(d) : x \in ToSet(f.records)
         /\ x \in OnDisk <=> \E f \in ToSet(disk) : x \in ToSet(f.records)
BY DEF Held, OnDisk

LEMMA PositionFacts ==
  ASSUME NamesDiffer(disk), NEW p \in DOMAIN disk
  PROVE  /\ Position(disk[p].name) = p /\ FileAt(disk[p].name) = disk[p]
         /\ Exists(disk[p].name)
<1>1. Position(disk[p].name) = p
  BY DEF NamesDiffer, Position
<1> QED
  BY <1>1 DEF FileAt, Exists, ToSet

LEMMA WithoutThins ==
  ASSUME disk \in Seq(File), NamesDiffer(disk), NEW n
  PROVE  Thins(Without(n), n)
<1>1. CASE ~Exists(n)
  <2>1. Without(n) = disk /\ \A p \in DOMAIN disk : disk[p].name # n
    BY <1>1 DEF Without, Exists, ToSet
  <2> QED
    BY <2>1 DEF Thins, ToSet
<1>2. CASE Exists(n)
  <2>1. PICK k \in DOMAIN disk : disk[k].name = n
    BY <1>2 DEF Exists, ToSet
  <2>2. k \in 1 .. Len(disk) /\ DOMAIN disk = 1 .. Len(disk) /\ Len(disk) \in Nat
    BY <2>1
  <2> DEFINE d == RemoveAt(disk, k)
  <2>3. Without(n) = d
    BY <1>2, <2>1, PositionFacts DEF Without
  <2>4. /\ d \in Seq(File) /\ DOMAIN d = 1 .. Len(disk) - 1
        /\ \A i \in 1 .. Len(disk) - 1 : d[i] = IF i < k THEN disk[i] ELSE disk[i + 1]
    <3>1. /\ d \in Seq(File) /\ Len(d) = Len(disk) - 1
          /\ \A i \in 1 .. Len(disk) - 1 : d[i] = IF i < k THEN disk[i] ELSE disk[i + 1]
      BY <2>2, RemoveFacts
    <3>2. DOMAIN d = 1 .. Len(d)
      <4> HIDE DEF d
      <4> QED
        BY <3>1
    <3> HIDE DEF d
    <3> QED
      BY <3>1, <3>2
  <2> HIDE DEF d
  <2> DEFINE e(i) == IF i < k THEN i ELSE i + 1
  <2>5. /\ \A i \in DOMAIN d : e(i) \in DOMAIN disk /\ e(i) # k /\ d[i] = disk[e(i)]
        /\ \A i, j \in DOMAIN d : i < j => e(i) < e(j)
    <3>1. ASSUME NEW i \in DOMAIN d
          PROVE  e(i) \in DOMAIN disk /\ e(i) # k /\ d[i] = disk[e(i)]
      <4>1. i \in 1 .. Len(disk) - 1
        BY <2>4
      <4>2. CASE i < k
        BY <2>2, <2>4, <4>1, <4>2
      <4>3. CASE ~(i < k)
        BY <2>2, <2>4, <4>1, <4>3
      <4> QED
        BY <4>2, <4>3
    <3>2. \A i, j \in DOMAIN d : i < j => e(i) < e(j)
      BY <2>2, <2>4
    <3> QED
      BY <3>1, <3>2
  <2>6. \A p \in DOMAIN disk : p # k => \E i \in DOMAIN d : e(i) = p
    <3> SUFFICES ASSUME NEW p \in DOMAIN disk, p # k
                 PROVE  \E i \in DOMAIN d : e(i) = p
      OBVIOUS
    <3>1. CASE p < k
      BY <2>2, <2>4, <3>1, p \in DOMAIN d
    <3>2. CASE p > k
      BY <2>2, <2>4, <3>2, p - 1 \in DOMAIN d, p - 1 + 1 = p
    <3> QED
      BY <2>2, <3>1, <3>2
  <2> HIDE DEF e
  <2>7. \A p \in DOMAIN disk : p # k <=> disk[p].name # n
    BY <2>1 DEF NamesDiffer
  <2>8. ToSet(d) = {f \in ToSet(disk) : f.name # n}
    BY <2>5, <2>6, <2>7 DEF ToSet
  <2> QED
    BY <2>3, <2>4, <2>5, <2>8 DEF Thins
<1> QED
  BY <1>1, <1>2

LEMMA ModifiedGrows ==
  ASSUME disk \in Seq(File), NamesDiffer(disk), NEW f \in File
  PROVE  Grows(Modified(f), f)
<1> DEFINE d == Without(f.name)
           m == Append(d, f)
<1>1. Thins(d, f.name)
  BY WithoutThins
<1>2. Modified(f) = m
  BY DEF Modified
<1>3. /\ m \in Seq(File) /\ Len(m) = Len(d) + 1 /\ DOMAIN m = 1 .. Len(d) + 1
      /\ \A i \in 1 .. Len(d) : m[i] = d[i]
      /\ m[Len(d) + 1] = f /\ ToSet(m) = ToSet(d) \cup {f}
      /\ DOMAIN d = 1 .. Len(d) /\ Len(d) \in Nat
  BY <1>1, AppendFacts DEF Thins
<1> HIDE DEF d, m
<1>4. \A q \in DOMAIN m : q # Len(m) => q \in DOMAIN d /\ m[q] = d[q]
  BY <1>3
<1>5. \A q \in DOMAIN m : q # Len(m) => m[q] \in ToSet(disk) /\ m[q].name # f.name
  BY <1>1, <1>4 DEF Thins, ToSet
<1>6. ASSUME NEW q \in DOMAIN m, NEW r \in DOMAIN m, q < r, r # Len(m)
      PROVE  \E p, s \in DOMAIN disk : p < s /\ m[q] = disk[p] /\ m[r] = disk[s]
  <2>1. q \in DOMAIN d /\ r \in DOMAIN d /\ m[q] = d[q] /\ m[r] = d[r]
    BY <1>3, <1>6
  <2> QED
    BY <1>1, <1>6, <2>1 DEF Thins
<1>7. ToSet(m) = {g \in ToSet(disk) : g.name # f.name} \cup {f}
  BY <1>1, <1>3 DEF Thins
<1> QED
  BY <1>2, <1>3, <1>5, <1>6, <1>7 DEF Grows

\* A file of a new name put last.
LEMMA AddedGrows ==
  ASSUME disk \in Seq(File), NamesDiffer(disk), NEW f \in File, ~Exists(f.name)
  PROVE  Grows(Append(disk, f), f)
<1>1. Modified(f) = Append(disk, f)
  BY DEF Modified, Without
<1> QED
  BY <1>1, ModifiedGrows

\* There always is a name that no file has.
LEMMA NewNameIsNew ==
  ASSUME disk \in Seq(File), second \in 0 .. MaxSecond
  PROVE  NewName \in Name /\ ~NewName.gz /\ ~Exists(NewName)
<1> DEFINE named(i) == [second |-> second, index |-> i, gz |-> FALSE]
           free == {i \in 0 .. Len(disk) : ~Exists(named(i))}
<1>1. free # {}
  <2> SUFFICES ASSUME free = {} PROVE FALSE
    OBVIOUS
  <2> DEFINE at(i) == CHOOSE p \in DOMAIN disk : disk[p].name = named(i)
             f == [i \in 0 .. Len(disk) |-> at(i)]
  <2>1. \A i \in 0 .. Len(disk) : at(i) \in DOMAIN disk /\ disk[at(i)].name = named(i)
    BY DEF Exists, ToSet
  <2>2. f \in [0 .. Len(disk) -> 1 .. Len(disk)]
    BY <2>1
  <2>4. PICK x, y \in 0 .. Len(disk) : x # y /\ f[x] = f[y]
    <3>1. Len(disk) \in Nat
      OBVIOUS
    <3> HIDE DEF f
    <3> QED
      BY <2>2, <3>1, PigeonHole
  <2>5. named(x) = named(y)
    BY <2>1, <2>4
  <2> QED
    BY <2>4, <2>5
<1>2. free \subseteq Nat
  OBVIOUS
<1>3. \E m \in free : \A k \in free : m <= k
  <2> HIDE DEF free
  <2> QED
    BY <1>1, <1>2, LeastNumber
<1> DEFINE i == CHOOSE m \in free : \A k \in free : m <= k
<1>4. i \in free
  <2> HIDE DEF free
  <2> QED
    BY <1>3
<1>5. NewName = named(i)
  BY DEF NewName
<1> HIDE DEF i
<1> QED
  BY <1>4, <1>5 DEF Name

\* The victim is the one of the candidates that was modified first.
LEMMA VictimIsOldest ==
  ASSUME disk \in Seq(File), NamesDiffer(disk), candidates \subseteq ToSet(disk), candidates # {}
  PROVE  \E v \in DOMAIN disk :
           /\ disk[v] = Victim /\ Victim \in candidates
           /\ \A p \in DOMAIN disk : disk[p] \in candidates => v <= p
<1> DEFINE S == {p \in DOMAIN disk : disk[p] \in candidates}
<1>1. S # {} /\ S \subseteq Nat
  BY DEF ToSet
<1>2. PICK m \in S : \A k \in S : m <= k
  <2> HIDE DEF S
  <2> QED
    BY <1>1, LeastNumber
<1>3. \A f \in candidates : \E p \in S : f = disk[p] /\ Position(f.name) = p
  BY PositionFacts DEF ToSet
<1>4. \E f \in candidates : \A g \in candidates : Position(f.name) <= Position(g.name)
  <2>1. disk[m] \in candidates /\ Position(disk[m].name) = m
    BY PositionFacts
  <2> QED
    BY <1>2, <1>3, <2>1
<1>5. Victim \in candidates /\ \A g \in candidates : Position(Victim.name) <= Position(g.name)
  BY <1>4 DEF Victim
<1>6. PICK v \in S : Victim = disk[v] /\ Position(Victim.name) = v
  BY <1>3, <1>5
<1>7. \A p \in S : v <= p
  BY <1>5, <1>6, PositionFacts
<1> QED
  BY <1>5, <1>6, <1>7

-----------------------------------------------------------------------------
(* What a change of the directory leaves as it was.                        *)

LEMMA ThinNames ==
  ASSUME disk \in Seq(File), NamesDiffer(disk), NEW d, NEW n, Thins(d, n)
  PROVE  NamesDiffer(d)
<1>1. \A p, s \in DOMAIN disk : p < s => disk[p].name # disk[s].name
  BY DEF NamesDiffer
<1>2. DOMAIN d \subseteq Nat
  BY DEF Thins
<1>3. \A q, r \in DOMAIN d : q < r => d[q].name # d[r].name
  BY <1>1 DEF Thins
<1> QED
  BY <1>2, <1>3 DEF NamesDiffer

LEMMA GrowNames ==
  ASSUME disk \in Seq(File), NamesDiffer(disk), NEW d, NEW f, Grows(d, f)
  PROVE  NamesDiffer(d)
<1>1. /\ DOMAIN d = 1 .. Len(d) /\ Len(d) \in Nat /\ d[Len(d)].name = f.name
      /\ \A q \in DOMAIN d : q # Len(d) => d[q].name # f.name
  BY DEF Grows
<1>2. \A q, r \in DOMAIN d : q < r /\ r # Len(d) => d[q].name # d[r].name
  <2>1. \A p, s \in DOMAIN disk : p < s => disk[p].name # disk[s].name
    BY DEF NamesDiffer
  <2> QED
    BY <2>1 DEF Grows
<1>3. \A q, r \in DOMAIN d : q < r => d[q].name # d[r].name
  BY <1>1, <1>2
<1> QED
  BY <1>1, <1>3 DEF NamesDiffer

LEMMA ThinSorted ==
  ASSUME NEW w, Sorted(w, disk), NEW d, NEW n, Thins(d, n)
  PROVE  Sorted(w, d)
BY DEF Sorted, Thins

LEMMA GrowSorted ==
  ASSUME NEW w, Sorted(w, disk), NEW d, NEW f, Grows(d, f),
         \A g \in ToSet(disk) : g.name # f.name => Before(w, g, f) \/ g.records = f.records
  PROVE  Sorted(w, d)
<1> SUFFICES ASSUME NEW q \in DOMAIN d, NEW r \in DOMAIN d, q < r
             PROVE  Before(w, d[q], d[r]) \/ d[q].records = d[r].records
  BY DEF Sorted
<1>1. CASE r # Len(d)
  <2>1. PICK p, s \in DOMAIN disk : p < s /\ d[q] = disk[p] /\ d[r] = disk[s]
    BY <1>1 DEF Grows
  <2> QED
    BY <2>1 DEF Sorted
<1>2. CASE r = Len(d)
  <2>1. q # Len(d) /\ d[r] = f
    BY <1>2 DEF Grows
  <2>2. d[q] \in ToSet(disk) /\ d[q].name # f.name
    BY <2>1 DEF Grows
  <2> QED
    BY <2>1, <2>2
<1> QED
  BY <1>1, <1>2

\* Nothing comes to the disk, and what leaves it was written over.
LEMMA NewestKept ==
  ASSUME KeepsTheNewest, UNCHANGED written, stuck \subseteq stuck', clobbered \subseteq clobbered',
         OnDisk' \subseteq OnDisk, OnDisk \subseteq OnDisk' \cup clobbered'
  PROVE  KeepsTheNewest'
BY DEF KeepsTheNewest

LEMMA FilesFrame ==
  ASSUME Files, UNCHANGED <<disk, written, clobbered>>, stuck \subseteq stuck'
  PROVE  Files'
<1>1. OnDisk' = OnDisk
  BY DEF OnDisk
<1>2. KeepsTheNewest'
  BY <1>1, NewestKept DEF Files
<1>3. NamesDiffer(disk') /\ Sorted(written', disk') /\ SizeBound'
  BY DEF Files, SizeBound
<1> QED
  BY <1>1, <1>2, <1>3 DEF Files

LEMMA PayloadsFrame ==
  ASSUME Payloads, UNCHANGED <<calls, payload, written, returned>>
  PROVE  Payloads'
BY DEF Payloads

LEMMA RetentionFrame ==
  ASSUME Retention, UNCHANGED <<candidates, spared, disk, active, stuck>>
  PROVE  Retention'
BY DEF Retention

LEMMA NoCandidates ==
  ASSUME candidates' = {}
  PROVE  Retention'
BY DEF Retention

\* The active file and its place stay, whatever is next but its archive.
LEMMA ActiveFrame ==
  ASSUME ActiveFile, UNCHANGED <<disk, written>>, active'.path = active.path,
         active'.open => active.open, stage' \notin {"zip", "unlink"}
  PROVE  ActiveFile'
BY DEF ActiveFile, Before

LEMMA AcknowledgedFrame ==
  ASSUME Acknowledged, TypeOK, failures' = failures \/ failures' = failures + 1,
         UNCHANGED <<mode, written, returned>>
  PROVE  Acknowledged'
BY DEF Acknowledged, TypeOK

\* The holder's write is over: its record is told, or written, or neither.
LEMMA LeavePayloads ==
  ASSUME TypeOK, Payloads, Leave, lock \in Writers,
         written' = written \/ written' = Append(written, payload[lock]),
         returned' = returned \/ returned' = returned \cup {payload[lock]},
         payload[lock] \in Records
  PROVE  Payloads'
<1>1. /\ calls' = [calls EXCEPT ![lock] = "idle"]
      /\ payload' = [payload EXCEPT ![lock] = NoRecord]
  BY DEF Leave
<1>2. ToSet(written') \cup returned' \subseteq ToSet(written) \cup returned \cup {payload[lock]}
  <2>1. ToSet(Append(written, payload[lock])) = ToSet(written) \cup {payload[lock]}
    BY AppendFacts DEF TypeOK
  <2> QED
    BY <2>1
<1>3. NoRecord \notin ToSet(written') \cup returned'
  <2>1. ToSet(written) \subseteq Records /\ returned \subseteq Records
    BY DEF TypeOK, ToSet
  <2> QED
    BY <1>2, <2>1
<1>4. \A x \in Writers : payload'[x] = IF x = lock THEN NoRecord ELSE payload[x]
  BY <1>1 DEF TypeOK
<1>5. \A x \in Writers : calls'[x] # "idle" => x # lock /\ calls[x] # "idle"
  BY <1>1 DEF TypeOK
<1>6. \A x \in Writers : payload'[x] \notin ToSet(written') \cup returned'
  <2> SUFFICES ASSUME NEW x \in Writers PROVE payload'[x] \notin ToSet(written') \cup returned'
    OBVIOUS
  <2>1. CASE x = lock
    BY <1>3, <1>4, <2>1
  <2>2. CASE x # lock
    <3>1. payload'[x] = payload[x] /\ payload[x] \notin ToSet(written) \cup returned
      BY <1>4, <2>2 DEF Payloads
    <3>2. payload[x] # payload[lock]
      BY <2>2 DEF Payloads
    <3> QED
      BY <1>2, <3>1, <3>2
  <2> QED
    BY <2>1, <2>2
<1>7. \A x, y \in Writers : payload'[x] = payload'[y] => x = y \/ payload'[x] = NoRecord
  BY <1>4 DEF Payloads
<1> QED
  BY <1>4, <1>5, <1>6, <1>7 DEF Payloads

-----------------------------------------------------------------------------
(* The steps that leave the disk as it is.                                 *)

LEMMA Holder ==
  ASSUME TypeOK, Holding, Payloads, stage \notin {"none", "retain", "files", "bytes"}
  PROVE  lock \in Writers /\ calls[lock] = "write" /\ payload[lock] \in Records
<1>1. lock \in Writers
  BY DEF TypeOK, Holding
<1> QED
  BY <1>1 DEF Holding, Payloads

LEMMA DiskNames ==
  ASSUME TypeOK
  PROVE  \A p \in DOMAIN disk :
           disk[p] \in File /\ disk[p].name \in Name /\ disk[p].name # NoFile
                           /\ disk[p].records \in Seq(Records)
<1>1. \A p \in DOMAIN disk : disk[p] \in File
  BY DEF TypeOK
<1>2. \A f \in File : f.name \in Name /\ f.name # NoFile /\ f.records \in Seq(Records)
  BY DEF File
<1> QED
  BY <1>1, <1>2

\* A call that returns at once says so only of what its mode drops.
LEMMA SerializeFacts ==
  ASSUME TypeOK, Payloads, Acknowledged, NEW w \in Writers, NEW r \in Records,
         NEW serialized \in BOOLEAN, Serialize(w, r, serialized),
         r \notin ToSet(written) \cup returned,
         \A x \in Writers : payload[x] = r => x = w,
         failures' = failures \/ failures' = failures + 1, UNCHANGED <<mode, written>>
  PROVE  /\ calls' \in [Writers -> CallState] /\ payload' \in [Writers -> Records \cup {NoRecord}]
         /\ returned' \subseteq Records
         /\ \A x \in Writers : x # w => calls'[x] = calls[x] /\ payload'[x] = payload[x]
         /\ Payloads' /\ Acknowledged'
<1>1. CASE /\ calls' = [calls EXCEPT ![w] = "write"] /\ payload' = [payload EXCEPT ![w] = r]
           /\ UNCHANGED returned
  <2>1. /\ calls' \in [Writers -> CallState] /\ payload' \in [Writers -> Records \cup {NoRecord}]
        /\ \A x \in Writers : payload'[x] = IF x = w THEN r ELSE payload[x]
        /\ \A x \in Writers : x # w => calls'[x] = calls[x]
    BY <1>1 DEF TypeOK, CallState
  <2>2. Payloads'
    BY <1>1, <2>1 DEF Payloads
  <2>3. Acknowledged'
    BY <1>1, AcknowledgedFrame
  <2>4. returned' \subseteq Records
    BY <1>1 DEF TypeOK
  <2> QED
    BY <2>1, <2>2, <2>3, <2>4
<1>2. CASE /\ calls' = [calls EXCEPT ![w] = "idle"]
           /\ payload' = [payload EXCEPT ![w] = NoRecord]
           /\ \/ Skips(r, serialized) /\ returned' = returned \cup {r}
              \/ UNCHANGED returned
  <2>1. /\ calls' \in [Writers -> CallState] /\ payload' \in [Writers -> Records \cup {NoRecord}]
        /\ \A x \in Writers : payload'[x] = IF x = w THEN NoRecord ELSE payload[x]
        /\ \A x \in Writers : x # w => calls'[x] = calls[x]
        /\ calls'[w] = "idle"
    BY <1>2 DEF TypeOK, CallState
  <2>2. returned' \subseteq returned \cup {r} /\ returned' \subseteq Records
    BY <1>2 DEF TypeOK
  <2>3. NoRecord \notin ToSet(written) \cup returned'
    BY <2>2 DEF TypeOK, ToSet
  <2>4. \A x \in Writers : payload'[x] \notin ToSet(written') \cup returned'
    BY <2>1, <2>2, <2>3 DEF Payloads
  <2>5. Payloads'
    BY <2>1, <2>4 DEF Payloads
  <2>6. Acknowledged'
    <3>1. CASE UNCHANGED returned
      BY <3>1, AcknowledgedFrame
    <3>2. CASE Skips(r, serialized) /\ returned' = returned \cup {r}
      <4>1. mode = "text" \/ (mode = "strict" /\ r \in Awkward)
        BY <3>2 DEF Skips
      <4>2. failures' = 0 => failures = 0
        BY DEF TypeOK
      <4> QED
        BY <3>2, <4>1, <4>2 DEF Acknowledged
    <3> QED
      BY <1>2, <3>1, <3>2
  <2> QED
    BY <2>1, <2>2, <2>5, <2>6
<1> QED
  BY <1>1, <1>2 DEF Serialize

LEMMA CallKeeps ==
  ASSUME RotatingInv, NEW w \in Writers, NEW r \in Records, NEW serialized \in BOOLEAN,
         Call(w, r, serialized)
  PROVE  RotatingInv'
<1> USE DEF RotatingInv
<1>1. /\ calls[w] = "idle" /\ Fresh(r)
      /\ UNCHANGED <<retentionVars, zips, mode, second, directory, disk, started, lock, stage,
                     reason, active, written, clobbered, failures, crashes>>
  BY DEF Call
<1>2. \/ Serialize(w, r, serialized)
      \/ /\ calls' = [calls EXCEPT ![w] = "start"] /\ payload' = [payload EXCEPT ![w] = r]
         /\ UNCHANGED returned
  BY DEF Call
<1>3. r \notin ToSet(written) \cup returned /\ \A x \in Writers : payload[x] # r
  BY <1>1 DEF Fresh
<1>4. /\ calls' \in [Writers -> CallState] /\ payload' \in [Writers -> Records \cup {NoRecord}]
      /\ returned' \subseteq Records
      /\ \A x \in Writers : x # w => calls'[x] = calls[x] /\ payload'[x] = payload[x]
      /\ Payloads' /\ Acknowledged'
  <2>1. CASE Serialize(w, r, serialized)
    BY <1>1, <1>3, <2>1, SerializeFacts
  <2>2. CASE /\ calls' = [calls EXCEPT ![w] = "start"] /\ payload' = [payload EXCEPT ![w] = r]
             /\ UNCHANGED returned
    <3>1. /\ calls' \in [Writers -> CallState]
          /\ payload' \in [Writers -> Records \cup {NoRecord}]
          /\ \A x \in Writers : payload'[x] = IF x = w THEN r ELSE payload[x]
          /\ \A x \in Writers : x # w => calls'[x] = calls[x]
      BY <2>2 DEF TypeOK, CallState
    <3>2. UNCHANGED written
      BY <1>1
    <3>3. Payloads'
      BY <1>3, <2>2, <3>1, <3>2 DEF Payloads
    <3>4. Acknowledged' /\ returned' \subseteq Records
      BY <1>1, <2>2, AcknowledgedFrame DEF TypeOK
    <3> QED
      BY <3>1, <3>3, <3>4
  <2> QED
    BY <1>2, <2>1, <2>2
<1>5. TypeOK'
  BY <1>1, <1>4 DEF TypeOK, retentionVars
<1>6. Files' /\ Retention'
  BY <1>1, FilesFrame, RetentionFrame DEF retentionVars
<1>7. lock \in Writers => calls'[lock] = calls[lock] /\ payload'[lock] = payload[lock]
  BY <1>1, <1>4 DEF Holding
<1>8. Holding'
  BY <1>1, <1>7 DEF Holding, retentionVars
<1>9. ActiveFile'
  BY <1>1 DEF ActiveFile, Before
<1>10. Sizes'
  <2>1. stage = "append" => lock \in Writers
    BY Holder
  <2> QED
    BY <1>1, <1>7, <2>1 DEF Sizes
<1> QED
  BY <1>4, <1>5, <1>6, <1>8, <1>9, <1>10

LEMMA EnterKeeps ==
  ASSUME RotatingInv, NEW w \in Writers, Enter(w)
  PROVE  RotatingInv'
<1> USE DEF RotatingInv
<1>1. /\ calls[w] = "write" /\ lock = NoOne /\ stage = "none"
      /\ lock' = w /\ stage' = IF active.open THEN "check" ELSE "open"
      /\ UNCHANGED <<retentionVars, zips, mode, second, directory, disk, started, calls, payload,
                     reason, active, written, returned, clobbered, failures, crashes>>
  BY DEF Enter, TypeOK
<1>2. TypeOK'
  BY <1>1 DEF TypeOK, retentionVars, Stage
<1>3. Files' /\ Retention' /\ Acknowledged' /\ Payloads'
  BY <1>1, FilesFrame, RetentionFrame, AcknowledgedFrame, PayloadsFrame DEF retentionVars
<1>4. Holding'
  BY <1>1 DEF Holding, retentionVars
<1>5. ActiveFile'
  BY <1>1, ActiveFrame
<1>6. Sizes'
  BY <1>1 DEF Sizes
<1> QED
  BY <1>2, <1>3, <1>4, <1>5, <1>6

LEMMA CheckKeeps ==
  ASSUME RotatingInv, Check
  PROVE  RotatingInv'
<1> USE DEF RotatingInv
<1>1. /\ stage = "check" /\ stage' = IF Due \/ TooLarge THEN "close" ELSE "append"
      /\ reason' \in {"time", "size"}
      /\ UNCHANGED <<retentionVars, zips, mode, second, directory, disk, started, calls, payload,
                     lock, active, written, returned, clobbered, failures, crashes>>
  BY DEF Check
<1>2. TypeOK'
  BY <1>1 DEF TypeOK, retentionVars, Stage
<1>3. Files' /\ Retention' /\ Acknowledged' /\ Payloads'
  BY <1>1, FilesFrame, RetentionFrame, AcknowledgedFrame, PayloadsFrame DEF retentionVars
<1>4. Holding'
  BY <1>1 DEF Holding, retentionVars
<1>5. ActiveFile'
  BY <1>1, ActiveFrame
<1>6. Sizes'
  <2>1. active.size \in Nat /\ SizeOf(payload[lock]) \in Nat /\ MaxBytes \in Nat
    BY SizeOfType DEF TypeOK
  <2>2. stage' = "append" => active.size + SizeOf(payload[lock]) <= MaxBytes
    BY <1>1, <2>1 DEF TooLarge
  <2> QED
    BY <1>1, <2>2 DEF Sizes
<1> QED
  BY <1>2, <1>3, <1>4, <1>5, <1>6

LEMMA ListKeeps ==
  ASSUME RotatingInv, List
  PROVE  RotatingInv'
<1> USE DEF RotatingInv
<1>1. /\ stage = "retain" /\ candidates' = Rotated /\ stage' = "files"
      /\ UNCHANGED <<zips, mode, second, directory, disk, started, calls, payload, lock, reason,
                     active, spared, written, returned, clobbered, stuck, failures, crashes>>
  BY DEF List
<1>2. TypeOK'
  BY <1>1 DEF TypeOK, Stage, Rotated
<1>3. Files' /\ Acknowledged' /\ Payloads'
  BY <1>1, FilesFrame, AcknowledgedFrame, PayloadsFrame
<1>4. Holding'
  BY <1>1 DEF Holding
<1>5. ActiveFile'
  BY <1>1, ActiveFrame
<1>6. Retention'
  <2>1. spared = {}
    BY <1>1 DEF Holding
  <2> QED
    BY <1>1, <2>1 DEF Retention, Rotated, ToSet
<1>7. Sizes'
  BY <1>1 DEF Sizes
<1> QED
  BY <1>2, <1>3, <1>4, <1>5, <1>6, <1>7

LEMMA WeighKeeps ==
  ASSUME RotatingInv, Weigh
  PROVE  RotatingInv'
<1> USE DEF RotatingInv
<1>1. /\ stage = "files" /\ stage' = "bytes"
      /\ UNCHANGED <<retentionVars, zips, mode, second, directory, disk, started, calls, payload,
                     lock, reason, active, written, returned, clobbered, failures, crashes>>
  BY DEF Weigh
<1>2. TypeOK'
  BY <1>1 DEF TypeOK, retentionVars, Stage
<1>3. Files' /\ Retention' /\ Acknowledged' /\ Payloads'
  BY <1>1, FilesFrame, RetentionFrame, AcknowledgedFrame, PayloadsFrame DEF retentionVars
<1>4. Holding'
  BY <1>1 DEF Holding
<1>5. ActiveFile'
  BY <1>1, ActiveFrame
<1>6. Sizes'
  BY <1>1 DEF Sizes
<1> QED
  BY <1>2, <1>3, <1>4, <1>5, <1>6

LEMMA RetentionEndsKeeps ==
  ASSUME RotatingInv, RetentionEnds
  PROVE  RotatingInv'
<1> USE DEF RotatingInv
<1>1. /\ stage \in {"retain", "files", "bytes"}
      /\ failures' \in {failures, failures + 1} /\ failures' \in 0 .. MaxFailures
      /\ candidates' = {} /\ spared' = {}
      /\ UNCHANGED <<zips, mode, second, directory, disk, started, calls, payload, reason, written,
                     returned, clobbered, stuck, crashes>>
  BY DEF RetentionEnds, TypeOK
<1>2. \/ lock' = NoOne /\ stage' = "none" /\ active' = Closed
      \/ lock # Owner /\ stage' = "reopen" /\ UNCHANGED <<lock, active>>
  BY DEF RetentionEnds
<1>3. TypeOK'
  <2>1. Closed \in [open : BOOLEAN, path : Name \cup {NoFile}, size : Nat, deadline : Nat]
    BY DEF Closed
  <2>2. CASE lock' = NoOne /\ stage' = "none" /\ active' = Closed
    BY <1>1, <2>1, <2>2 DEF TypeOK, Stage
  <2>3. CASE lock # Owner /\ stage' = "reopen" /\ UNCHANGED <<lock, active>>
    BY <1>1, <2>3 DEF TypeOK, Stage
  <2> QED
    BY <1>2, <2>2, <2>3
<1>4. Files' /\ Retention' /\ Acknowledged' /\ Payloads'
  BY <1>1, FilesFrame, NoCandidates, AcknowledgedFrame, PayloadsFrame
<1>5. ~active.open /\ ~active'.open
  BY <1>1, <1>2 DEF Holding, Closed
<1>6. Holding'
  BY <1>1, <1>2, <1>5 DEF Holding, Closed, TypeOK
<1>7. ActiveFile'
  <2>1. CASE active' = Closed
    <3>1. active'.path = NoFile /\ ~active'.open /\ stage' \notin {"zip", "unlink"}
      BY <1>2, <2>1 DEF Closed
    <3>2. \A p \in DOMAIN disk : disk[p].name # NoFile
      BY DiskNames
    <3> QED
      BY <1>1, <3>1, <3>2 DEF ActiveFile
  <2>2. CASE UNCHANGED active
    BY <1>1, <1>2, <2>2, ActiveFrame
  <2> QED
    BY <1>2, <2>1, <2>2
<1>8. Sizes'
  BY <1>2, <1>5 DEF Sizes
<1> QED
  BY <1>3, <1>4, <1>6, <1>7, <1>8

LEMMA StopKeeps ==
  ASSUME RotatingInv, Stop
  PROVE  RotatingInv'
<1> USE DEF RotatingInv
<1>1. /\ lock = NoOne /\ stage = "none"
      /\ \/ lock' = Owner /\ stage' = "retain" /\ UNCHANGED failures
         \/ failures' = failures + 1 /\ failures' \in 0 .. MaxFailures /\ UNCHANGED <<lock, stage>>
      /\ active' = [active EXCEPT !.open = FALSE]
      /\ UNCHANGED <<retentionVars, zips, mode, second, directory, disk, started, calls, payload,
                     reason, written, returned, clobbered, crashes>>
  BY DEF Stop, TypeOK
<1>2. /\ active' \in [open : BOOLEAN, path : Name \cup {NoFile}, size : Nat, deadline : Nat]
      /\ ~active'.open /\ active'.path = active.path
  BY <1>1 DEF TypeOK
<1>3. TypeOK'
  <2>1. /\ stage' \in Stage /\ lock' \in Writers \cup {Owner, NoOne}
        /\ stage' = "none" <=> lock' = NoOne
    BY <1>1 DEF TypeOK, Stage
  <2>2. failures' \in 0 .. MaxFailures
    BY <1>1 DEF TypeOK
  <2> QED
    BY <1>1, <1>2, <2>1, <2>2 DEF TypeOK, retentionVars
<1>4. candidates' = {} /\ spared' = {}
  BY <1>1 DEF Holding, retentionVars
<1>5. Files' /\ Retention' /\ Acknowledged' /\ Payloads'
  BY <1>1, <1>4, FilesFrame, NoCandidates, AcknowledgedFrame, PayloadsFrame DEF retentionVars
<1>6. Holding'
  BY <1>1, <1>2, <1>4 DEF Holding
<1>7. ActiveFile'
  BY <1>1, <1>2, ActiveFrame
<1>8. Sizes'
  BY <1>1, <1>2 DEF Sizes
<1> QED
  BY <1>3, <1>5, <1>6, <1>7, <1>8

LEMMA TickKeeps ==
  ASSUME RotatingInv, Tick
  PROVE  RotatingInv'
<1> USE DEF RotatingInv
<1>1. /\ second' \in 0 .. MaxSecond
      /\ UNCHANGED <<retentionVars, zips, mode, directory, disk, started, calls, payload, lock,
                     stage, reason, active, written, returned, clobbered, failures, crashes>>
  BY DEF Tick, TypeOK
<1>2. TypeOK'
  BY <1>1 DEF TypeOK, retentionVars
<1>3. Files' /\ Retention' /\ Acknowledged' /\ Payloads'
  BY <1>1, FilesFrame, RetentionFrame, AcknowledgedFrame, PayloadsFrame DEF retentionVars
<1>4. Holding' /\ ActiveFile' /\ Sizes'
  BY <1>1 DEF Holding, ActiveFile, Before, Sizes, retentionVars
<1> QED
  BY <1>2, <1>3, <1>4

LEMMA CrashKeeps ==
  ASSUME RotatingInv, Crash
  PROVE  RotatingInv'
<1> USE DEF RotatingInv
<1>1. /\ crashes' \in 0 .. MaxCrashes /\ started' = FALSE
      /\ calls' = [w \in Writers |-> "idle"] /\ payload' = [w \in Writers |-> NoRecord]
      /\ lock' = NoOne /\ stage' = "none" /\ reason' = "size" /\ active' = Closed
      /\ candidates' = {} /\ spared' = {}
      /\ UNCHANGED <<zips, mode, second, directory, disk, written, returned, clobbered, stuck,
                     failures>>
  BY DEF Crash, TypeOK
<1>2. TypeOK'
  <2>1. Closed \in [open : BOOLEAN, path : Name \cup {NoFile}, size : Nat, deadline : Nat]
    BY DEF Closed
  <2> QED
    BY <1>1, <2>1 DEF TypeOK, Stage, CallState
<1>3. Files' /\ Retention' /\ Acknowledged'
  BY <1>1, FilesFrame, NoCandidates, AcknowledgedFrame
<1>4. Payloads'
  <2>1. NoRecord \notin ToSet(written) \cup returned
    BY DEF TypeOK, ToSet
  <2> QED
    BY <1>1, <2>1 DEF Payloads
<1>5. Holding'
  BY <1>1 DEF Holding, Closed
<1>6. ActiveFile'
  <2>1. \A p \in DOMAIN disk : disk[p].name # NoFile
    BY DiskNames
  <2> QED
    BY <1>1, <2>1 DEF ActiveFile, Closed
<1>7. Sizes'
  BY <1>1 DEF Sizes, Closed
<1> QED
  BY <1>2, <1>3, <1>4, <1>5, <1>6, <1>7

-----------------------------------------------------------------------------
(* Retention and the end of a file.                                        *)

LEMMA VictimFacts ==
  ASSUME TypeOK, Files, OverBudget
  PROVE  \E v \in DOMAIN disk :
           /\ disk[v] = Victim /\ Victim \in candidates
           /\ \A p \in DOMAIN disk : disk[p] \in candidates => v <= p
<1>1. CASE candidates # {}
  BY <1>1, VictimIsOldest DEF TypeOK, Files
<1>2. CASE candidates = {}
  <2>1. Cardinality(candidates) = 0 /\ MaxFiles \in Nat
    BY <1>2, FS_EmptySet
  <2> QED
    BY <1>2, <2>1 DEF OverBudget, TooManyFiles, TooManyBytes
<1> QED
  BY <1>1, <1>2

LEMMA SpareKeeps ==
  ASSUME RotatingInv, Spare
  PROVE  RotatingInv'
<1> USE DEF RotatingInv
<1>1. /\ stage \in {"files", "bytes"} /\ OverBudget
      /\ failures' = failures + 1 /\ failures' \in 0 .. MaxFailures
      /\ candidates' = candidates \ {Victim}
      /\ spared' = spared \/ spared' = spared \cup {Victim}
      /\ stuck' = stuck \cup ToSet(Victim.records)
      /\ UNCHANGED <<zips, mode, second, directory, disk, started, calls, payload, lock, stage,
                     reason, active, written, returned, clobbered, crashes>>
  BY DEF Spare, TypeOK, OverBudget
<1>2. PICK v \in DOMAIN disk : disk[v] = Victim /\ Victim \in candidates
  BY <1>1, VictimFacts
<1>3. TypeOK'
  <2>1. ToSet(Victim.records) \subseteq Records
    BY <1>2, DiskNames DEF ToSet
  <2>2. Victim \in ToSet(disk)
    BY <1>2 DEF ToSet
  <2> QED
    BY <1>1, <2>1, <2>2 DEF TypeOK
<1>4. Files' /\ Acknowledged' /\ Payloads'
  BY <1>1, FilesFrame, AcknowledgedFrame, PayloadsFrame
<1>5. Holding' /\ ActiveFile' /\ Sizes'
  BY <1>1 DEF Holding, ActiveFile, Before, Sizes
<1>6. Retention'
  BY <1>1, <1>2 DEF Retention
<1> QED
  BY <1>3, <1>4, <1>5, <1>6

\* What goes with the victim are copies and records older than all there is.
LEMMA OldestGoes ==
  ASSUME TypeOK, Files, ActiveFile, Retention, NEW v \in DOMAIN disk, disk[v] \in candidates,
         \A p \in DOMAIN disk : disk[p] \in candidates => v <= p,
         NEW d, Thins(d, disk[v].name)
  PROVE  \A i, j \in DOMAIN written :
           i < j /\ written[i] \in Held(d) \ stuck => written[j] \in Held(d) \cup clobbered
<1> SUFFICES ASSUME NEW i \in DOMAIN written, NEW j \in DOMAIN written, i < j,
                    written[i] \in Held(d), written[i] \notin stuck,
                    written[j] \notin Held(d), written[j] \notin clobbered
             PROVE  FALSE
  OBVIOUS
<1>0. PICK f \in ToSet(d) : written[i] \in ToSet(f.records)
  BY HeldBy
<1>1. /\ ToSet(d) = {g \in ToSet(disk) : g.name # disk[v].name}
      /\ DOMAIN disk = 1 .. Len(disk) /\ DOMAIN written = 1 .. Len(written)
      /\ Len(disk) \in Nat /\ Len(written) \in Nat
  BY DEF Thins, TypeOK
<1>2. written[i] \in OnDisk
  BY <1>0, <1>1, HeldBy
<1>3. written[j] \in OnDisk
  BY <1>2 DEF Files, KeepsTheNewest
<1>4. PICK k \in DOMAIN disk : disk[k].name = disk[v].name /\ written[j] \in ToSet(disk[k].records)
  <2>1. PICK g \in ToSet(disk) : written[j] \in ToSet(g.records)
    BY <1>3, HeldBy
  <2>2. g.name = disk[v].name
    BY <1>1, <2>1, HeldBy
  <2> QED
    BY <2>1, <2>2 DEF ToSet
<1>5. k = v
  BY <1>4 DEF Files, NamesDiffer
<1>6. PICK p \in DOMAIN disk : disk[p] = f /\ f.name # disk[v].name
  BY <1>1 DEF ToSet
<1>7. disk[p].records # disk[v].records
  BY <1>0, <1>4, <1>5, <1>6, HeldBy
<1>8. CASE v < p
  <2>1. Before(written, disk[v], disk[p])
    BY <1>7, <1>8 DEF Files, Sorted
  <2>2. j < i
    BY <1>0, <1>4, <1>5, <1>6, <2>1 DEF Before
  <2> QED
    BY <1>1, <2>2
<1>9. CASE p < v
  <2>1. disk[p] \notin candidates
    BY <1>1, <1>9
  <2>2. disk[p].name # active.path
    BY <1>4, <1>5, <1>7, <1>9 DEF ActiveFile, ToSet
  <2>3. ToSet(disk[p].records) \subseteq stuck
    BY <1>9, <2>1, <2>2 DEF Retention
  <2> QED
    BY <1>0, <1>6, <2>3
<1> QED
  BY <1>1, <1>6, <1>8, <1>9

LEMMA RetainKeeps ==
  ASSUME RotatingInv, Retain
  PROVE  RotatingInv'
<1> USE DEF RotatingInv
<1>1. /\ stage \in {"files", "bytes"} /\ OverBudget
      /\ candidates' = candidates \ {Victim} /\ disk' = Without(Victim.name)
      /\ UNCHANGED <<zips, mode, second, directory, started, calls, payload, lock, stage, reason,
                     active, spared, written, returned, clobbered, stuck, failures, crashes>>
  BY DEF Retain, OverBudget
<1>2. PICK v \in DOMAIN disk :
        /\ disk[v] = Victim /\ Victim \in candidates
        /\ \A p \in DOMAIN disk : disk[p] \in candidates => v <= p
  BY <1>1, VictimFacts
<1>3. disk \in Seq(File) /\ NamesDiffer(disk)
  BY DEF TypeOK, Files
<1>4. Thins(disk', disk[v].name)
  BY <1>1, <1>2, <1>3, WithoutThins
<1>5. /\ disk' \in Seq(File) /\ ToSet(disk') = {f \in ToSet(disk) : f.name # disk[v].name}
      /\ \A q, r \in DOMAIN disk' : q < r =>
           \E p, s \in DOMAIN disk : p < s /\ disk'[q] = disk[p] /\ disk'[r] = disk[s]
  BY <1>4 DEF Thins
<1>6. \A f \in ToSet(disk) : f.name = disk[v].name => f = disk[v]
  BY DEF ToSet, Files, NamesDiffer
<1>7. TypeOK'
  <2>1. candidates' \subseteq ToSet(disk') /\ spared' \subseteq ToSet(disk')
    BY <1>1, <1>2, <1>5, <1>6 DEF TypeOK, Retention
  <2> QED
    BY <1>1, <1>5, <2>1 DEF TypeOK
<1>8. Files'
  <2>1. NamesDiffer(disk') /\ Sorted(written', disk')
    BY <1>1, <1>3, <1>4, ThinNames, ThinSorted DEF Files
  <2>2. OnDisk' \subseteq ToSet(written') /\ SizeBound'
    <3>1. Held(disk') \subseteq Held(disk)
      BY <1>5, HeldBy
    <3> QED
      BY <1>1, <1>5, <3>1 DEF Files, OnDisk, Held, SizeBound
  <2>3. KeepsTheNewest'
    <3>1. \A i, j \in DOMAIN written :
             i < j /\ written[i] \in Held(disk') \ stuck =>
               written[j] \in Held(disk') \cup clobbered
      BY <1>2, <1>4, OldestGoes
    <3>2. OnDisk' = Held(disk')
      BY DEF OnDisk, Held
    <3> QED
      BY <1>1, <3>1, <3>2 DEF KeepsTheNewest
  <2> QED
    BY <2>1, <2>2, <2>3 DEF Files
<1>9. ~active.open
  BY <1>1 DEF Holding
<1>10. ActiveFile'
  BY <1>1, <1>5, <1>9 DEF ActiveFile
<1>11. Retention'
  <2>1. candidates' \cap spared' = {} /\ \A f \in candidates' : f.name # active'.path
    BY <1>1 DEF Retention
  <2>2. ASSUME NEW q \in DOMAIN disk', NEW r \in DOMAIN disk', q < r, disk'[r] \in candidates',
               disk'[q].name # active'.path, ~(ToSet(disk'[q].records) \subseteq stuck')
        PROVE  disk'[q] \in candidates'
    <3>1. PICK p, s \in DOMAIN disk : p < s /\ disk'[q] = disk[p] /\ disk'[r] = disk[s]
      BY <1>5, <2>2
    <3>2. disk[p] \in candidates
      BY <1>1, <2>2, <3>1 DEF Retention
    <3>3. disk'[q].name # disk[v].name
      BY <1>5 DEF ToSet
    <3> QED
      BY <1>1, <1>2, <3>1, <3>2, <3>3
  <2> QED
    BY <2>1, <2>2 DEF Retention
<1>12. Holding' /\ Sizes' /\ Payloads' /\ Acknowledged'
  <2>1. Payloads' /\ Acknowledged'
    BY <1>1, PayloadsFrame, AcknowledgedFrame
  <2>2. Holding' /\ Sizes'
    BY <1>1, <1>9 DEF Holding, Sizes
  <2> QED
    BY <2>1, <2>2
<1> QED
  BY <1>7, <1>8, <1>10, <1>11, <1>12

LEMMA CloseKeeps ==
  ASSUME RotatingInv, Close
  PROVE  RotatingInv'
<1> USE DEF RotatingInv
<1>1. /\ stage = "close" /\ active' = [active EXCEPT !.open = FALSE]
      /\ UNCHANGED <<retentionVars, zips, mode, second, directory, disk, started, written,
                     clobbered, crashes>>
  BY DEF Close
<1>2. \/ /\ stage' \in {"zip", "retain"}
         /\ UNCHANGED <<lock, calls, payload, reason, returned, failures>>
      \/ /\ failures' = failures + 1 /\ failures' \in 0 .. MaxFailures
         /\ Leave /\ returned' = returned
  BY DEF Close, RaisesErrors, TypeOK
<1>3. lock \in Writers /\ calls[lock] = "write" /\ payload[lock] \in Records /\ active.open
  BY <1>1, Holder DEF Holding
<1>4. /\ active' \in [open : BOOLEAN, path : Name \cup {NoFile}, size : Nat, deadline : Nat]
      /\ ~active'.open /\ active'.path = active.path
  BY <1>1 DEF TypeOK
<1>5. TypeOK'
  <2>1. CASE stage' \in {"zip", "retain"} /\ UNCHANGED <<lock, calls, payload, reason, returned,
                                                         failures>>
    BY <1>1, <1>3, <1>4, <2>1 DEF TypeOK, retentionVars, Stage
  <2>2. CASE failures' \in 0 .. MaxFailures /\ Leave /\ returned' = returned
    BY <1>1, <1>4, <2>2 DEF TypeOK, retentionVars, Stage, Leave, CallState
  <2> QED
    BY <1>2, <2>1, <2>2
<1>6. candidates' = {} /\ spared' = {}
  BY <1>1 DEF Holding, retentionVars
<1>7. Files' /\ Retention' /\ Acknowledged'
  BY <1>1, <1>2, <1>6, FilesFrame, NoCandidates, AcknowledgedFrame DEF retentionVars
<1>8. Payloads'
  BY <1>1, <1>2, <1>3, LeavePayloads, PayloadsFrame
<1>9. Holding'
  <2>1. CASE stage' \in {"zip", "retain"} /\ UNCHANGED <<lock, calls>>
    BY <1>3, <1>4, <1>6, <2>1 DEF Holding
  <2>2. CASE Leave
    BY <1>4, <1>6, <2>2 DEF Holding, Leave
  <2> QED
    BY <1>2, <2>1, <2>2
<1>10. ActiveFile'
  <2>1. stage' # "unlink"
    BY <1>2 DEF Leave
  <2>2. Len(disk) > 0 /\ disk[Len(disk)].name = active.path
    BY <1>3 DEF ActiveFile
  <2> QED
    BY <1>1, <1>4, <2>1, <2>2 DEF ActiveFile
<1>11. Sizes'
  BY <1>2, <1>4 DEF Sizes, Leave
<1> QED
  BY <1>5, <1>7, <1>8, <1>9, <1>10, <1>11

-----------------------------------------------------------------------------
(* Compression.                                                            *)

LEMMA UnlinkKeeps ==
  ASSUME RotatingInv, Unlink
  PROVE  RotatingInv'
<1> USE DEF RotatingInv
<1>1. /\ stage = "unlink" /\ stage' = "retain"
      /\ failures' \in {failures, failures + 1} /\ failures' \in 0 .. MaxFailures
      /\ disk' = disk \/ disk' = Without(active.path)
      /\ UNCHANGED <<retentionVars, zips, mode, second, directory, started, calls, payload, lock,
                     reason, active, written, returned, clobbered, crashes>>
  BY DEF Unlink, TypeOK
<1>2. candidates' = {} /\ spared' = {} /\ ~active.open
  BY <1>1 DEF Holding, retentionVars
<1>3. disk \in Seq(File) /\ NamesDiffer(disk)
  BY DEF TypeOK, Files
<1>4. CASE disk' = disk
  <2>1. TypeOK'
    BY <1>1, <1>4 DEF TypeOK, Stage, retentionVars
  <2>2. Files' /\ Retention' /\ Acknowledged' /\ Payloads' /\ ActiveFile'
    BY <1>1, <1>2, <1>4, FilesFrame, NoCandidates, AcknowledgedFrame, PayloadsFrame, ActiveFrame
    DEF retentionVars
  <2>3. Holding' /\ Sizes'
    BY <1>1, <1>2 DEF Holding, Sizes
  <2> QED
    BY <2>1, <2>2, <2>3
<1>5. CASE disk' = Without(active.path)
  <2>1. Thins(disk', active.path)
    BY <1>3, <1>5, WithoutThins
  <2>2. disk' \in Seq(File) /\ ToSet(disk') = {f \in ToSet(disk) : f.name # active.path}
    BY <2>1 DEF Thins
  <2>3. TypeOK'
    BY <1>1, <1>2, <2>2 DEF TypeOK, Stage, retentionVars
  <2>4. PICK p, q \in DOMAIN disk :
          p # q /\ disk[p].name = active.path /\ disk[q].records = disk[p].records
    BY <1>1 DEF ActiveFile
  <2>5. disk[q] \in ToSet(disk') /\ \A f \in ToSet(disk) : f.name = active.path => f = disk[p]
    BY <1>3, <2>2, <2>4 DEF NamesDiffer, ToSet
  <2>6. Held(disk') = Held(disk)
    <3>1. \A x : x \in Held(disk') <=> x \in Held(disk)
      BY <2>2, <2>4, <2>5, HeldBy
    <3> QED
      BY <3>1
  <2>7. Files'
    <3>1. NamesDiffer(disk') /\ Sorted(written', disk')
      BY <1>1, <1>3, <2>1, ThinNames, ThinSorted DEF Files
    <3>2. OnDisk' = OnDisk
      BY <2>6 DEF OnDisk, Held
    <3>3. SizeBound'
      BY <2>2 DEF Files, SizeBound
    <3>4. KeepsTheNewest'
      BY <1>1, <3>2, NewestKept DEF Files, retentionVars
    <3> QED
      BY <1>1, <3>1, <3>2, <3>3, <3>4 DEF Files
  <2>8. ActiveFile'
    <3>1. \A r \in DOMAIN disk' : disk'[r].name # active.path
      BY <2>2 DEF ToSet
    <3> QED
      BY <1>1, <1>2, <3>1 DEF ActiveFile
  <2>9. Retention' /\ Acknowledged' /\ Payloads'
    BY <1>1, <1>2, NoCandidates, AcknowledgedFrame, PayloadsFrame
  <2>10. Holding' /\ Sizes'
    BY <1>1, <1>2 DEF Holding, Sizes
  <2> QED
    BY <2>3, <2>7, <2>8, <2>9, <2>10
<1> QED
  BY <1>1, <1>4, <1>5

\* The active file while it is not open.
LEMMA ClosedActive ==
  ASSUME ~active'.open, stage' # "zip", active'.path # NoFile => ~active'.path.gz,
         \A p, q \in DOMAIN disk' :
           p < q /\ disk'[p].name = active'.path =>
             disk'[q].records = <<>> \/ disk'[q].records = disk'[p].records,
         stage' = "unlink" =>
           \E p, q \in DOMAIN disk' :
             p # q /\ disk'[p].name = active'.path /\ disk'[q].records = disk'[p].records
  PROVE  ActiveFile'
BY DEF ActiveFile

\* An archive a of the active file, whole or empty.
LEMMA ArchiveFacts ==
  ASSUME TypeOK, Files, ActiveFile, Holding, stage = "zip",
         NEW archive, archive = [active.path EXCEPT !.gz = TRUE],
         NEW records, records = <<>> \/ records = disk[Len(disk)].records,
         NEW f, f = [name |-> archive, records |-> records],
         f \in File => Grows(disk', f),
         clobbered' = IF Exists(archive) /\ disk' # disk
                      THEN clobbered \cup ToSet(FileAt(archive).records) ELSE clobbered,
         UNCHANGED <<written, stuck, active>>, stage' \in {"unlink", "retain"},
         stage' = "unlink" => records = disk[Len(disk)].records
  PROVE  disk' \in Seq(File) /\ clobbered' \subseteq Records /\ Files' /\ ActiveFile'
<1> DEFINE l == Len(disk)
<1>1. /\ l \in DOMAIN disk /\ DOMAIN disk = 1 .. l /\ l \in Nat
      /\ disk[l].name = active.path /\ ~active.open
      /\ disk \in Seq(File) /\ NamesDiffer(disk)
  BY DEF ActiveFile, Holding, TypeOK, Files
<1>2. /\ active.path \in Name /\ ~active.path.gz /\ disk[l].records \in Seq(Records)
      /\ active.path # NoFile
  BY <1>1, DiskNames DEF ActiveFile
<1>3. archive \in Name /\ archive # active.path
  <2>1. archive = [second |-> active.path.second, index |-> active.path.index, gz |-> TRUE]
    BY <1>2 DEF Name
  <2>2. archive \in Name /\ archive.gz
    BY <1>2, <2>1 DEF Name
  <2> QED
    BY <1>2, <2>2, Zenon
<1>4. f \in File /\ records \in Seq(Records) /\ f.name = archive /\ f.records = records
  <2>1. <<>> \in Seq(Records) /\ (records = <<>> \/ records = disk[l].records)
    OBVIOUS
  <2>2. records \in Seq(Records)
    BY <1>2, <2>1, Zenon
  <2>3. f.name = archive /\ f.records = records
    OBVIOUS
  <2>4. f \in File
    BY <1>3, <2>2 DEF File
  <2> QED
    BY <2>2, <2>3, <2>4
<1>5. Grows(disk', f)
  BY <1>4
<1>6. /\ disk' \in Seq(File) /\ Len(disk') > 0 /\ disk'[Len(disk')] = f
      /\ ToSet(disk') = {g \in ToSet(disk) : g.name # archive} \cup {f}
  BY <1>4, <1>5 DEF Grows
<1>7. \A g \in ToSet(disk) : g.name = archive => FileAt(archive) = g /\ Exists(archive)
  BY <1>1, PositionFacts DEF ToSet
<1>8. clobbered' \subseteq Records /\ clobbered \subseteq clobbered'
  <2>1. ASSUME Exists(archive) PROVE FileAt(archive) \in ToSet(disk)
    BY <1>7, <2>1 DEF Exists
  <2>2. \A g \in ToSet(disk) : ToSet(g.records) \subseteq Records
    BY DiskNames DEF ToSet
  <2> QED
    BY <2>1, <2>2 DEF TypeOK
<1>9. ToSet(records) \subseteq ToSet(disk[l].records)
  <2>1. ToSet(<<>>) = {}
    BY DEF ToSet
  <2>2. CASE records = <<>>
    BY <2>1, <2>2
  <2>3. CASE records = disk[l].records
    BY <2>3
  <2> QED
    BY <2>2, <2>3
<1>10. Held(disk') \subseteq Held(disk)
  <2> SUFFICES ASSUME NEW x \in Held(disk') PROVE x \in Held(disk)
    OBVIOUS
  <2>1. PICK g \in ToSet(disk') : x \in ToSet(g.records)
    BY HeldBy
  <2>2. g \in ToSet(disk) \/ g = f
    BY <1>6, <2>1
  <2>3. disk[l] \in ToSet(disk)
    BY <1>1 DEF ToSet
  <2>4. g = f => x \in ToSet(disk[l].records)
    BY <1>4, <1>9, <2>1
  <2> QED
    BY <2>1, <2>2, <2>3, <2>4, HeldBy
<1>11. Held(disk) \subseteq Held(disk') \cup clobbered'
  <2> SUFFICES ASSUME NEW x \in Held(disk), x \notin Held(disk') PROVE x \in clobbered'
    OBVIOUS
  <2>1. PICK g \in ToSet(disk) : x \in ToSet(g.records)
    BY HeldBy
  <2>2. g.name = archive /\ disk' # disk
    BY <1>6, <2>1, HeldBy
  <2> QED
    BY <1>7, <2>1, <2>2
<1>12. ASSUME NEW g \in ToSet(disk)
       PROVE  Before(written, g, f) \/ g.records = f.records
  <2>1. CASE records = <<>>
    BY <1>4, <2>1 DEF Before, ToSet
  <2>2. CASE records = disk[l].records
    <3>1. PICK p \in DOMAIN disk : g = disk[p]
      BY DEF ToSet
    <3>2. p = l \/ Before(written, g, disk[l]) \/ g.records = disk[l].records
      <4>1. Sorted(written, disk)
        BY DEF Files
      <4>2. p < l => Before(written, disk[p], disk[l]) \/ disk[p].records = disk[l].records
        BY <1>1, <4>1 DEF Sorted
      <4> QED
        BY <1>1, <3>1, <4>2
    <3> QED
      BY <1>4, <2>2, <3>1, <3>2 DEF Before
  <2> QED
    BY <2>1, <2>2
<1>13. Files'
  <2>1. NamesDiffer(disk')
    BY <1>1, <1>5, GrowNames
  <2>2. Sorted(written', disk')
    BY <1>5, <1>12, GrowSorted DEF Files
  <2>3. OnDisk' \subseteq OnDisk /\ OnDisk \subseteq OnDisk' \cup clobbered'
    BY <1>10, <1>11 DEF OnDisk, Held
  <2>4. KeepsTheNewest'
    BY <1>8, <2>3, NewestKept DEF Files
  <2>5. SizeBound'
    <3>1. Bytes(<<>>) = 0 /\ 0 <= MaxBytes
      BY BytesOfNothing, MaxBytes \in Nat
    <3>2. disk[l] \in ToSet(disk)
      BY <1>1 DEF ToSet
    <3>3. Bytes(records) <= MaxBytes \/ Len(records) = 1
      <4>1. CASE records = <<>>
        BY <3>1, <4>1
      <4>2. CASE records = disk[l].records
        BY <3>2, <4>2 DEF Files, SizeBound
      <4> QED
        BY <4>1, <4>2
    <3> QED
      BY <1>4, <1>6, <3>3 DEF Files, SizeBound
  <2> QED
    BY <2>1, <2>2, <2>3, <2>4, <2>5 DEF Files
<1>14. \A p \in DOMAIN disk' : p # Len(disk') => disk'[p] \in ToSet(disk)
  BY <1>5 DEF Grows
<1>15. \A g \in ToSet(disk) : g.name = active.path => g = disk[l]
  BY <1>1 DEF ToSet, NamesDiffer
<1>16. ActiveFile'
  <2>1. ASSUME NEW p \in DOMAIN disk', NEW q \in DOMAIN disk', p < q, disk'[p].name = active.path
        PROVE  disk'[q].records = <<>> \/ disk'[q].records = disk'[p].records
    <3>1. CASE q # Len(disk')
      <4>1. PICK r, s \in DOMAIN disk : r < s /\ disk'[p] = disk[r] /\ disk'[q] = disk[s]
        BY <1>5, <2>1, <3>1 DEF Grows
      <4> QED
        BY <2>1, <4>1 DEF ActiveFile
    <3>2. CASE q = Len(disk')
      <4>1. p # Len(disk')
        BY <1>6, <2>1, <3>2
      <4>2. disk'[p] = disk[l]
        BY <1>14, <1>15, <2>1, <4>1
      <4> QED
        BY <1>4, <1>6, <3>2, <4>2
    <3> QED
      BY <3>1, <3>2
  <2>2. /\ Len(disk') \in DOMAIN disk'
        /\ \E p \in DOMAIN disk' : disk'[p] = disk[l]
    <3>1. disk[l] \in ToSet(disk')
      BY <1>1, <1>3, <1>6 DEF ToSet
    <3>2. \E p \in DOMAIN disk' : disk'[p] = disk[l]
      BY <3>1 DEF ToSet
    <3>3. DOMAIN disk' = 1 .. Len(disk') /\ Len(disk') \in Nat /\ Len(disk') > 0
      BY <1>6
    <3> QED
      BY <3>2, <3>3
  <2>3. PICK p \in DOMAIN disk' : disk'[p] = disk[l]
    BY <2>2
  <2>4. p # Len(disk') /\ disk'[p].name = active.path
    BY <1>1, <1>3, <1>4, <1>6, <2>3
  <2>5. stage' = "unlink" => disk'[p].records = disk'[Len(disk')].records
    BY <1>4, <1>6, <2>3
  <2>6. /\ ~active'.open /\ stage' # "zip" /\ active'.path = active.path
        /\ active'.path # NoFile => ~active'.path.gz
    BY <1>1, <1>2
  <2>7. stage' = "unlink" =>
          \E q, r \in DOMAIN disk' :
            q # r /\ disk'[q].name = active'.path /\ disk'[r].records = disk'[q].records
    <3>1. ASSUME stage' = "unlink"
          PROVE  LET q == p
                     r == Len(disk')
                 IN  /\ q \in DOMAIN disk' /\ r \in DOMAIN disk' /\ q # r
                     /\ disk'[q].name = active'.path /\ disk'[r].records = disk'[q].records
      BY <2>2, <2>3, <2>4, <2>5, <2>6, <3>1
    <3> QED
      BY <3>1, Zenon
  <2>8. \A q, r \in DOMAIN disk' :
          q < r /\ disk'[q].name = active'.path =>
            disk'[r].records = <<>> \/ disk'[r].records = disk'[q].records
    BY <2>1, <2>6
  <2> QED
    BY <2>6, <2>7, <2>8, ClosedActive
<1> QED
  BY <1>6, <1>8, <1>13, <1>16

LEMMA CompressKeeps ==
  ASSUME RotatingInv, Compress
  PROVE  RotatingInv'
<1> USE DEF RotatingInv
<1> DEFINE archive == [active.path EXCEPT !.gz = TRUE]
<1>1. /\ stage = "zip" /\ stage' \in {"unlink", "retain"}
      /\ failures' \in {failures, failures + 1} /\ failures' \in 0 .. MaxFailures
      /\ UNCHANGED <<retentionVars, zips, mode, second, directory, started, calls, payload, lock,
                     reason, active, written, returned, crashes>>
      /\ clobbered' = IF Exists(archive) /\ disk' # disk
                      THEN clobbered \cup ToSet(FileAt(archive).records) ELSE clobbered
  BY DEF Compress, TypeOK
<1>2. FileAt(active.path) = disk[Len(disk)]
  <2>1. Len(disk) \in DOMAIN disk /\ disk[Len(disk)].name = active.path /\ NamesDiffer(disk)
    BY <1>1 DEF ActiveFile, TypeOK, Files
  <2> QED
    BY <2>1, PositionFacts
<1>3. \/ disk' = disk /\ stage' = "retain"
      \/ \E records :
           /\ records = <<>> \/ records = disk[Len(disk)].records
           /\ disk' = Modified([name |-> archive, records |-> records])
           /\ stage' = "unlink" => records = disk[Len(disk)].records
  BY <1>2 DEF Compress
<1>4. candidates' = {} /\ spared' = {} /\ ~active.open
  BY <1>1 DEF Holding, retentionVars
<1>5. disk' \in Seq(File) /\ clobbered' \subseteq Records /\ Files' /\ ActiveFile'
  <2>1. CASE disk' = disk /\ stage' = "retain"
    <3>1. UNCHANGED clobbered
      BY <1>1, <2>1
    <3> QED
      BY <1>1, <2>1, <3>1, FilesFrame, ActiveFrame DEF retentionVars, TypeOK
  <2>2. ASSUME NEW records, records = <<>> \/ records = disk[Len(disk)].records,
               disk' = Modified([name |-> archive, records |-> records]),
               stage' = "unlink" => records = disk[Len(disk)].records
        PROVE  disk' \in Seq(File) /\ clobbered' \subseteq Records /\ Files' /\ ActiveFile'
    <3>1. PICK f : f = [name |-> archive, records |-> records]
      OBVIOUS
    <3>2. f \in File => Grows(disk', f)
      BY <2>2, <3>1, ModifiedGrows DEF TypeOK, Files
    <3>3. PICK a : a = archive
      OBVIOUS
    <3>4. /\ f = [name |-> a, records |-> records] /\ a = [active.path EXCEPT !.gz = TRUE]
          /\ clobbered' = IF Exists(a) /\ disk' # disk
                          THEN clobbered \cup ToSet(FileAt(a).records) ELSE clobbered
      BY <1>1, <3>1, <3>3
    <3>5. UNCHANGED <<written, stuck, active>>
      BY <1>1 DEF retentionVars
    <3> HIDE DEF archive
    <3> QED
      BY <1>1, <2>2, <3>2, <3>4, <3>5, ArchiveFacts
  <2> QED
    BY <1>3, <2>1, <2>2
<1>6. TypeOK'
  BY <1>1, <1>4, <1>5 DEF TypeOK, Stage, retentionVars
<1>7. Retention' /\ Acknowledged' /\ Payloads'
  BY <1>1, <1>4, NoCandidates, AcknowledgedFrame, PayloadsFrame
<1>8. Holding' /\ Sizes'
  BY <1>1, <1>4 DEF Holding, Sizes
<1> QED
  BY <1>5, <1>6, <1>7, <1>8

-----------------------------------------------------------------------------
(* A new file, and the append.                                             *)

LEMMA DeadlineType ==
  ASSUME TypeOK
  PROVE  NextDeadline \in Nat
<1>1. second \in Nat /\ Interval \in Nat
  BY DEF TypeOK
<1>2. CASE Interval > 0
  <2>1. second % Interval \in 0 .. Interval - 1
    BY <1>1, <1>2
  <2> QED
    BY <1>1, <1>2, <2>1 DEF NextDeadline
<1> QED
  BY <1>1, <1>2 DEF NextDeadline

LEMMA NewFileFacts ==
  ASSUME TypeOK, Files, OpenNewFile, UNCHANGED <<written, clobbered, stuck>>,
         stage' \notin {"zip", "unlink"}
  PROVE  /\ disk' \in Seq(File) /\ ToSet(disk) \subseteq ToSet(disk')
         /\ active' \in [open : BOOLEAN, path : Name \cup {NoFile}, size : Nat, deadline : Nat]
         /\ active'.open /\ active'.size = 0 /\ Bytes(disk'[Len(disk')].records) = 0
         /\ failures' = failures
         /\ Files' /\ ActiveFile'
<1>1. disk \in Seq(File) /\ NamesDiffer(disk) /\ second \in 0 .. MaxSecond
  BY DEF TypeOK, Files
<1>2. NewName \in Name /\ ~NewName.gz /\ ~Exists(NewName)
  BY <1>1, NewNameIsNew
<1>3. PICK f : f = [name |-> NewName, records |-> <<>>]
  OBVIOUS
<1>4. f \in File /\ f.name = NewName /\ f.records = <<>>
  BY <1>2, <1>3 DEF File
<1>5. disk' = Append(disk, f) /\ failures' = failures
  BY <1>3 DEF OpenNewFile
<1>6. Grows(disk', f)
  BY <1>1, <1>2, <1>4, <1>5, AddedGrows
<1>7. /\ disk' \in Seq(File) /\ disk'[Len(disk')] = f /\ Len(disk') > 0
      /\ ToSet(disk') = ToSet(disk) \cup {f}
      /\ \A q \in DOMAIN disk' : q # Len(disk') => disk'[q].name # NewName
  BY <1>1, <1>4, <1>5, <1>6, AppendFacts DEF Grows
<1>8. active' = [open |-> TRUE, path |-> NewName, size |-> 0, deadline |-> NextDeadline]
  BY DEF OpenNewFile
<1>9. /\ active' \in [open : BOOLEAN, path : Name \cup {NoFile}, size : Nat, deadline : Nat]
      /\ active'.open /\ active'.path = NewName /\ active'.size = 0
  BY <1>2, <1>8, DeadlineType
<1>10. ToSet(<<>>) = {}
  BY DEF ToSet
<1>11. \A w, g : Before(w, g, f)
  BY <1>4, <1>10 DEF Before
<1>12. Files'
  <2>1. NamesDiffer(disk') /\ Sorted(written', disk')
    BY <1>1, <1>6, <1>11, GrowNames, GrowSorted DEF Files
  <2>2. Held(disk') = Held(disk)
    <3>1. \A x : x \in Held(disk') <=> x \in Held(disk)
      BY <1>4, <1>7, <1>10, HeldBy
    <3> QED
      BY <3>1
  <2>3. OnDisk' = OnDisk
    BY <2>2 DEF OnDisk, Held
  <2>4. KeepsTheNewest'
    BY <2>3, NewestKept DEF Files
  <2>5. SizeBound'
    <3>1. Bytes(f.records) <= MaxBytes
      BY <1>4, BytesOfNothing, MaxBytes \in Nat
    <3> QED
      BY <1>7, <3>1 DEF Files, SizeBound
  <2>6. OnDisk' \subseteq ToSet(written')
    BY <2>3 DEF Files
  <2> QED
    BY <2>1, <2>4, <2>5, <2>6 DEF Files
<1>13. ActiveFile'
  <2>1. \A p, q \in DOMAIN disk' : p < q => disk'[p].name # active'.path
    BY <1>7, <1>9
  <2>2. \A p \in 1 .. Len(disk') - 1 : Before(written', disk'[p], disk'[Len(disk')])
    BY <1>7, <1>11
  <2> QED
    BY <1>2, <1>4, <1>7, <1>9, <2>1, <2>2 DEF ActiveFile
<1> QED
  BY <1>4, <1>5, <1>7, <1>9, <1>12, <1>13, BytesOfNothing

LEMMA OpenFailsFacts ==
  ASSUME TypeOK, OpenFails, directory' \in BOOLEAN
  PROVE  /\ failures' \in {failures, failures + 1} /\ failures' \in 0 .. MaxFailures
         /\ disk' = disk /\ active'.open = active.open /\ active'.path = active.path
         /\ active'.size = active.size
         /\ active' \in [open : BOOLEAN, path : Name \cup {NoFile}, size : Nat, deadline : Nat]
<1>1. active' = [active EXCEPT !.deadline = NextDeadline] /\ disk' = disk
  BY DEF OpenFails
<1>2. failures' \in {failures, failures + 1} /\ failures' \in 0 .. MaxFailures
  BY DEF OpenFails, TypeOK
<1>3. active \in [open : BOOLEAN, path : Name \cup {NoFile}, size : Nat, deadline : Nat]
  BY DEF TypeOK
<1> QED
  BY <1>1, <1>2, <1>3, DeadlineType

LEMMA StartSinkKeeps ==
  ASSUME RotatingInv, NEW w \in Writers, StartSink(w)
  PROVE  RotatingInv'
<1> USE DEF RotatingInv
<1>1. /\ calls[w] = "start" /\ lock = NoOne /\ stage = "none" /\ started' = TRUE
      /\ Serialize(w, payload[w], FALSE)
      /\ UNCHANGED <<retentionVars, zips, mode, second, lock, stage, reason, written, clobbered,
                     crashes>>
  BY DEF StartSink, TypeOK
<1>2. \/ directory' = TRUE /\ OpenNewFile
      \/ directory' = TRUE /\ OpenFails
      \/ /\ failures' = failures + 1 /\ failures' \in 0 .. MaxFailures
         /\ UNCHANGED <<directory, disk, active>>
  BY DEF StartSink, TypeOK
<1>3. candidates' = {} /\ spared' = {} /\ UNCHANGED stuck
  BY <1>1 DEF Holding, retentionVars
<1>4. /\ calls' \in [Writers -> CallState] /\ payload' \in [Writers -> Records \cup {NoRecord}]
      /\ returned' \subseteq Records /\ Payloads' /\ Acknowledged'
  <2>1. payload[w] \in Records /\ payload[w] # NoRecord
    BY <1>1 DEF Payloads
  <2>2. /\ payload[w] \notin ToSet(written) \cup returned
        /\ \A x \in Writers : payload[x] = payload[w] => x = w
    BY <2>1 DEF Payloads
  <2>3. failures' = failures \/ failures' = failures + 1
    BY <1>2 DEF OpenNewFile, OpenFails
  <2>4. PICK r \in Records : r = payload[w]
    BY <2>1
  <2>5. /\ r \notin ToSet(written) \cup returned
        /\ \A x \in Writers : payload[x] = r => x = w
        /\ Serialize(w, r, FALSE) /\ UNCHANGED <<mode, written>>
    BY <1>1, <2>2, <2>4
  <2> QED
    BY <2>3, <2>5, SerializeFacts
<1>5. /\ disk' \in Seq(File) /\ directory' \in BOOLEAN /\ failures' \in 0 .. MaxFailures
      /\ failures' \in {failures, failures + 1}
      /\ active' \in [open : BOOLEAN, path : Name \cup {NoFile}, size : Nat, deadline : Nat]
      /\ Files' /\ ActiveFile'
      /\ active'.open => Bytes(disk'[Len(disk')].records) <= active'.size
  <2>1. CASE directory' = TRUE /\ OpenNewFile
    BY <1>1, <1>3, <2>1, NewFileFacts DEF TypeOK
  <2>2. CASE directory' = TRUE /\ OpenFails
    <3>1. Files' /\ ActiveFile'
      BY <1>1, <1>3, <2>2, OpenFailsFacts, FilesFrame, ActiveFrame
    <3> QED
      BY <2>2, <3>1, OpenFailsFacts DEF TypeOK, Sizes
  <2>3. CASE /\ failures' = failures + 1 /\ failures' \in 0 .. MaxFailures
             /\ UNCHANGED <<directory, disk, active>>
    <3>1. Files' /\ ActiveFile'
      BY <1>1, <1>3, <2>3, FilesFrame, ActiveFrame
    <3> QED
      BY <2>3, <3>1 DEF TypeOK, Sizes
  <2> QED
    BY <1>2, <2>1, <2>2, <2>3
<1>6. TypeOK'
  BY <1>1, <1>3, <1>4, <1>5 DEF TypeOK
<1>7. Retention'
  BY <1>3, NoCandidates
<1>8. Holding'
  BY <1>1, <1>3 DEF Holding
<1>9. Sizes'
  BY <1>1, <1>5 DEF Sizes
<1> QED
  BY <1>4, <1>5, <1>6, <1>7, <1>8, <1>9

LEMMA OpenKeeps ==
  ASSUME RotatingInv, Open
  PROVE  RotatingInv'
<1> USE DEF RotatingInv
<1>1. /\ stage \in {"open", "reopen"}
      /\ UNCHANGED <<retentionVars, zips, mode, second, directory, started, written, clobbered,
                     crashes>>
  BY DEF Open
<1>2. \/ /\ OpenNewFile /\ stage' \in {"check", "close", "append"} /\ reason' \in {"time", "size"}
         /\ UNCHANGED <<lock, calls, payload, returned>>
      \/ OpenFails /\ Leave /\ returned' = returned
  BY DEF Open, RaisesErrors, TypeOK
<1>3. lock \in Writers /\ calls[lock] = "write" /\ payload[lock] \in Records /\ ~active.open
  BY <1>1, Holder DEF Holding
<1>4. candidates' = {} /\ spared' = {} /\ UNCHANGED stuck
  BY <1>1 DEF Holding, retentionVars
<1>5. CASE /\ OpenNewFile /\ stage' \in {"check", "close", "append"} /\ reason' \in {"time", "size"}
           /\ UNCHANGED <<lock, calls, payload, returned>>
  <2>1. /\ disk' \in Seq(File) /\ failures' = failures
        /\ active' \in [open : BOOLEAN, path : Name \cup {NoFile}, size : Nat, deadline : Nat]
        /\ active'.open /\ active'.size = 0 /\ Bytes(disk'[Len(disk')].records) = 0
        /\ Files' /\ ActiveFile'
    BY <1>1, <1>4, <1>5, NewFileFacts
  <2>2. TypeOK'
    BY <1>1, <1>3, <1>4, <1>5, <2>1 DEF TypeOK, Stage
  <2>3. Retention' /\ Acknowledged' /\ Payloads'
    BY <1>1, <1>4, <1>5, <2>1, NoCandidates, AcknowledgedFrame, PayloadsFrame
  <2>4. Holding'
    BY <1>3, <1>4, <1>5, <2>1 DEF Holding
  <2>5. Sizes'
    BY <2>1 DEF Sizes
  <2> QED
    BY <2>1, <2>2, <2>3, <2>4, <2>5
<1>6. CASE OpenFails /\ Leave /\ returned' = returned
  <2>1. /\ failures' \in {failures, failures + 1} /\ failures' \in 0 .. MaxFailures
        /\ disk' = disk /\ active'.open = active.open /\ active'.path = active.path
        /\ active' \in [open : BOOLEAN, path : Name \cup {NoFile}, size : Nat, deadline : Nat]
    BY <1>1, <1>6, OpenFailsFacts DEF TypeOK
  <2>2. /\ lock' = NoOne /\ stage' = "none" /\ reason' = "size"
        /\ calls' = [calls EXCEPT ![lock] = "idle"]
        /\ payload' = [payload EXCEPT ![lock] = NoRecord]
    BY <1>6 DEF Leave
  <2>3. TypeOK'
    BY <1>1, <1>4, <1>6, <2>1, <2>2 DEF TypeOK, Stage, CallState
  <2>4. Files' /\ ActiveFile' /\ Retention' /\ Acknowledged' /\ Payloads'
    BY <1>1, <1>3, <1>4, <1>6, <2>1, <2>2, FilesFrame, ActiveFrame, NoCandidates,
       AcknowledgedFrame, LeavePayloads
  <2>5. Holding' /\ Sizes'
    BY <1>3, <1>4, <2>1, <2>2 DEF Holding, Sizes
  <2> QED
    BY <2>3, <2>4, <2>5
<1> QED
  BY <1>2, <1>5, <1>6

\* The record at the end of the active file, and so of everything.
LEMMA AppendedFacts ==
  ASSUME TypeOK, Files, ActiveFile, active.open, NEW r \in Records, r \notin ToSet(written),
         NEW l, l = Len(disk), NEW f, f = [disk[l] EXCEPT !.records = Append(@, r)],
         f \in File => Grows(disk', f),
         written' = Append(written, r), UNCHANGED <<clobbered, stuck>>,
         active'.open, active'.path = active.path, stage' = "none",
         Bytes(disk[l].records) + SizeOf(r) <= MaxBytes \/ Bytes(disk[l].records) = 0
  PROVE  /\ disk' \in Seq(File) /\ written' \in Seq(Records)
         /\ Bytes(disk'[Len(disk')].records) = Bytes(disk[l].records) + SizeOf(r)
         /\ Files' /\ ActiveFile'
<1>1. /\ l \in DOMAIN disk /\ DOMAIN disk = 1 .. l /\ l \in Nat
      /\ disk[l].name = active.path
      /\ \A p \in 1 .. l - 1 : Before(written, disk[p], disk[l])
      /\ disk \in Seq(File) /\ NamesDiffer(disk)
  BY DEF ActiveFile, TypeOK, Files
<1>2. /\ disk[l] \in File /\ disk[l].name \in Name /\ disk[l].records \in Seq(Records)
      /\ active.path # NoFile
  BY <1>1, DiskNames
<1>3. /\ f \in File /\ f.name = active.path /\ f.records = Append(disk[l].records, r)
      /\ f.records \in Seq(Records)
      /\ ToSet(f.records) = ToSet(disk[l].records) \cup {r}
  <2>1. f = [name |-> disk[l].name, records |-> Append(disk[l].records, r)]
    BY <1>2 DEF File
  <2>2. /\ Append(disk[l].records, r) \in Seq(Records)
        /\ ToSet(Append(disk[l].records, r)) = ToSet(disk[l].records) \cup {r}
    BY <1>2, AppendFacts
  <2> QED
    BY <1>1, <1>2, <2>1, <2>2 DEF File
<1>4. Grows(disk', f)
  BY <1>3
<1>5. /\ disk' \in Seq(File) /\ Len(disk') > 0 /\ disk'[Len(disk')] = f
      /\ DOMAIN disk' = 1 .. Len(disk') /\ Len(disk') \in Nat
      /\ ToSet(disk') = {g \in ToSet(disk) : g.name # active.path} \cup {f}
      /\ \A q \in DOMAIN disk' :
           q # Len(disk') => disk'[q] \in ToSet(disk) /\ disk'[q].name # active.path
  BY <1>3, <1>4 DEF Grows
<1>6. /\ written' \in Seq(Records) /\ DOMAIN written' = 1 .. Len(written) + 1
      /\ \A i \in 1 .. Len(written) : written'[i] = written[i]
      /\ written'[Len(written) + 1] = r /\ ToSet(written') = ToSet(written) \cup {r}
      /\ Len(written) \in Nat /\ DOMAIN written = 1 .. Len(written)
  <2>1. written \in Seq(Records)
    BY DEF TypeOK
  <2>2. Len(written) \in Nat /\ DOMAIN written = 1 .. Len(written)
    BY <2>1
  <2>3. /\ Append(written, r) \in Seq(Records) /\ DOMAIN Append(written, r) = 1 .. Len(written) + 1
        /\ \A i \in 1 .. Len(written) : Append(written, r)[i] = written[i]
        /\ Append(written, r)[Len(written) + 1] = r
        /\ ToSet(Append(written, r)) = ToSet(written) \cup {r}
    BY <2>1, AppendFacts
  <2> QED
    BY <2>2, <2>3
<1>7. \A g \in ToSet(disk) : r \notin ToSet(g.records)
  <2>1. Held(disk) \subseteq ToSet(written)
    BY DEF Files, OnDisk, Held
  <2> QED
    BY <2>1, HeldBy
<1>8. ASSUME NEW g \in ToSet(disk), NEW h \in ToSet(disk), Before(written, g, h)
      PROVE  Before(written', g, h)
  BY <1>6, <1>7, <1>8 DEF Before
<1>9. ASSUME NEW g \in ToSet(disk), g.name # active.path
      PROVE  Before(written', g, f)
  <2>1. PICK p \in DOMAIN disk : g = disk[p]
    BY DEF ToSet
  <2>2. p \in 1 .. l - 1
    BY <1>1, <1>9, <2>1
  <2>3. Before(written, g, disk[l])
    BY <1>1, <2>1, <2>2
  <2> SUFFICES ASSUME NEW i \in DOMAIN written', NEW j \in DOMAIN written',
                      written'[i] \in ToSet(g.records), written'[j] \in ToSet(f.records)
               PROVE  i < j
    BY DEF Before
  <2>4. i \in DOMAIN written /\ written'[i] = written[i]
    <3>1. i # Len(written) + 1
      BY <1>6, <1>7
    <3> QED
      BY <1>6, <3>1
  <2>5. CASE j = Len(written) + 1
    BY <1>6, <2>4, <2>5
  <2>6. CASE j # Len(written) + 1
    <3>1. j \in DOMAIN written /\ written'[j] = written[j]
      BY <1>6, <2>6
    <3>2. written[j] \in ToSet(written)
      BY <3>1 DEF ToSet
    <3>3. written[j] \in ToSet(disk[l].records)
      BY <1>3, <3>1, <3>2
    <3> QED
      BY <2>3, <2>4, <3>1, <3>3 DEF Before
  <2> QED
    BY <2>5, <2>6
<1>10. NamesDiffer(disk')
  BY <1>1, <1>4, GrowNames
<1>11. Sorted(written', disk')
  <2>1. Sorted(written', disk)
    <3>1. \A p \in DOMAIN disk : disk[p] \in ToSet(disk)
      BY DEF ToSet
    <3>2. Sorted(written, disk)
      BY DEF Files
    <3> QED
      BY <1>8, <3>1, <3>2 DEF Sorted
  <2>2. \A g \in ToSet(disk) : g.name # f.name => Before(written', g, f)
    BY <1>3, <1>9
  <2> QED
    BY <1>4, <2>1, <2>2, GrowSorted
<1>12. Held(disk') = Held(disk) \cup {r}
  <2>1. \A x : x \in Held(disk') <=> x \in Held(disk) \/ x = r
    <3>1. \A g \in ToSet(disk) : g.name = active.path => g = disk[l]
      BY <1>1 DEF ToSet, NamesDiffer
    <3>2. disk[l] \in ToSet(disk) /\ f \in ToSet(disk')
      BY <1>1, <1>5 DEF ToSet
    <3>3. ASSUME NEW x, x \in Held(disk') PROVE x \in Held(disk) \/ x = r
      BY <1>3, <1>5, <3>2, <3>3, HeldBy
    <3>4. ASSUME NEW x, x \in Held(disk) \/ x = r PROVE x \in Held(disk')
      BY <1>3, <1>5, <3>1, <3>2, <3>4, HeldBy
    <3> QED
      BY <3>3, <3>4
  <2> QED
    BY <2>1
<1>13. OnDisk = Held(disk) /\ OnDisk' = Held(disk')
  BY DEF OnDisk, Held
<1>14. KeepsTheNewest'
  <2> SUFFICES ASSUME NEW i \in DOMAIN written', NEW j \in DOMAIN written', i < j,
                      written'[i] \in OnDisk' \ stuck
               PROVE  written'[j] \in OnDisk' \cup clobbered
    BY DEF KeepsTheNewest
  <2>1. CASE j = Len(written) + 1
    BY <1>6, <1>12, <1>13, <2>1
  <2>2. CASE j # Len(written) + 1
    <3>1. /\ i \in DOMAIN written /\ j \in DOMAIN written
          /\ written'[i] = written[i] /\ written'[j] = written[j]
      BY <1>6, <2>2
    <3>2. written[i] \in OnDisk \ stuck
      <4>1. written[i] \in ToSet(written)
        BY <3>1 DEF ToSet
      <4> QED
        BY <1>12, <1>13, <3>1, <4>1
    <3>3. written[j] \in OnDisk \cup clobbered
      BY <3>1, <3>2 DEF Files, KeepsTheNewest
    <3> QED
      BY <1>12, <1>13, <3>1, <3>3
  <2> QED
    BY <2>1, <2>2
<1>15. Bytes(f.records) = Bytes(disk[l].records) + SizeOf(r)
  BY <1>2, <1>3, BytesOf
<1>16. SizeBound'
  <2>1. Bytes(f.records) <= MaxBytes \/ Len(f.records) = 1
    <3>1. CASE Bytes(disk[l].records) = 0
      <4>1. Len(disk[l].records) = 0
        BY <1>2, <3>1, BytesOf
      <4> QED
        BY <1>2, <1>3, <4>1, AppendFacts
    <3> QED
      BY <1>15, <3>1
  <2> QED
    BY <1>5, <2>1 DEF Files, SizeBound
<1>17. Files'
  <2>1. OnDisk' \subseteq ToSet(written')
    BY <1>6, <1>12, <1>13 DEF Files
  <2> QED
    BY <1>10, <1>11, <1>14, <1>16, <2>1 DEF Files
<1>18. ActiveFile'
  <2>1. \A p \in DOMAIN disk' : p # Len(disk') => Before(written', disk'[p], f)
    BY <1>5, <1>9
  <2>2. \A p, q \in DOMAIN disk' : p < q => disk'[p].name # active'.path
    BY <1>5
  <2>3. active'.path # NoFile => ~active'.path.gz
    BY DEF ActiveFile
  <2>4. disk'[Len(disk')].name = active'.path
    BY <1>3, <1>5
  <2>5. \A p \in 1 .. Len(disk') - 1 : Before(written', disk'[p], disk'[Len(disk')])
    <3>1. \A p \in 1 .. Len(disk') - 1 : p \in DOMAIN disk' /\ p # Len(disk')
      BY <1>5
    <3>2. disk'[Len(disk')] = f
      BY <1>5
    <3> QED
      BY <2>1, <3>1, <3>2, Zenon
  <2>6. stage' # "zip" /\ stage' # "unlink" /\ Len(disk') > 0
    BY <1>5
  <2>7. active'.path # NoFile => ~active'.path.gz
    BY <2>3
  <2>8. \A p, q \in DOMAIN disk' :
          p < q /\ disk'[p].name = active'.path =>
            disk'[q].records = <<>> \/ disk'[q].records = disk'[p].records
    BY <2>2
  <2>9. /\ Len(disk') > 0 /\ disk'[Len(disk')].name = active'.path
        /\ \A p \in 1 .. Len(disk') - 1 :
             active'.open => Before(written', disk'[p], disk'[Len(disk')])
    BY <2>4, <2>5, <2>6
  <2> QED
    BY <2>6, <2>7, <2>8, <2>9, Zenon DEF ActiveFile
<1> QED
  BY <1>5, <1>6, <1>15, <1>17, <1>18

\* In both of its ends: the record in the file, or the error in nobody's ear.
LEMMA AppendRecordKeeps ==
  ASSUME RotatingInv, AppendRecord
  PROVE  RotatingInv'
<1> USE DEF RotatingInv
<1> DEFINE r == payload[lock]
           l == Len(disk)
<1>1. /\ stage = "append" /\ Leave
      /\ active' = [active EXCEPT !.size = @ + SizeOf(r)] /\ returned' = returned \cup {r}
      /\ UNCHANGED <<retentionVars, zips, mode, second, directory, started, clobbered, crashes>>
  BY DEF AppendRecord
<1>2. lock \in Writers /\ calls[lock] = "write" /\ r \in Records /\ active.open
  BY <1>1, Holder DEF Holding
<1>3. /\ l \in DOMAIN disk /\ disk[l].name = active.path /\ NamesDiffer(disk)
      /\ disk[l].records \in Seq(Records) /\ FileAt(active.path) = disk[l]
  <2>1. l \in DOMAIN disk /\ disk[l].name = active.path /\ NamesDiffer(disk)
    <3>1. disk \in Seq(File) /\ NamesDiffer(disk)
      BY DEF TypeOK, Files
    <3>2. l > 0 /\ disk[l].name = active.path
      BY <1>2 DEF ActiveFile
    <3> QED
      BY <3>1, <3>2
  <2> QED
    BY <2>1, PositionFacts, DiskNames
<1>4. \/ /\ disk' = Modified([disk[l] EXCEPT !.records = Append(@, r)])
         /\ written' = Append(written, r) /\ failures' = failures
      \/ failures' = failures + 1 /\ failures' \in 0 .. MaxFailures /\ UNCHANGED <<disk, written>>
  <2>1. failures' = failures + 1 /\ failures < MaxFailures => failures' \in 0 .. MaxFailures
    BY DEF TypeOK
  <2>2. \/ /\ disk' = Modified([FileAt(active.path) EXCEPT !.records = Append(@, r)])
           /\ written' = Append(written, r) /\ failures' = failures
        \/ failures < MaxFailures /\ failures' = failures + 1 /\ UNCHANGED <<disk, written>>
    BY Zenon DEF AppendRecord
  <2> QED
    BY <1>3, <2>1, <2>2, Zenon
<1>5. /\ active'.open /\ active'.path = active.path /\ active'.size = active.size + SizeOf(r)
      /\ active' \in [open : BOOLEAN, path : Name \cup {NoFile}, size : Nat, deadline : Nat]
  <2>1. active \in [open : BOOLEAN, path : Name \cup {NoFile}, size : Nat, deadline : Nat]
    BY DEF TypeOK
  <2>2. SizeOf(r) \in Nat
    BY SizeOfType
  <2> HIDE DEF r, l
  <2> QED
    BY <1>1, <1>2, <2>1, <2>2
<1>6. /\ lock' = NoOne /\ stage' = "none" /\ reason' = "size"
      /\ calls' = [calls EXCEPT ![lock] = "idle"]
      /\ payload' = [payload EXCEPT ![lock] = NoRecord]
  BY <1>1 DEF Leave
<1>7. candidates' = {} /\ spared' = {} /\ UNCHANGED stuck
  BY <1>1 DEF Holding, retentionVars
<1>8. /\ Bytes(disk[l].records) \in Nat /\ Bytes(disk[l].records) <= active.size
      /\ active.size + SizeOf(r) <= MaxBytes \/ active.size = 0
      /\ active.size \in Nat /\ SizeOf(r) \in Nat /\ MaxBytes \in Nat
  BY <1>1, <1>2, <1>3, BytesOf, SizeOfType DEF Sizes, TypeOK
<1>9. /\ disk' \in Seq(File) /\ written' \in Seq(Records)
      /\ Bytes(disk'[Len(disk')].records) <= active'.size
      /\ Files' /\ ActiveFile' /\ Acknowledged' /\ failures' \in 0 .. MaxFailures
  <2>1. CASE /\ disk' = Modified([disk[l] EXCEPT !.records = Append(@, r)])
             /\ written' = Append(written, r) /\ failures' = failures
    <3>1. PICK f : f = [disk[l] EXCEPT !.records = Append(@, r)]
      OBVIOUS
    <3>2. f \in File => Grows(disk', f)
      BY <2>1, <3>1, ModifiedGrows DEF TypeOK, Files
    <3>3. Bytes(disk[l].records) + SizeOf(r) <= MaxBytes \/ Bytes(disk[l].records) = 0
      BY <1>8
    <3>4. r \notin ToSet(written)
      BY <1>2 DEF Payloads
    <3>5. PICK x : x = r
      OBVIOUS
    <3>6. PICK m : m = l
      OBVIOUS
    <3>7. /\ x \in Records /\ x \notin ToSet(written) /\ m = Len(disk)
          /\ f = [disk[m] EXCEPT !.records = Append(@, x)]
          /\ written' = Append(written, x)
          /\ Bytes(disk[m].records) + SizeOf(x) <= MaxBytes \/ Bytes(disk[m].records) = 0
      BY <1>2, <2>1, <3>1, <3>3, <3>4, <3>5, <3>6
    <3>8. /\ disk' \in Seq(File) /\ written' \in Seq(Records)
          /\ Bytes(disk'[Len(disk')].records) = Bytes(disk[m].records) + SizeOf(x)
          /\ Files' /\ ActiveFile'
      <4> HIDE DEF r, l
      <4> QED
        BY <1>1, <1>2, <1>5, <1>6, <1>7, <3>2, <3>7, AppendedFacts
    <3>9. Acknowledged'
      <4>1. ToSet(Append(written, r)) = ToSet(written) \cup {r}
        BY <1>2, AppendFacts DEF TypeOK
      <4>2. ToSet(written') = ToSet(written) \cup {r}
        BY <2>1, <4>1
      <4> QED
        BY <1>1, <2>1, <4>2 DEF Acknowledged
    <3>10. Bytes(disk'[Len(disk')].records) = Bytes(disk[l].records) + SizeOf(r)
      BY <3>5, <3>6, <3>8
    <3>11. Bytes(disk'[Len(disk')].records) <= active'.size
      <4> HIDE DEF r, l
      <4> QED
        BY <1>5, <1>8, <3>10
    <3> QED
      BY <2>1, <3>8, <3>9, <3>11 DEF TypeOK
  <2>2. CASE failures' = failures + 1 /\ failures' \in 0 .. MaxFailures /\ UNCHANGED <<disk,
                                                                                       written>>
    <3>1. Files' /\ ActiveFile'
      BY <1>1, <1>2, <1>5, <1>6, <1>7, <2>2, FilesFrame, ActiveFrame
    <3>2. Acknowledged'
      BY <2>2 DEF Acknowledged, TypeOK
    <3>3. Bytes(disk'[Len(disk')].records) <= active'.size
      <4>1. disk'[Len(disk')] = disk[l]
        BY <2>2
      <4> HIDE DEF r, l
      <4> QED
        BY <1>5, <1>8, <4>1
    <3> QED
      BY <2>2, <3>1, <3>2, <3>3 DEF TypeOK
  <2> QED
    BY <1>4, <2>1, <2>2
<1>10. TypeOK'
  <2>1. returned' \subseteq Records
    BY <1>1, <1>2 DEF TypeOK
  <2> QED
    BY <1>1, <1>2, <1>5, <1>6, <1>7, <1>9, <2>1 DEF TypeOK, Stage, CallState, retentionVars
<1>11. Payloads'
  <2>1. /\ written' = written \/ written' = Append(written, payload[lock])
        /\ returned' = returned \/ returned' = returned \cup {payload[lock]}
    BY <1>1, <1>4
  <2> QED
    BY <1>1, <1>2, <2>1, LeavePayloads
<1>12. Retention'
  BY <1>7, NoCandidates
<1>13. Holding' /\ Sizes'
  BY <1>5, <1>6, <1>7, <1>9 DEF Holding, Sizes
<1> QED
  BY <1>9, <1>10, <1>11, <1>12, <1>13

-----------------------------------------------------------------------------
(* Inductive.                                                              *)

LEMMA InitHolds ==
  ASSUME Init
  PROVE  RotatingInv
<1>1. /\ zips \in BOOLEAN /\ mode \in Mode /\ second = 0 /\ directory = FALSE
      /\ disk = <<>> /\ started = FALSE
      /\ calls = [w \in Writers |-> "idle"] /\ payload = [w \in Writers |-> NoRecord]
      /\ lock = NoOne /\ stage = "none" /\ reason = "size" /\ active = Closed
      /\ candidates = {} /\ spared = {} /\ written = <<>> /\ returned = {}
      /\ clobbered = {} /\ stuck = {} /\ failures = 0 /\ crashes = 0
  BY SettingsAssumption DEF Init
<1>2. DOMAIN <<>> = {} /\ ToSet(<<>>) = {}
  BY DEF ToSet
<1>3. Closed \in [open : BOOLEAN, path : Name \cup {NoFile}, size : Nat, deadline : Nat]
  BY DEF Closed
<1>4. /\ <<>> \in Seq(File) /\ <<>> \in Seq(Records)
      /\ 0 \in 0 .. MaxSecond /\ 0 \in 0 .. MaxFailures /\ 0 \in 0 .. MaxCrashes
  OBVIOUS
<1>5. TypeOK
  BY <1>1, <1>2, <1>3, <1>4 DEF TypeOK, CallState, Stage
<1>6. Files
  <2>1. OnDisk = {}
    BY <1>1, <1>2 DEF OnDisk
  <2> QED
    BY <1>1, <1>2, <2>1 DEF Files, NamesDiffer, Sorted, KeepsTheNewest, SizeBound
<1>7. Payloads
  BY <1>1, <1>2 DEF Payloads
<1>8. Holding /\ Sizes
  BY <1>1 DEF Holding, Sizes, Closed
<1>9. ActiveFile
  BY <1>1, <1>2 DEF ActiveFile, Closed
<1>10. Retention /\ Acknowledged
  BY <1>1, <1>2 DEF Retention, Acknowledged
<1> QED
  BY <1>5, <1>6, <1>7, <1>8, <1>9, <1>10 DEF RotatingInv

LEMMA StutterKeeps ==
  ASSUME RotatingInv, UNCHANGED fileVars
  PROVE  RotatingInv'
<1>1. UNCHANGED <<zips, mode, second, directory, disk, started, calls, payload, lock, stage, reason,
                  active, candidates, spared, written, returned, clobbered, stuck, failures,
                  crashes>>
  BY DEF fileVars
<1>2. TypeOK'
  BY <1>1 DEF RotatingInv, TypeOK
<1>3. Files' /\ Retention' /\ Payloads' /\ Acknowledged'
  BY <1>1, FilesFrame, RetentionFrame, PayloadsFrame, AcknowledgedFrame DEF RotatingInv
<1>4. Holding' /\ Sizes'
  BY <1>1 DEF RotatingInv, Holding, Sizes
<1>5. ActiveFile'
  BY <1>1 DEF RotatingInv, ActiveFile
<1> QED
  BY <1>2, <1>3, <1>4, <1>5 DEF RotatingInv

LEMMA NextKeeps ==
  ASSUME RotatingInv, [Next]_fileVars
  PROVE  RotatingInv'
<1>1. ASSUME NEW w \in Writers, NEW r \in Records, NEW serialized \in BOOLEAN,
             Call(w, r, serialized)
      PROVE  RotatingInv'
  BY <1>1, CallKeeps
<1>2. ASSUME NEW w \in Writers, StartSink(w) \/ Enter(w)
      PROVE  RotatingInv'
  BY <1>2, StartSinkKeeps, EnterKeeps
<1>3. CASE HolderStep
  <2>1. CASE Open \/ Check \/ Close \/ Compress \/ Unlink \/ AppendRecord
    BY <2>1, OpenKeeps, CheckKeeps, CloseKeeps, CompressKeeps, UnlinkKeeps, AppendRecordKeeps
  <2>2. CASE List \/ Retain \/ Spare \/ Weigh \/ RetentionEnds
    BY <2>2, ListKeeps, RetainKeeps, SpareKeeps, WeighKeeps, RetentionEndsKeeps
  <2> QED
    BY <1>3, <2>1, <2>2 DEF HolderStep
<1>4. CASE Stop \/ Tick \/ Crash
  BY <1>4, StopKeeps, TickKeeps, CrashKeeps
<1>5. CASE UNCHANGED fileVars
  BY <1>5, StutterKeeps
<1> QED
  BY <1>1, <1>2, <1>3, <1>4, <1>5 DEF Next

LEMMA Invariant == Spec => []RotatingInv
<1>1. Init => RotatingInv
  BY InitHolds
<1>2. RotatingInv /\ [Next]_fileVars => RotatingInv'
  BY NextKeeps
<1> QED
  BY <1>1, <1>2, PTL DEF Spec

-----------------------------------------------------------------------------
(***************************************************************************)
(* The sink's fields, its directory and what its callers hold are what     *)
(* RotatingFileSink and make_sink_writer take them for; in particular, the *)
(* lock is held exactly while an operation is under way.                   *)
(***************************************************************************)
THEOREM RotatingTypeCorrect == Spec => []TypeOK
<1>1. RotatingInv => TypeOK
  BY DEF RotatingInv
<1> QED
  BY <1>1, Invariant, PTL

(***************************************************************************)
(* _rotate_active_file, _compress_file and _enforce_retention, cut short   *)
(* by an error or a crash anywhere and started anew by another process,    *)
(* lose the oldest records only: if one is on disk, those written after it *)
(* are too, but for what could not be removed and for archives that were   *)
(* written over.                                                           *)
(***************************************************************************)
THEOREM NewestRecordsStay == Spec => []KeepsTheNewest
<1>1. RotatingInv => KeepsTheNewest
  BY DEF RotatingInv, Files
<1> QED
  BY <1>1, Invariant, PTL

(***************************************************************************)
(* _needs_size_rotation: no file is larger than max_bytes unless a single  *)
(* record is, however often a write failed half way and the size the sink  *)
(* counts drifted from that of the file.                                   *)
(***************************************************************************)
THEOREM FilesStaySmall == Spec => []SizeBound
<1>1. RotatingInv => SizeBound
  BY DEF RotatingInv, Files
<1> QED
  BY <1>1, Invariant, PTL

(***************************************************************************)
(* As long as no file operation fails, write() and write_serialized()      *)
(* return in json mode for a record that is in a file and raise otherwise, *)
(* even when a serialized event comes before start() has made the          *)
(* directory; and with strict_envelope_mode write() drops only what cannot *)
(* be serialized.                                                          *)
(***************************************************************************)
THEOREM ReturnMeansWritten == Spec => []Acknowledged
<1>1. RotatingInv => Acknowledged
  BY DEF RotatingInv
<1> QED
  BY <1>1, Invariant, PTL
=============================================================================
