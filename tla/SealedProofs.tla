---------------------------- MODULE SealedProofs ----------------------------
(* Theorems about SealedLog, for any number of workers, events, files and  *)
(* faults, with the chain carried across files or begun anew.              *)
EXTENDS SealedLog, FiniteSetTheorems, FunctionTheorems, TLAPS

LineOrNone == Line \cup {NoLine}

WorkerState == [at : {"idle", "signed", "counted"}, line : LineOrNone]

MetaState ==
  [file : 0 .. MaxFiles, count : Nat, root : Events \cup {None}, from : Events \cup {None}]

FileState == [lines : Seq(Line), counted : Seq(Line), manifest : Manifest \cup {NoManifest}]

-----------------------------------------------------------------------------
(* Records that are updated one field at a time.                           *)

LEMMA LinesTyped ==
  /\ NoLine.event = NoEvent /\ NoLine.hash = None
  /\ \A e \in Events : /\ Unsigned(e) \in Line
                       /\ Unsigned(e).event = e /\ Unsigned(e).hash = None
<1>1. 0 \in 0 .. Cardinality(Events)
  BY SealedAssumption, FS_CardinalityType
<1> QED
  BY <1>1 DEF NoLine, Unsigned, Line

LEMMA WorkerTyped ==
  /\ Idle \in WorkerState /\ Idle.at = "idle" /\ Idle.line = NoLine
  /\ \A l \in LineOrNone : /\ [at |-> "signed", line |-> l] \in WorkerState
                           /\ [at |-> "signed", line |-> l].at = "signed"
                           /\ [at |-> "signed", line |-> l].line = l
  /\ \A s \in WorkerState : /\ [s EXCEPT !.at = "counted"] \in WorkerState
                            /\ [s EXCEPT !.at = "counted"].at = "counted"
                            /\ [s EXCEPT !.at = "counted"].line = s.line
  BY DEF Idle, WorkerState, LineOrNone

LEMMA MetaFresh ==
  ASSUME NEW n \in 0 .. MaxFiles, NEW r \in Events \cup {None}
  PROVE  /\ NewMeta(n, r) \in MetaState
         /\ NewMeta(n, r).file = n /\ NewMeta(n, r).count = 0 /\ NewMeta(n, r).root = None
  BY DEF NewMeta, MetaState

LEMMA MetaMade ==
  ASSUME NEW n \in 0 .. MaxFiles, NEW c \in Nat, NEW r \in Events \cup {None},
         NEW p \in Events \cup {None}
  PROVE  [file |-> n, count |-> c, root |-> r, from |-> p] \in MetaState
  BY DEF MetaState

LEMMA FileParts ==
  ASSUME NEW f \in FileState
  PROVE  /\ f = [lines |-> f.lines, counted |-> f.counted, manifest |-> f.manifest]
         /\ f.lines \in Seq(Line) /\ f.counted \in Seq(Line)
         /\ f.manifest \in Manifest \cup {NoManifest}
         /\ Len(f.lines) \in Nat /\ Len(f.counted) \in Nat
  BY DEF FileState

LEMMA FileMade ==
  ASSUME NEW a \in Seq(Line), NEW b \in Seq(Line), NEW m \in Manifest \cup {NoManifest}
  PROVE  [lines |-> a, counted |-> b, manifest |-> m] \in FileState
  BY DEF FileState

LEMMA FileEmpty ==
  /\ EmptyFile \in FileState
  /\ EmptyFile.lines = <<>> /\ EmptyFile.counted = <<>> /\ EmptyFile.manifest = NoManifest
  BY DEF EmptyFile, FileState

LEMMA FileWritten ==
  ASSUME NEW f \in FileState, NEW l \in Line, NEW g, g = [f EXCEPT !.lines = Append(f.lines, l)]
  PROVE  /\ g \in FileState /\ g.lines = Append(f.lines, l)
         /\ g.counted = f.counted /\ g.manifest = f.manifest
<1> DEFINE x == Append(f.lines, l)
<1>1. x \in Seq(Line)
  BY FileParts
<1>2. g = [f EXCEPT !.lines = x]
  OBVIOUS
<1> HIDE DEF x
<1>3. g = [lines |-> x, counted |-> f.counted, manifest |-> f.manifest]
  BY <1>2 DEF FileState
<1>4. f.counted \in Seq(Line) /\ f.manifest \in Manifest \cup {NoManifest}
  BY DEF FileState
<1>5. g \in FileState
  <2>1. [lines |-> x, counted |-> f.counted, manifest |-> f.manifest] \in FileState
    BY <1>1, <1>4, FileMade
  <2> QED
    BY <1>3, <2>1, Zenon
<1>6. g.lines = x /\ g.counted = f.counted /\ g.manifest = f.manifest
  BY <1>3
<1> QED
  BY <1>5, <1>6 DEF x

LEMMA FileCounted ==
  ASSUME NEW f \in FileState, NEW l \in Line, NEW g,
         g = [f EXCEPT !.counted = Append(f.counted, l)]
  PROVE  /\ g \in FileState /\ g.counted = Append(f.counted, l)
         /\ g.lines = f.lines /\ g.manifest = f.manifest
<1> DEFINE x == Append(f.counted, l)
<1>1. x \in Seq(Line)
  BY FileParts
<1>2. g = [f EXCEPT !.counted = x]
  OBVIOUS
<1> HIDE DEF x
<1>3. g = [lines |-> f.lines, counted |-> x, manifest |-> f.manifest]
  BY <1>2 DEF FileState
<1>4. f.lines \in Seq(Line) /\ f.manifest \in Manifest \cup {NoManifest}
  BY DEF FileState
<1>5. g \in FileState
  <2>1. [lines |-> f.lines, counted |-> x, manifest |-> f.manifest] \in FileState
    BY <1>1, <1>4, FileMade
  <2> QED
    BY <1>3, <2>1, Zenon
<1>6. g.counted = x /\ g.lines = f.lines /\ g.manifest = f.manifest
  BY <1>3
<1> QED
  BY <1>5, <1>6 DEF x

LEMMA FileSealed ==
  ASSUME NEW f \in FileState, NEW m \in Manifest, NEW g, g = [f EXCEPT !.manifest = m]
  PROVE  /\ g \in FileState /\ g.manifest = m
         /\ g.lines = f.lines /\ g.counted = f.counted
<1>1. g = [lines |-> f.lines, counted |-> f.counted, manifest |-> m]
  BY FileParts
<1> QED
  BY <1>1, FileParts DEF FileState

LEMMA ItemsAppended ==
  ASSUME NEW S, NEW s \in Seq(S), NEW x \in S
  PROVE  /\ Append(s, x) \in Seq(S) /\ Len(Append(s, x)) = Len(s) + 1
         /\ ToSet(Append(s, x)) = ToSet(s) \cup {x}
         /\ ToSet(s) \subseteq S /\ ToSet(<<>>) = {}
<1> DEFINE c == Append(s, x)
<1>1. /\ c \in Seq(S) /\ Len(c) = Len(s) + 1 /\ Len(s) \in Nat
      /\ DOMAIN c = 1 .. Len(s) + 1 /\ DOMAIN s = 1 .. Len(s)
      /\ c[Len(s) + 1] = x
      /\ \A i \in 1 .. Len(s) : c[i] = s[i]
  OBVIOUS
<1> HIDE DEF c
<1>2. ToSet(s) \subseteq S /\ ToSet(<<>>) = {}
  BY DEF ToSet
<1>3. ToSet(c) \subseteq ToSet(s) \cup {x}
  BY <1>1 DEF ToSet
<1>4. ToSet(s) \subseteq ToSet(c)
  <2>1. \A i \in DOMAIN s : i \in DOMAIN c /\ s[i] = c[i]
    BY <1>1
  <2> QED
    BY <2>1 DEF ToSet
<1>5. x \in ToSet(c)
  <2>1. Len(s) + 1 \in DOMAIN c /\ c[Len(s) + 1] = x
    BY <1>1
  <2> QED
    BY <2>1 DEF ToSet
<1> QED
  BY <1>1, <1>2, <1>3, <1>4, <1>5 DEF c

-----------------------------------------------------------------------------
(***************************************************************************)
(* While the sink is open it has a file, and room for the next one when it *)
(* rotates; a link of the chain leads to the beginning or to an event that *)
(* was signed, and no number is larger than their count.                   *)
(***************************************************************************)
Room ==
  /\ Len(files) <= MaxFiles
  /\ owner # "stopped" => Len(files) >= 1
  /\ rotates /\ owner = "rotating" => Len(files) < MaxFiles

Links ==
  /\ \A l \in signed : l.hash = l.event
  /\ \A l \in signed : l.prev \in {Genesis} \cup EventsOf(signed)
  /\ {chain.hash, saved.hash} \subseteq {Genesis} \cup EventsOf(signed)
  /\ chain.seq <= Cardinality(EventsOf(signed))
  /\ saved.seq <= Cardinality(EventsOf(signed))

\* A worker has a line as long as it is not idle, and is once the sink has stopped.
Carries ==
  /\ \A w \in Workers : IF workers[w].at = "idle" THEN workers[w].line = NoLine
                                                ELSE workers[w].line \in Line
  /\ owner = "stopped" => \A w \in Workers : workers[w].at = "idle"

Sound == TypeOK /\ Room /\ Carries /\ Links

LEMMA TypedParts ==
  ASSUME TypeOK
  PROVE  /\ workers \in [Workers -> WorkerState] /\ meta \in MetaState
         /\ files \in Seq(FileState) /\ Len(files) \in Nat
         /\ chain.seq \in Nat /\ saved.seq \in Nat
         /\ EventsOf(signed) \in SUBSET Events
         /\ IsFiniteSet(EventsOf(signed)) /\ Cardinality(EventsOf(signed)) \in Nat
         /\ Cardinality(Events) \in Nat
         /\ \A n \in DOMAIN files : files[n] \in FileState /\ n \in Nat
<1>1. EventsOf(signed) \in SUBSET Events
  BY DEF TypeOK, EventsOf, Line
<1>2. /\ workers \in [Workers -> WorkerState] /\ meta \in MetaState
      /\ files \in Seq(FileState)
  BY DEF TypeOK, WorkerState, MetaState, FileState, LineOrNone
<1>3. Len(files) \in Nat /\ \A n \in DOMAIN files : files[n] \in FileState /\ n \in Nat
  BY <1>2
<1> QED
  BY <1>1, <1>2, <1>3, SealedAssumption, FS_Subset, FS_CardinalityType DEF TypeOK

LEMMA TypeKept ==
  ASSUME chain' \in [seq : Nat, hash : Events \cup {Genesis}],
         saved' \in [seq : Nat, hash : Events \cup {Genesis}],
         workers' \in [Workers -> WorkerState],
         owner' \in {"stopped", "running", "rotating", "stopping"},
         meta' \in MetaState, lastRoot' \in Events \cup {None},
         files' \in Seq(FileState), owner' # "stopped" => meta'.file = Len(files'),
         signed' \subseteq Line, faults' \in 0 .. MaxFaults,
         rotates' \in BOOLEAN, crashed' \in BOOLEAN, bypassed' \in BOOLEAN,
         raced' \in BOOLEAN, disturbed' \in BOOLEAN
  PROVE  TypeOK'
  BY DEF TypeOK, WorkerState, MetaState, FileState, LineOrNone

LEMMA InitSound == Init => Sound
<1> SUFFICES ASSUME Init PROVE Sound
  OBVIOUS
<1>1. meta \in MetaState
  <2>1. 0 \in 0 .. MaxFiles
    BY SealedAssumption
  <2> QED
    BY <2>1, MetaFresh DEF Init
<1>2. workers \in [Workers -> WorkerState]
  BY WorkerTyped DEF Init
<1>3. /\ EventsOf(signed) = {} /\ Cardinality(EventsOf(signed)) = 0
      /\ files = <<>> /\ Len(files) = 0
  BY FS_EmptySet DEF Init, EventsOf
<1>4. Beginning \in [seq : Nat, hash : Events \cup {Genesis}]
      /\ Beginning.seq = 0 /\ Beginning.hash = Genesis
  BY DEF Beginning
<1>5. TypeOK
  <2>1. {chain, saved} \subseteq [seq : Nat, hash : Events \cup {Genesis}]
    BY <1>4 DEF Init
  <2>2. workers \in [Workers -> [at : {"idle", "signed", "counted"}, line : Line \cup {NoLine}]]
    BY <1>2 DEF WorkerState, LineOrNone
  <2>3. meta \in [file : 0 .. MaxFiles, count : Nat, root : Events \cup {None},
                  from : Events \cup {None}]
    BY <1>1 DEF MetaState
  <2>4. /\ owner = "stopped" /\ lastRoot = None /\ signed = {}
        /\ {rotates, crashed, bypassed, raced, disturbed} \subseteq BOOLEAN
    BY DEF Init
  <2>6. faults \in 0 .. MaxFaults
    BY SealedAssumption DEF Init
  <2>5. files \in Seq([lines : Seq(Line), counted : Seq(Line),
                       manifest : Manifest \cup {NoManifest}])
    BY <1>3
  <2> QED
    BY <2>1, <2>2, <2>3, <2>4, <2>5, <2>6 DEF TypeOK
<1>6. Room
  BY <1>3, SealedAssumption DEF Init, Room
<1>7. Links
  BY <1>3, <1>4 DEF Init, Links
<1>8. Carries
  BY WorkerTyped DEF Init, Carries
<1> QED
  BY <1>5, <1>6, <1>7, <1>8 DEF Sound

\* A step that signs nothing keeps the links.
LEMMA LinksKept ==
  ASSUME Links, signed' = signed,
         {chain', saved'} \subseteq {chain, saved}
  PROVE  Links'
  BY DEF Links

-----------------------------------------------------------------------------
(* Every step keeps them.                                                  *)

LEMMA SignFacts ==
  ASSUME Sound, NEW w \in Workers, NEW e \in Events, Sign(w, e)
  PROVE  \E line \in Line :
           /\ line.event = e /\ line.seq = chain.seq + 1 /\ line.prev = chain.hash
           /\ line.hash = e
           /\ chain'.seq = line.seq /\ chain'.hash = line.hash
           /\ chain' \in [seq : Nat, hash : Events \cup {Genesis}]
           /\ signed' = signed \cup {line} /\ e \notin EventsOf(signed)
           /\ EventsOf(signed') = EventsOf(signed) \cup {e}
           /\ chain'.seq <= Cardinality(EventsOf(signed'))
           /\ Cardinality(EventsOf(signed)) <= Cardinality(EventsOf(signed'))
           /\ workers' = [workers EXCEPT ![w] = [at |-> "signed", line |-> line]]
<1> DEFINE line == [event |-> e, seq |-> chain.seq + 1, prev |-> chain.hash, hash |-> e]
           S == EventsOf(signed)
<1>1. /\ signed' = signed \cup {line} /\ chain' = [seq |-> line.seq, hash |-> line.hash]
      /\ workers' = [workers EXCEPT ![w] = [at |-> "signed", line |-> line]]
      /\ e \notin S
  BY DEF Sign, Logged
<1>2. /\ S \in SUBSET Events /\ IsFiniteSet(S) /\ Cardinality(S) \in Nat
      /\ Cardinality(Events) \in Nat /\ chain.seq \in Nat /\ chain.seq <= Cardinality(S)
      /\ chain.hash \in Events \cup {Genesis}
  BY TypedParts DEF Sound, Links, TypeOK
<1>3. EventsOf(signed') = S \cup {e}
  <2>1. line.event = e
    OBVIOUS
  <2> HIDE DEF line
  <2> QED
    BY <1>1, <2>1 DEF EventsOf
<1> HIDE DEF S
<1>4. Cardinality(S \cup {e}) = Cardinality(S) + 1
  BY <1>1, <1>2, FS_AddElement
<1>5. Cardinality(S \cup {e}) <= Cardinality(Events)
  <2> DEFINE T == S \cup {e}
  <2>1. T \in SUBSET Events
    BY <1>2
  <2> HIDE DEF T
  <2>2. Cardinality(T) <= Cardinality(Events)
    BY <2>1, SealedAssumption, FS_Subset
  <2> QED
    BY <2>2 DEF T
<1>6. chain.seq + 1 \in 0 .. Cardinality(Events) /\ chain.seq + 1 <= Cardinality(S \cup {e})
  BY <1>2, <1>4, <1>5
<1>7. /\ line \in Line /\ line.event = e /\ line.seq = chain.seq + 1
      /\ line.prev = chain.hash /\ line.hash = e
  BY <1>2, <1>6 DEF Line
<1> HIDE DEF line
<1>8. /\ chain' \in [seq : Nat, hash : Events \cup {Genesis}]
      /\ chain'.seq = chain.seq + 1 /\ chain'.hash = e
  BY <1>1, <1>2, <1>7
<1>9. /\ Cardinality(S) <= Cardinality(S \cup {e})
      /\ chain'.seq <= Cardinality(S \cup {e})
  BY <1>2, <1>4, <1>6, <1>8
<1> line \in Line
  BY <1>7
<1> WITNESS line \in Line
<1> QED
  BY <1>1, <1>3, <1>7, <1>8, <1>9 DEF S

LEMMA SoundSign ==
  ASSUME Sound, NEW w \in Workers, NEW e \in Events, Sign(w, e)
  PROVE  Sound'
<1>1. PICK line \in Line :
           /\ line.event = e /\ line.seq = chain.seq + 1 /\ line.prev = chain.hash
           /\ line.hash = e
           /\ chain'.seq = line.seq /\ chain'.hash = line.hash
           /\ chain' \in [seq : Nat, hash : Events \cup {Genesis}]
           /\ signed' = signed \cup {line}
           /\ EventsOf(signed') = EventsOf(signed) \cup {e}
           /\ chain'.seq <= Cardinality(EventsOf(signed'))
           /\ Cardinality(EventsOf(signed)) <= Cardinality(EventsOf(signed'))
           /\ workers' = [workers EXCEPT ![w] = [at |-> "signed", line |-> line]]
  BY SignFacts
<1>2. /\ UNCHANGED <<rotates, saved, owner, meta, lastRoot, files, faults, crashed, bypassed,
                     raced>>
      /\ disturbed' \in BOOLEAN
  BY DEF Sign, Sound, TypeOK
<1>3. workers' \in [Workers -> WorkerState]
  BY <1>1, TypedParts, WorkerTyped DEF Sound, LineOrNone
<1>4. TypeOK'
  BY <1>1, <1>2, <1>3, TypedParts, TypeKept DEF Sound, TypeOK
<1>5. Room'
  BY <1>2 DEF Sound, Room
<1>6. saved.seq <= Cardinality(EventsOf(signed')) /\ EventsOf(signed') \in SUBSET Events
      /\ Cardinality(EventsOf(signed')) \in Nat
  <2>1. EventsOf(signed') \in SUBSET Events
    BY <1>1, TypedParts DEF Sound
  <2>2. Cardinality(EventsOf(signed')) \in Nat
    BY <2>1, SealedAssumption, FS_Subset, FS_CardinalityType
  <2>3. /\ Cardinality(EventsOf(signed)) \in Nat /\ saved.seq \in Nat
        /\ saved.seq <= Cardinality(EventsOf(signed))
    BY TypedParts DEF Sound, Links
  <2> QED
    BY <1>1, <2>1, <2>2, <2>3
<1>7. Links'
  BY <1>1, <1>2, <1>6 DEF Sound, Links
<1>8. Carries'
  <2>1. owner' # "stopped"
    BY <1>2 DEF Sign
  <2>2. \A v \in Workers : workers'[v] = IF v = w THEN [at |-> "signed", line |-> line]
                                                  ELSE workers[v]
    BY <1>1, TypedParts DEF Sound
  <2>3. /\ [at |-> "signed", line |-> line].at = "signed"
        /\ [at |-> "signed", line |-> line].line = line
    OBVIOUS
  <2> QED
    BY <2>1, <2>2, <2>3 DEF Sound, Carries
<1> QED
  BY <1>4, <1>5, <1>7, <1>8 DEF Sound

\* Where a file is replaced, the others stay.
LEMMA FileReplaced ==
  ASSUME NEW fs \in Seq(FileState), NEW n \in DOMAIN fs, NEW g \in FileState,
         NEW h, h = [fs EXCEPT ![n] = g]
  PROVE  /\ h \in Seq(FileState) /\ Len(h) = Len(fs) /\ DOMAIN h = DOMAIN fs
         /\ h[n] = g /\ \A k \in DOMAIN fs : k # n => h[k] = fs[k]
  OBVIOUS

LEMMA WriteFacts ==
  ASSUME Sound, NEW w \in Workers, WriteInner(w) \/ WriteSerialized(w)
  PROVE  LET n == Len(files)
         IN  /\ owner # "stopped" /\ workers[w].at # "idle" /\ workers[w].line \in Line
             /\ n \in DOMAIN files /\ files' \in Seq(FileState)
             /\ Len(files') = Len(files) /\ DOMAIN files' = DOMAIN files
             /\ \A k \in DOMAIN files : k # n => files'[k] = files[k]
             /\ files'[n].lines = Append(files[n].lines, workers[w].line)
             /\ files'[n].counted = files[n].counted /\ files'[n].manifest = files[n].manifest
             /\ workers' = [workers EXCEPT ![w] = Idle]
             /\ UNCHANGED <<chain, saved, owner, meta, lastRoot, signed, faults, raced>>
<1> DEFINE n == Len(files)
           l == workers[w].line
           g == [files[n] EXCEPT !.lines = Append(files[n].lines, l)]
<1>1. /\ owner # "stopped" /\ workers[w].at # "idle"
      /\ files' = [files EXCEPT ![n] = g]
      /\ workers' = [workers EXCEPT ![w] = Idle]
      /\ UNCHANGED <<chain, saved, owner, meta, lastRoot, signed, faults, raced>>
  BY DEF WriteInner, WriteSerialized
<1>2. l \in Line
  BY <1>1 DEF Sound, Carries
<1>3. files \in Seq(FileState) /\ n \in DOMAIN files /\ files[n] \in FileState
  <2>1. files \in Seq(FileState) /\ Len(files) \in Nat /\ Len(files) >= 1
    BY <1>1, TypedParts DEF Sound, Room
  <2> QED
    BY <2>1
<1> HIDE DEF n, l
<1>4. /\ g \in FileState /\ g.lines = Append(files[n].lines, l)
      /\ g.counted = files[n].counted /\ g.manifest = files[n].manifest
  BY <1>2, <1>3, FileWritten
<1> HIDE DEF g
<1>5. /\ files' \in Seq(FileState) /\ Len(files') = Len(files) /\ DOMAIN files' = DOMAIN files
      /\ files'[n] = g /\ \A k \in DOMAIN files : k # n => files'[k] = files[k]
  BY <1>1, <1>3, <1>4, FileReplaced
<1> QED
  BY <1>1, <1>2, <1>3, <1>4, <1>5 DEF n, l

LEMMA CountFacts ==
  ASSUME Sound, NEW w \in Workers, Count(w)
  PROVE  LET n == meta.file
             l == workers[w].line
         IN  /\ owner # "stopped" /\ workers[w].at = "signed" /\ l \in Line
             /\ n = Len(files) /\ n \in DOMAIN files
             /\ meta' \in MetaState /\ meta'.file = n
             /\ meta'.count = meta.count + 1 /\ meta'.root = NewRoot(meta.root, l)
             /\ files' \in Seq(FileState) /\ Len(files') = Len(files)
             /\ DOMAIN files' = DOMAIN files
             /\ \A k \in DOMAIN files : k # n => files'[k] = files[k]
             /\ Sealed(files[n]) => files' = files
             /\ ~Sealed(files[n]) =>
                  /\ files'[n].lines = files[n].lines
                  /\ files'[n].counted = Append(files[n].counted, l)
                  /\ files'[n].manifest = files[n].manifest
             /\ workers' = [workers EXCEPT ![w].at = "counted"]
             /\ UNCHANGED <<chain, saved, owner, lastRoot, signed, faults, bypassed, raced>>
<1> DEFINE n == meta.file
           l == workers[w].line
           r == NewRoot(meta.root, l)
           g == [files[n] EXCEPT !.counted = Append(files[n].counted, l)]
<1>1. /\ owner # "stopped" /\ workers[w].at = "signed"
      /\ files' = IF Sealed(files[n]) THEN files ELSE [files EXCEPT ![n] = g]
      /\ meta' = [meta EXCEPT !.count = meta.count + 1, !.root = r]
      /\ workers' = [workers EXCEPT ![w].at = "counted"]
      /\ UNCHANGED <<chain, saved, owner, lastRoot, signed, faults, bypassed, raced>>
  BY DEF Count
<1>2. l \in Line
  BY <1>1 DEF Sound, Carries
<1>3. r \in Events \cup {None} /\ meta \in MetaState
  <2>1. l.hash \in Events \cup {None}
    BY <1>2 DEF Line
  <2>2. meta \in MetaState /\ meta.root \in Events \cup {None}
    BY TypedParts DEF Sound, MetaState
  <2> HIDE DEF l
  <2> QED
    BY <2>1, <2>2 DEF NewRoot
<1>4. /\ files \in Seq(FileState) /\ n = Len(files) /\ n \in DOMAIN files
      /\ files[n] \in FileState
  <2>1. files \in Seq(FileState) /\ Len(files) \in Nat /\ Len(files) >= 1 /\ n = Len(files)
    BY <1>1, TypedParts DEF Sound, Room, TypeOK
  <2> QED
    BY <2>1
<1> HIDE DEF n, l, r
<1>5. /\ meta' \in MetaState /\ meta'.file = meta.file
      /\ meta'.count = meta.count + 1 /\ meta'.root = r
  <2> DEFINE c == meta.count + 1
  <2>1. /\ meta = [file |-> meta.file, count |-> meta.count, root |-> meta.root,
                   from |-> meta.from]
        /\ meta.file \in 0 .. MaxFiles /\ c \in Nat /\ meta.from \in Events \cup {None}
    BY <1>3 DEF MetaState
  <2>2. meta' = [meta EXCEPT !.count = c, !.root = r]
    BY <1>1
  <2> HIDE DEF c
  <2>3. meta' = [file |-> meta.file, count |-> c, root |-> r, from |-> meta.from]
    BY <2>1, <2>2
  <2>4. meta' \in MetaState
    BY <1>3, <2>1, <2>3, MetaMade
  <2> QED
    BY <2>3, <2>4 DEF c
<1>6. /\ g \in FileState /\ g.counted = Append(files[n].counted, l)
      /\ g.lines = files[n].lines /\ g.manifest = files[n].manifest
  BY <1>2, <1>4, FileCounted
<1> HIDE DEF g
<1>7. CASE Sealed(files[n])
  <2>1. files' = files
    BY <1>1, <1>7
  <2> QED
    BY <1>1, <1>2, <1>4, <1>5, <1>7, <2>1 DEF n, l, r
<1>8. CASE ~Sealed(files[n])
  <2>1. /\ files' \in Seq(FileState) /\ Len(files') = Len(files) /\ DOMAIN files' = DOMAIN files
        /\ files'[n] = g /\ \A k \in DOMAIN files : k # n => files'[k] = files[k]
    BY <1>1, <1>4, <1>6, <1>8, FileReplaced
  <2> QED
    BY <1>1, <1>2, <1>4, <1>5, <1>6, <1>8, <2>1 DEF n, l, r
<1> QED
  BY <1>7, <1>8

LEMMA SoundWorker ==
  ASSUME Sound, NEW w \in Workers,
         \/ \E e \in Events : SignFails(w, e)
         \/ Drop(w) \/ Count(w) \/ WriteInner(w) \/ WriteSerialized(w)
  PROVE  Sound'
<1>1. /\ UNCHANGED <<rotates, chain, saved, owner, lastRoot, signed, crashed, raced>>
      /\ bypassed' \in BOOLEAN /\ disturbed' \in BOOLEAN
  BY DEF SignFails, Drop, Count, WriteInner, WriteSerialized, Sound, TypeOK
<1>2. faults' \in 0 .. MaxFaults
  BY SealedAssumption
     DEF SignFails, Drop, Count, WriteInner, WriteSerialized, Fault, Sound, TypeOK
<1>3. workers' \in [Workers -> WorkerState]
  BY TypedParts, WorkerTyped, LinesTyped
     DEF SignFails, Drop, Count, WriteInner, WriteSerialized, Sound, LineOrNone
<1>4. /\ meta' \in MetaState /\ meta'.file = meta.file
      /\ files' \in Seq(FileState) /\ Len(files') = Len(files)
  <2>1. CASE UNCHANGED <<meta, files>>
    BY <2>1, TypedParts DEF Sound
  <2>2. CASE WriteInner(w) \/ WriteSerialized(w)
    BY <2>2, WriteFacts, TypedParts DEF Sound
  <2>3. CASE Count(w)
    BY <2>3, CountFacts
  <2> QED
    BY <2>1, <2>2, <2>3 DEF SignFails, Drop
<1>5. TypeOK'
  BY <1>1, <1>2, <1>3, <1>4, TypedParts, TypeKept DEF Sound, TypeOK
<1>6. Room'
  BY <1>1, <1>4 DEF Sound, Room
<1>7. Links'
  BY <1>1, LinksKept DEF Sound
<1>8. Carries'
  <2>1. owner' # "stopped"
    BY <1>1 DEF Sound, Carries, SignFails, Drop, Count, WriteInner, WriteSerialized
  <2>2. \A v \in Workers : v # w => workers'[v] = workers[v]
    BY TypedParts DEF Sound, SignFails, Drop, Count, WriteInner, WriteSerialized
  <2>3. IF workers'[w].at = "idle" THEN workers'[w].line = NoLine ELSE workers'[w].line \in Line
    <3>1. workers \in [Workers -> WorkerState]
      BY TypedParts DEF Sound
    <3>2. ASSUME NEW e \in Events, SignFails(w, e) PROVE workers'[w].line \in Line /\ workers'[w].at = "signed"
      BY <3>1, <3>2, LinesTyped DEF SignFails
    <3>3. CASE Count(w)
      <4>1. /\ workers' = [workers EXCEPT ![w].at = "counted"]
            /\ workers[w].line \in Line /\ workers[w] \in WorkerState
        BY <3>1, <3>3, CountFacts
      <4>2. workers'[w] = [workers[w] EXCEPT !.at = "counted"]
        BY <3>1, <4>1
      <4>3. workers'[w].at = "counted" /\ workers'[w].line = workers[w].line
        BY <4>1, <4>2 DEF WorkerState
      <4> QED
        BY <4>1, <4>3
    <3>4. CASE Drop(w) \/ WriteInner(w) \/ WriteSerialized(w)
      BY <3>1, <3>4, WorkerTyped DEF Drop, WriteInner, WriteSerialized
    <3> QED
      BY <3>2, <3>3, <3>4
  <2> QED
    BY <2>1, <2>2, <2>3 DEF Sound, Carries
<1> QED
  BY <1>5, <1>6, <1>7, <1>8 DEF Sound

LEMMA SealFacts ==
  ASSUME Sound, rotates, owner # "stopped", EmitManifest
  PROVE  LET n == meta.file
         IN  /\ n = Len(files) /\ n \in DOMAIN files
             /\ lastRoot' \in Events \cup {None}
             /\ files' \in Seq(FileState) /\ Len(files') = Len(files)
             /\ DOMAIN files' = DOMAIN files
             /\ \A k \in DOMAIN files : k # n => files'[k] = files[k]
             /\ files'[n].lines = files[n].lines /\ files'[n].counted = files[n].counted
             /\ files'[n].manifest.count = meta.count /\ files'[n].manifest.root = meta.root
             /\ files'[n].manifest = Generated /\ Sealed(files'[n])
<1> DEFINE n == meta.file
           g == [files[n] EXCEPT !.manifest = Generated]
<1>1. /\ meta \in MetaState /\ meta.root \in Events \cup {None}
      /\ files \in Seq(FileState) /\ n = Len(files) /\ n \in DOMAIN files
      /\ files[n] \in FileState /\ lastRoot \in Events \cup {None}
  <2>1. files \in Seq(FileState) /\ Len(files) \in Nat /\ Len(files) >= 1 /\ n = Len(files)
    BY TypedParts DEF Sound, Room, TypeOK
  <2> QED
    BY <2>1, TypedParts DEF Sound, MetaState, TypeOK
<1>2. files' = [files EXCEPT ![n] = g] /\ lastRoot' \in {lastRoot, meta.root}
  BY DEF EmitManifest
<1>3. /\ Generated \in Manifest /\ Generated.count = meta.count /\ Generated.root = meta.root
      /\ Generated # NoManifest
  <2>1. NoManifest.root = NoEvent /\ NoEvent \notin Events \cup {None}
    BY SealedAssumption DEF NoManifest
  <2>2. Generated.count = meta.count /\ Generated.root = meta.root
    BY DEF Generated
  <2>3. Generated \in Manifest
    BY <1>1 DEF Generated, Manifest, MetaState
  <2> QED
    BY <1>1, <2>1, <2>2, <2>3
<1> HIDE DEF n
<1>4. /\ g \in FileState /\ g.manifest = Generated
      /\ g.lines = files[n].lines /\ g.counted = files[n].counted
  BY <1>1, <1>3, FileSealed
<1> HIDE DEF g
<1>5. /\ files' \in Seq(FileState) /\ Len(files') = Len(files) /\ DOMAIN files' = DOMAIN files
      /\ files'[n] = g /\ \A k \in DOMAIN files : k # n => files'[k] = files[k]
  BY <1>1, <1>2, <1>4, FileReplaced
<1>6. Sealed(files'[n])
  BY <1>3, <1>4, <1>5 DEF Sealed
<1> QED
  BY <1>1, <1>2, <1>3, <1>4, <1>5, <1>6 DEF n

\* Of rotating_file the files stay as they are.
LEMMA SealNothing ==
  ASSUME Sound, ~rotates, EmitManifest
  PROVE  files' = files /\ lastRoot' \in Events \cup {None}
<1>1. meta.root \in Events \cup {None} /\ lastRoot \in Events \cup {None}
  BY TypedParts DEF Sound, MetaState, TypeOK
<1> QED
  BY <1>1 DEF EmitManifest

LEMMA OpenFacts ==
  ASSUME Sound, Len(files) < MaxFiles, files' = Append(files, EmptyFile),
         NEW r \in Events \cup {None}, meta' = NewMeta(Len(files) + 1, r)
  PROVE  /\ files' \in Seq(FileState) /\ Len(files') = Len(files) + 1
         /\ DOMAIN files' = 1 .. Len(files) + 1 /\ DOMAIN files = 1 .. Len(files)
         /\ \A k \in DOMAIN files : files'[k] = files[k]
         /\ files'[Len(files) + 1] = EmptyFile
         /\ meta' \in MetaState /\ meta'.file = Len(files')
         /\ meta'.count = 0 /\ meta'.root = None
         /\ Len(files') <= MaxFiles /\ Len(files') >= 1
<1>1. files \in Seq(FileState) /\ Len(files) \in Nat /\ EmptyFile \in FileState
  BY TypedParts, FileEmpty DEF Sound
<1>2. /\ files' \in Seq(FileState) /\ Len(files') = Len(files) + 1
      /\ DOMAIN files' = 1 .. Len(files) + 1 /\ DOMAIN files = 1 .. Len(files)
      /\ \A k \in DOMAIN files : files'[k] = files[k]
      /\ files'[Len(files) + 1] = EmptyFile
  BY <1>1
<1>3. Len(files) + 1 \in 0 .. MaxFiles
  BY <1>1, SealedAssumption
<1> QED
  BY <1>1, <1>2, <1>3, MetaFresh

LEMMA SoundOwner ==
  ASSUME Sound,
         \/ BeginRotate \/ EndRotate \/ SealFails \/ InnerOpens
         \/ BeginStop \/ EndStop \/ Crash
         \/ \E anew \in BOOLEAN : Start(anew)
         \/ UNCHANGED sealVars
  PROVE  Sound'
<1>1. /\ signed' = signed /\ {chain', saved'} \subseteq {chain, saved}
      /\ workers' \in {workers, [w \in Workers |-> Idle]}
      /\ owner' \in {"stopped", "running", "rotating", "stopping"}
      /\ owner' = "stopped" => \/ workers' = [w \in Workers |-> Idle]
                               \/ owner = "stopped" /\ workers' = workers
      /\ bypassed' = bypassed /\ rotates' = rotates
  BY DEF BeginRotate, EndRotate, SealFails, InnerOpens, BeginStop, EndStop, Crash, Start, Saves,
         sealVars, Sound, TypeOK
<1>2. raced' \in BOOLEAN /\ disturbed' \in BOOLEAN /\ crashed' \in BOOLEAN
  BY Zenon DEF BeginRotate, EndRotate, SealFails, InnerOpens, BeginStop, EndStop, Crash, Start,
               sealVars, Sound, TypeOK
<1>3. faults' \in 0 .. MaxFaults
  BY SealedAssumption
     DEF BeginRotate, EndRotate, SealFails, InnerOpens, BeginStop, EndStop, Crash, Start, Fault,
         sealVars, Sound, TypeOK
<1>4. /\ meta \in MetaState /\ files \in Seq(FileState) /\ lastRoot \in Events \cup {None}
      /\ workers \in [Workers -> WorkerState] /\ Len(files) \in Nat
      /\ owner # "stopped" => meta.file = Len(files)
      /\ bypassed \in BOOLEAN /\ rotates \in BOOLEAN
  BY TypedParts DEF Sound, TypeOK
<1>5. /\ meta' \in MetaState /\ files' \in Seq(FileState) /\ lastRoot' \in Events \cup {None}
      /\ owner' # "stopped" => meta'.file = Len(files')
      /\ Room'
  <2>1. CASE BeginRotate
    <3>1. /\ EmitManifest /\ owner' = "rotating" /\ owner # "stopped"
          /\ Len(files) < MaxFiles /\ meta' = meta
      BY <2>1 DEF BeginRotate
    <3>2. CASE rotates
      BY <1>4, <3>1, <3>2, SealFacts DEF Sound, Room
    <3>3. CASE ~rotates
      BY <1>4, <3>1, <3>3, SealNothing DEF Sound, Room
    <3> QED
      BY <3>2, <3>3
  <2>2. CASE BeginStop
    <3>1. /\ EmitManifest \/ UNCHANGED <<files, lastRoot>>
          /\ owner' = "stopping" /\ owner # "stopped" /\ meta' = meta
      BY <2>2 DEF BeginStop
    <3>2. CASE EmitManifest
      <4>1. CASE rotates
        BY <1>4, <3>1, <3>2, <4>1, SealFacts DEF Sound, Room
      <4>2. CASE ~rotates
        BY <1>4, <3>1, <3>2, <4>2, SealNothing DEF Sound, Room
      <4> QED
        BY <4>1, <4>2
    <3>3. CASE UNCHANGED <<files, lastRoot>>
      BY <1>4, <3>1, <3>3 DEF Sound, Room
    <3> QED
      BY <3>1, <3>2, <3>3
  <2>3. CASE EndRotate
    <3>1. /\ owner = "rotating" /\ owner' = "running" /\ lastRoot' = lastRoot
          /\ files' = IF rotates THEN Append(files, EmptyFile) ELSE files
          /\ meta' = NewMeta(Len(files'), lastRoot)
      BY <2>3 DEF EndRotate
    <3>2. CASE rotates
      <4>1. Len(files) < MaxFiles /\ files' = Append(files, EmptyFile)
        BY <3>1, <3>2 DEF Sound, Room
      <4>2. Len(files') = Len(files) + 1
        BY <1>4, <4>1, FileEmpty
      <4>3. meta' = NewMeta(Len(files) + 1, lastRoot)
        BY <3>1, <4>2
      <4> QED
        BY <1>4, <3>1, <4>1, <4>3, OpenFacts DEF Room
    <3>3. CASE ~rotates
      <4>1. files' = files /\ Len(files) \in 0 .. MaxFiles
        BY <1>4, <3>1, <3>3, SealedAssumption DEF Sound, Room
      <4> QED
        BY <1>1, <1>4, <3>1, <3>3, <4>1, MetaFresh DEF Sound, Room
    <3> QED
      BY <3>2, <3>3
  <2>4. ASSUME NEW anew \in BOOLEAN, Start(anew)
        PROVE  /\ meta' \in MetaState /\ files' \in Seq(FileState) /\ lastRoot' \in Events \cup {None}
               /\ owner' # "stopped" => meta'.file = Len(files')
               /\ Room'
    <3>1. /\ owner' = "running" /\ files' = Append(files, EmptyFile)
          /\ meta' = NewMeta(Len(files) + 1, lastRoot') /\ lastRoot' \in {None, lastRoot}
          /\ Len(files) < MaxFiles
      BY <2>4 DEF Start
    <3>2. lastRoot' \in Events \cup {None}
      BY <1>4, <3>1
    <3> QED
      BY <3>1, <3>2, OpenFacts DEF Room
  <2>5. CASE EndStop \/ Crash
    BY <1>4, <2>5 DEF EndStop, Crash, Sound, Room
  <2>6. CASE UNCHANGED sealVars
    BY <1>4, <2>6 DEF sealVars, Sound, Room
  <2>7. CASE SealFails
    BY <1>4, <2>7 DEF SealFails, Sound, Room
  <2>8. CASE InnerOpens
    <3>1. /\ ~rotates /\ owner # "stopped" /\ UNCHANGED <<rotates, owner, lastRoot>>
          /\ Len(files) < MaxFiles
          /\ files' = Append(files, EmptyFile) /\ meta' = [meta EXCEPT !.file = Len(files')]
      BY <2>8 DEF InnerOpens
    <3>2. files' \in Seq(FileState) /\ Len(files') = Len(files) + 1
      BY <1>4, <3>1, FileEmpty
    <3>3. Len(files') \in 0 .. MaxFiles
      BY <1>4, <3>1, <3>2, SealedAssumption
    <3>4. meta' \in MetaState /\ meta'.file = Len(files')
      BY <1>4, <3>1, <3>3 DEF MetaState
    <3> QED
      BY <1>4, <3>1, <3>2, <3>3, <3>4 DEF Room
  <2> QED
    BY <2>1, <2>2, <2>3, <2>4, <2>5, <2>6, <2>7, <2>8
<1>6. TypeOK'
  <2>1. {chain, saved} \subseteq [seq : Nat, hash : Events \cup {Genesis}] /\ signed \subseteq Line
    BY DEF Sound, TypeOK
  <2>2. workers' \in [Workers -> WorkerState]
    BY <1>1, <1>4, WorkerTyped
  <2> QED
    BY <1>1, <1>2, <1>3, <1>4, <1>5, <2>1, <2>2, TypeKept
<1>7. Links'
  BY <1>1, LinksKept DEF Sound
<1>8. Carries'
  <2>1. CASE workers' = [w \in Workers |-> Idle]
    BY <2>1, WorkerTyped DEF Carries
  <2>2. CASE workers' = workers
    BY <1>1, <2>2, WorkerTyped DEF Sound, Carries
  <2> QED
    BY <1>1, <2>1, <2>2
<1> QED
  BY <1>5, <1>6, <1>7, <1>8 DEF Sound

LEMMA SoundStep == Sound /\ [Next]_sealVars => Sound'
<1> SUFFICES ASSUME Sound, [Next]_sealVars PROVE Sound'
  OBVIOUS
<1>1. ASSUME NEW w \in Workers, NEW e \in Events, Sign(w, e) PROVE Sound'
  BY <1>1, SoundSign
<1>2. ASSUME NEW w \in Workers,
             \/ \E e \in Events : SignFails(w, e)
             \/ Drop(w) \/ Count(w) \/ WriteInner(w) \/ WriteSerialized(w)
      PROVE  Sound'
  BY <1>2, SoundWorker
<1>3. CASE \/ BeginRotate \/ EndRotate \/ SealFails \/ InnerOpens
           \/ BeginStop \/ EndStop \/ Crash
           \/ \E anew \in BOOLEAN : Start(anew)
           \/ UNCHANGED sealVars
  BY <1>3, SoundOwner
<1> QED
  BY <1>1, <1>2, <1>3 DEF Next

LEMMA AlwaysSound == Spec => []Sound
  BY InitSound, SoundStep, PTL DEF Spec

(***************************************************************************)
(* The state of the sealed log keeps its shape; in particular no number is *)
(* larger than the count of events, crashes and restarts included.         *)
(***************************************************************************)
THEOREM SealedTypeCorrect == Spec => []TypeOK
<1>1. Sound => TypeOK
  BY DEF Sound
<1> QED
  BY <1>1, AlwaysSound, PTL

-----------------------------------------------------------------------------
(***************************************************************************)
(* Without a crash nothing has been signed beyond the tip of the chain,    *)
(* which is what the enricher works with or, when it has stopped, has      *)
(* saved.                                                                  *)
(***************************************************************************)
Tip == IF owner = "stopped" THEN saved ELSE chain

Unforked ==
  ~crashed =>
    /\ \A l \in signed : l.seq <= Tip.seq /\ l.prev # Tip.hash
    /\ \A l, m \in signed : l # m => l.seq # m.seq /\ l.prev # m.prev

LEMMA UnforkedStep == Sound /\ Unforked /\ [Next]_sealVars => Unforked'
<1> SUFFICES ASSUME Sound, Unforked, [Next]_sealVars, ~crashed'
             PROVE  /\ \A l \in signed' : l.seq <= Tip'.seq /\ l.prev # Tip'.hash
                    /\ \A l, m \in signed' : l # m => l.seq # m.seq /\ l.prev # m.prev
  BY DEF Unforked
<1>1. ~crashed /\ ~Crash
  <2>1. ~Crash
    BY DEF Crash
  <2>2. crashed' = crashed
    BY <2>1, Zenon DEF Next, Sign, SignFails, Drop, Count, WriteInner, WriteSerialized, BeginRotate,
                       EndRotate, SealFails, InnerOpens, BeginStop, EndStop, Start, sealVars
  <2> QED
    BY <2>1, <2>2
<1>2. /\ \A l \in signed : l.seq <= Tip.seq /\ l.prev # Tip.hash /\ l.seq \in Nat
      /\ \A l, m \in signed : l # m => l.seq # m.seq /\ l.prev # m.prev
      /\ chain.seq \in Nat
  BY <1>1, TypedParts DEF Unforked, Sound, TypeOK, Line
<1>3. CASE signed' = signed /\ Tip' = Tip
  BY <1>2, <1>3
<1>4. ASSUME NEW w \in Workers, NEW e \in Events, Sign(w, e)
      PROVE  /\ \A l \in signed' : l.seq <= Tip'.seq /\ l.prev # Tip'.hash
             /\ \A l, m \in signed' : l # m => l.seq # m.seq /\ l.prev # m.prev
  <2>1. PICK x \in Line :
           /\ x.event = e /\ x.seq = chain.seq + 1 /\ x.prev = chain.hash
           /\ x.hash = e
           /\ chain'.seq = x.seq /\ chain'.hash = x.hash
           /\ signed' = signed \cup {x} /\ e \notin EventsOf(signed)
    BY <1>4, SignFacts
  <2>2. Tip = chain /\ Tip' = chain'
    BY <1>4 DEF Sign, Tip
  <2>3. e # Genesis /\ \A l \in signed : l.prev # e
    BY <2>1, SealedAssumption DEF Sound, Links
  <2>4. chain.hash # e
    BY <2>1, <2>3 DEF Sound, Links
  <2> QED
    BY <1>2, <2>1, <2>2, <2>3, <2>4
<1>5. CASE \E w \in Workers :
             \/ \E e \in Events : SignFails(w, e)
             \/ Drop(w) \/ Count(w) \/ WriteInner(w) \/ WriteSerialized(w)
  <2>1. UNCHANGED <<signed, chain, saved, owner>>
    BY <1>5 DEF SignFails, Drop, Count, WriteInner, WriteSerialized
  <2> QED
    BY <1>3, <2>1 DEF Tip
<1>6. CASE \/ BeginRotate \/ EndRotate \/ SealFails \/ InnerOpens \/ BeginStop \/ EndStop
           \/ \E anew \in BOOLEAN : Start(anew)
           \/ UNCHANGED sealVars
  <2>1. signed' = signed /\ Tip' = Tip
    BY <1>6 DEF BeginRotate, EndRotate, SealFails, InnerOpens, BeginStop, EndStop, Start, Saves,
                sealVars, Tip
  <2> QED
    BY <1>3, <2>1
<1> QED
  BY <1>1, <1>4, <1>5, <1>6 DEF Next

(***************************************************************************)
(* Without a crash no two events get the same number or predecessor,       *)
(* however workers interleave and however often the sink is restarted.     *)
(***************************************************************************)
THEOREM ChainDoesNotFork == Spec => []NoFork
<1>1. Init => Unforked
  BY DEF Init, Unforked
<1>2. Unforked => NoFork
  BY DEF Unforked, NoFork
<1> QED
  BY <1>1, <1>2, UnforkedStep, AlwaysSound, PTL DEF Spec

-----------------------------------------------------------------------------
(***************************************************************************)
(* An event is at one place on its way: with one worker, or in one line of *)
(* a file; no file has counted it before its worker is past the count.     *)
(***************************************************************************)
Hashed(l) == l.hash \in {None, l.event}

Once(lines) == \A i, j \in DOMAIN lines : lines[i].event = lines[j].event => i = j

Carried(w) == workers[w].line.event

Apart ==
  /\ \A w \in Busy : Hashed(workers[w].line)
  /\ \A v, w \in Busy : Carried(v) = Carried(w) => v = w
  /\ \A w \in Busy, n \in DOMAIN files :
       /\ Carried(w) \notin EventsOf(ToSet(files[n].lines))
       /\ workers[w].at = "signed" => Carried(w) \notin EventsOf(ToSet(files[n].counted))
  /\ \A n \in DOMAIN files :
       Once(files[n].lines) /\ \A l \in ToSet(files[n].lines) : Hashed(l)

(***************************************************************************)
(* The open file counts what its lines and its workers hold.  A manifest   *)
(* says what was counted, and lines written after the seal, which nobody   *)
(* counted, come after the others.                                         *)
(***************************************************************************)
Counting(f) ==
  /\ meta.count = Len(f.counted)
  /\ meta.root \in {None} \cup EventsOf(ToSet(f.counted))
  /\ ToSet(f.lines) \subseteq ToSet(f.counted)
  /\ \A w \in Busy : workers[w].at = "counted" => workers[w].line \in ToSet(f.counted)

Tallied(f) ==
  /\ f.manifest.count = Len(f.counted)
  /\ f.manifest.root \in {None} \cup EventsOf(ToSet(f.counted))
  /\ \A i, j \in DOMAIN f.lines :
       i <= j /\ f.lines[j].event \in EventsOf(ToSet(f.counted))
         => f.lines[i] \in ToSet(f.counted)

Shut(f) ==
  \A w \in Busy : workers[w].at = "counted" => Carried(w) \notin EventsOf(ToSet(f.counted))

Tally ==
  rotates /\ ~bypassed /\ ~raced =>
    /\ \A n \in DOMAIN files : Sealed(files[n]) => Tallied(files[n])
    /\ owner # "stopped" => LET f == files[meta.file]
                            IN  IF Sealed(f) THEN Shut(f) ELSE Counting(f)
    /\ owner = "running" => ~Sealed(files[meta.file])
    /\ owner = "rotating" => \A w \in Busy : workers[w].at # "counted"

\* What rotating_file leaves behind has no manifest.
Unsealed == ~rotates => \A n \in DOMAIN files : ~Sealed(files[n])

LEMMA EventsAppended ==
  ASSUME NEW s \in Seq(Line), NEW l \in Line
  PROVE  EventsOf(ToSet(Append(s, l))) = EventsOf(ToSet(s)) \cup {l.event}
<1> DEFINE t == Append(s, l)
<1>1. ToSet(t) = ToSet(s) \cup {l}
  BY ItemsAppended
<1> HIDE DEF t
<1> QED
  BY <1>1 DEF EventsOf, t

LEMMA LinesOfFiles ==
  ASSUME Sound, NEW n \in DOMAIN files
  PROVE  /\ files[n].lines \in Seq(Line) /\ files[n].counted \in Seq(Line)
         /\ ToSet(files[n].lines) \subseteq Line
  BY TypedParts, FileParts, ItemsAppended DEF Sound, ToSet

LEMMA BusyParts ==
  ASSUME Sound
  PROVE  /\ \A w \in Busy : /\ w \in Workers /\ workers[w].line \in Line
                            /\ workers[w].at \in {"signed", "counted"}
         /\ \A w \in Workers : workers[w].at # "idle" => w \in Busy
         /\ \A w \in Busy : owner # "stopped"
  BY TypedParts DEF Sound, Carries, Busy, WorkerState

LEMMA SignedLine ==
  ASSUME Sound, NEW w \in Workers, NEW e \in Events, Sign(w, e) \/ SignFails(w, e)
  PROVE  \E line \in Line :
           /\ line.event = e /\ Hashed(line)
           /\ Busy' = Busy \cup {w} /\ w \notin Busy
           /\ workers'[w].at = "signed" /\ workers'[w].line = line
           /\ \A v \in Busy : workers'[v] = workers[v] /\ Carried(v) # e
           /\ \A n \in DOMAIN files : /\ e \notin EventsOf(ToSet(files[n].lines))
                                      /\ e \notin EventsOf(ToSet(files[n].counted))
           /\ UNCHANGED <<files, meta, owner, bypassed, raced>>
<1>1. PICK line \in Line :
           /\ line.event = e /\ Hashed(line)
           /\ workers' = [workers EXCEPT ![w] = [at |-> "signed", line |-> line]]
  <2>1. CASE Sign(w, e)
    BY <2>1, SignFacts DEF Hashed
  <2>2. CASE SignFails(w, e)
    BY <2>2, LinesTyped DEF SignFails, Hashed
  <2> QED
    BY <2>1, <2>2
<1>2. /\ workers[w].at = "idle" /\ workers \in [Workers -> WorkerState] /\ e \notin Logged
      /\ UNCHANGED <<files, meta, owner, bypassed, raced>>
  BY TypedParts, WorkerTyped DEF Sign, SignFails, Sound
<1>3. /\ \A v \in Workers : Carried(v) # e
      /\ \A f \in ToSet(files) : /\ e \notin EventsOf(ToSet(f.lines) \cup ToSet(f.counted))
  BY <1>2 DEF Logged, Carried
<1>4. \A n \in DOMAIN files : /\ e \notin EventsOf(ToSet(files[n].lines))
                              /\ e \notin EventsOf(ToSet(files[n].counted))
  BY <1>3 DEF ToSet, EventsOf
<1> DEFINE new == [at |-> "signed", line |-> line]
<1>5. new.at = "signed" /\ new.line = line /\ workers' = [workers EXCEPT ![w] = new]
  BY <1>1
<1> HIDE DEF new
<1>6. workers'[w] = new /\ \A v \in Workers \ {w} : workers'[v] = workers[v]
  BY <1>2, <1>5
<1>7. Busy' = Busy \cup {w} /\ w \notin Busy /\ Busy \subseteq Workers
  BY <1>2, <1>5, <1>6 DEF Busy
<1> QED
  BY <1>1, <1>2, <1>3, <1>4, <1>5, <1>6, <1>7

-----------------------------------------------------------------------------
LEMMA ApartSign ==
  ASSUME Sound, Apart, NEW w \in Workers, NEW e \in Events, Sign(w, e) \/ SignFails(w, e)
  PROVE  Apart'
<1>1. PICK line \in Line :
           /\ line.event = e /\ Hashed(line)
           /\ Busy' = Busy \cup {w} /\ w \notin Busy
           /\ workers'[w].at = "signed" /\ workers'[w].line = line
           /\ \A v \in Busy : workers'[v] = workers[v] /\ Carried(v) # e
           /\ \A n \in DOMAIN files : /\ e \notin EventsOf(ToSet(files[n].lines))
                                      /\ e \notin EventsOf(ToSet(files[n].counted))
           /\ UNCHANGED <<files, meta, owner, bypassed, raced>>
  BY SignedLine
<1>2. /\ \A v \in Busy : Carried(v)' = Carried(v)
      /\ Carried(w)' = e /\ files' = files
  BY <1>1 DEF Carried
<1>3. \A v \in Busy' : Hashed(workers'[v].line)
  BY <1>1 DEF Apart
<1>4. \A u, v \in Busy' : Carried(u)' = Carried(v)' => u = v
  BY <1>1, <1>2 DEF Apart
<1>5. \A v \in Busy', n \in DOMAIN files' :
        /\ Carried(v)' \notin EventsOf(ToSet(files'[n].lines))
        /\ workers'[v].at = "signed" => Carried(v)' \notin EventsOf(ToSet(files'[n].counted))
  BY <1>1, <1>2 DEF Apart
<1>6. \A n \in DOMAIN files' :
        Once(files'[n].lines) /\ \A l \in ToSet(files'[n].lines) : Hashed(l)
  BY <1>2 DEF Apart
<1> QED
  BY <1>3, <1>4, <1>5, <1>6 DEF Apart, Hashed

\* Workers go on or lose what they carry; files keep their lines or are new.
LEMMA ApartKept ==
  ASSUME Apart,
         \A w \in Busy' : /\ w \in Busy /\ workers'[w].line = workers[w].line
                          /\ workers'[w].at = "signed" => workers[w].at = "signed",
         \A n \in DOMAIN files' :
           \/ n \in DOMAIN files /\ files'[n].lines = files[n].lines
                                 /\ files'[n].counted = files[n].counted
           \/ files'[n].lines = <<>> /\ files'[n].counted = <<>>
  PROVE  Apart'
<1>1. ToSet(<<>>) = {} /\ EventsOf({}) = {} /\ Once(<<>>)
  BY DEF ToSet, EventsOf, Once
<1>2. \A w \in Busy' : Carried(w)' = Carried(w)
  BY DEF Carried
<1>3. \A w \in Busy', n \in DOMAIN files' :
        /\ Carried(w)' \notin EventsOf(ToSet(files'[n].lines))
        /\ workers'[w].at = "signed" => Carried(w)' \notin EventsOf(ToSet(files'[n].counted))
  BY <1>1, <1>2 DEF Apart
<1>4. \A n \in DOMAIN files' :
        Once(files'[n].lines) /\ \A l \in ToSet(files'[n].lines) : Hashed(l)
  BY <1>1 DEF Apart
<1>5. \A v \in Busy' : Hashed(workers'[v].line)
  BY DEF Apart
<1>6. \A u, v \in Busy' : Carried(u)' = Carried(v)' => u = v
  BY <1>2 DEF Apart
<1> QED
  BY <1>3, <1>4, <1>5, <1>6 DEF Apart, Hashed

LEMMA ApartWrite ==
  ASSUME Sound, Apart, NEW w \in Workers, WriteInner(w) \/ WriteSerialized(w)
  PROVE  Apart'
<1> DEFINE n == Len(files)
           x == workers[w].line
           s == files[n].lines
<1>1. /\ workers[w].at # "idle" /\ x \in Line /\ n \in DOMAIN files
      /\ DOMAIN files' = DOMAIN files
      /\ \A k \in DOMAIN files : k # n => files'[k] = files[k]
      /\ files'[n].lines = Append(s, x) /\ files'[n].counted = files[n].counted
      /\ workers' = [workers EXCEPT ![w] = Idle]
  BY WriteFacts
<1>2. w \in Busy /\ s \in Seq(Line)
  BY <1>1, BusyParts, LinesOfFiles
<1>3. \A v \in Busy' : v \in Busy /\ v # w /\ workers'[v] = workers[v]
  BY <1>1, TypedParts, WorkerTyped DEF Busy, Sound
<1>4. \A v \in Busy' : Carried(v)' = Carried(v) /\ Carried(v) # x.event
  BY <1>2, <1>3 DEF Carried, Apart
<1> HIDE DEF n, x, s
<1>5. /\ EventsOf(ToSet(Append(s, x))) = EventsOf(ToSet(s)) \cup {x.event}
      /\ ToSet(Append(s, x)) = ToSet(s) \cup {x}
  BY <1>1, <1>2, EventsAppended, ItemsAppended
<1>6. Hashed(x) /\ x.event \notin EventsOf(ToSet(s))
  BY <1>1, <1>2 DEF Apart, Carried, x, s
<1>7. ASSUME NEW v \in Busy', NEW k \in DOMAIN files'
      PROVE  /\ Carried(v)' \notin EventsOf(ToSet(files'[k].lines))
             /\ workers'[v].at = "signed" => Carried(v)' \notin EventsOf(ToSet(files'[k].counted))
  <2>1. /\ k \in DOMAIN files /\ v \in Busy /\ workers'[v] = workers[v]
        /\ Carried(v)' = Carried(v) /\ Carried(v) # x.event
    BY <1>1, <1>3, <1>4
  <2>2. /\ Carried(v) \notin EventsOf(ToSet(files[k].lines))
        /\ workers[v].at = "signed" => Carried(v) \notin EventsOf(ToSet(files[k].counted))
    BY <2>1 DEF Apart
  <2>3. CASE k = n
    <3>1. files'[k].lines = Append(s, x) /\ files'[k].counted = files[k].counted
          /\ s = files[k].lines
      BY <1>1, <2>3 DEF s
    <3> QED
      BY <1>5, <2>1, <2>2, <3>1
  <2>4. CASE k # n
    BY <1>1, <2>1, <2>2, <2>4
  <2> QED
    BY <2>3, <2>4
<1>8. Once(Append(s, x))
  <2>1. Once(s)
    BY <1>1 DEF Apart, s
  <2>2. \A i \in DOMAIN s : s[i].event # x.event
    BY <1>6 DEF EventsOf, ToSet
  <2>3. PICK t : t = Append(s, x)
    OBVIOUS
  <2>4. /\ DOMAIN s = 1 .. Len(s) /\ DOMAIN t = 1 .. Len(s) + 1 /\ Len(s) \in Nat
        /\ \A i \in 1 .. Len(s) : t[i] = s[i]
        /\ t[Len(s) + 1] = x
    <3>1. s \in Seq(Line) /\ x \in Line
      BY <1>1, <1>2
    <3> QED
      BY <2>3, <3>1
  <2>5. \A i \in DOMAIN t : (i \in DOMAIN s /\ t[i] = s[i]) \/ (i = Len(s) + 1 /\ t[i] = x)
    BY <2>4
  <2>6. Once(t)
    BY <2>1, <2>2, <2>5 DEF Once
  <2> QED
    BY <2>3, <2>6
<1>9. \A k \in DOMAIN files' :
        Once(files'[k].lines) /\ \A l \in ToSet(files'[k].lines) : Hashed(l)
  BY <1>1, <1>5, <1>6, <1>8 DEF Apart, s
<1>10. \A v \in Busy' : Hashed(workers'[v].line)
  BY <1>3 DEF Apart
<1>11. \A u, v \in Busy' : Carried(u)' = Carried(v)' => u = v
  BY <1>3, <1>4 DEF Apart
<1> QED
  BY <1>7, <1>9, <1>10, <1>11 DEF Apart, Hashed

\* What counting leaves alone, and what it does to the open file.
LEMMA CountedFile ==
  ASSUME Sound, NEW w \in Workers, Count(w)
  PROVE  LET n == meta.file
             x == workers[w].line
         IN  /\ w \in Busy /\ workers[w].at = "signed" /\ x \in Line /\ n \in DOMAIN files
             /\ Busy' = Busy
             /\ \A v \in Busy : v # w => workers'[v] = workers[v]
             /\ workers'[w].at = "counted" /\ workers'[w].line = x
             /\ Sealed(files[n]) => files' = files
             /\ ~Sealed(files[n]) =>
                  /\ ToSet(files'[n].counted) = ToSet(files[n].counted) \cup {x}
                  /\ EventsOf(ToSet(files'[n].counted))
                       = EventsOf(ToSet(files[n].counted)) \cup {x.event}
                  /\ Len(files'[n].counted) = Len(files[n].counted) + 1
<1> DEFINE n == meta.file
           x == workers[w].line
           c == files[n].counted
<1>1. /\ workers[w].at = "signed" /\ x \in Line /\ n \in DOMAIN files
      /\ workers' = [workers EXCEPT ![w].at = "counted"]
      /\ Sealed(files[n]) => files' = files
      /\ ~Sealed(files[n]) => files'[n].counted = Append(c, x)
  BY CountFacts
<1>2. c \in Seq(Line) /\ workers \in [Workers -> WorkerState]
  BY <1>1, LinesOfFiles, TypedParts DEF Sound
<1>3. /\ workers'[w] = [workers[w] EXCEPT !.at = "counted"]
      /\ \A v \in Workers : v # w => workers'[v] = workers[v]
  BY <1>1, <1>2
<1>4. workers'[w].at = "counted" /\ workers'[w].line = x
  BY <1>2, <1>3, WorkerTyped
<1>5. Busy' = Busy /\ w \in Busy /\ Busy \subseteq Workers
  BY <1>1, <1>3, <1>4 DEF Busy
<1> HIDE DEF n, x, c
<1>6. /\ EventsOf(ToSet(Append(c, x))) = EventsOf(ToSet(c)) \cup {x.event}
      /\ ToSet(Append(c, x)) = ToSet(c) \cup {x}
      /\ Len(Append(c, x)) = Len(c) + 1
  BY <1>1, <1>2, EventsAppended, ItemsAppended
<1> QED
  BY <1>1, <1>3, <1>4, <1>5, <1>6 DEF n, x, c

LEMMA ApartCount ==
  ASSUME Sound, Apart, NEW w \in Workers, Count(w)
  PROVE  Apart'
<1> DEFINE n == meta.file
           x == workers[w].line
<1>1. /\ DOMAIN files' = DOMAIN files
      /\ \A k \in DOMAIN files : k # n => files'[k] = files[k]
      /\ ~Sealed(files[n]) => files'[n].lines = files[n].lines
  BY CountFacts
<1>2. /\ w \in Busy /\ workers[w].at = "signed" /\ x \in Line /\ n \in DOMAIN files
      /\ Busy' = Busy
      /\ \A v \in Busy : v # w => workers'[v] = workers[v]
      /\ workers'[w].at = "counted" /\ workers'[w].line = x
      /\ Sealed(files[n]) => files' = files
      /\ ~Sealed(files[n]) =>
           EventsOf(ToSet(files'[n].counted))
             = EventsOf(ToSet(files[n].counted)) \cup {x.event}
  BY CountedFile
<1>3. \A v \in Busy : Carried(v)' = Carried(v)
  BY <1>2 DEF Carried
<1>4. \A k \in DOMAIN files : files'[k].lines = files[k].lines
  BY <1>1, <1>2
<1>5. \A v \in Busy, k \in DOMAIN files :
        workers'[v].at = "signed" =>
          /\ workers[v].at = "signed" /\ v # w
          /\ Carried(v) \notin EventsOf(ToSet(files'[k].counted))
  <2> SUFFICES ASSUME NEW v \in Busy, NEW k \in DOMAIN files, workers'[v].at = "signed"
               PROVE  /\ workers[v].at = "signed" /\ v # w
                      /\ Carried(v) \notin EventsOf(ToSet(files'[k].counted))
    OBVIOUS
  <2>1. v # w /\ workers[v].at = "signed"
    BY <1>2
  <2>2. Carried(v) # x.event /\ Carried(v) \notin EventsOf(ToSet(files[k].counted))
    BY <1>2, <2>1 DEF Apart, Carried
  <2> QED
    BY <1>1, <1>2, <2>1, <2>2
<1>6. \A v \in Busy', k \in DOMAIN files' :
        /\ Carried(v)' \notin EventsOf(ToSet(files'[k].lines))
        /\ workers'[v].at = "signed" => Carried(v)' \notin EventsOf(ToSet(files'[k].counted))
  BY <1>1, <1>2, <1>3, <1>4, <1>5 DEF Apart
<1>7. \A k \in DOMAIN files' :
        Once(files'[k].lines) /\ \A l \in ToSet(files'[k].lines) : Hashed(l)
  BY <1>1, <1>4 DEF Apart
<1>8. \A v \in Busy' : Hashed(workers'[v].line)
  BY <1>2 DEF Apart
<1>9. \A u, v \in Busy' : Carried(u)' = Carried(v)' => u = v
  BY <1>2, <1>3 DEF Apart
<1> QED
  BY <1>6, <1>7, <1>8, <1>9 DEF Apart, Hashed

LEMMA ApartStep == Sound /\ Apart /\ [Next]_sealVars => Apart'
<1> SUFFICES ASSUME Sound, Apart, [Next]_sealVars PROVE Apart'
  OBVIOUS
<1>1. ASSUME NEW w \in Workers, NEW e \in Events, Sign(w, e) \/ SignFails(w, e) PROVE Apart'
  BY <1>1, ApartSign
<1>2. ASSUME NEW w \in Workers, WriteInner(w) \/ WriteSerialized(w) PROVE Apart'
  BY <1>2, ApartWrite
<1>3. ASSUME NEW w \in Workers, Count(w) PROVE Apart'
  BY <1>3, ApartCount
<1>4. ASSUME NEW w \in Workers, Drop(w) PROVE Apart'
  <2>1. workers' = [workers EXCEPT ![w] = Idle] /\ files' = files
    BY <1>4 DEF Drop
  <2>2. \A v \in Busy' : v \in Busy /\ workers'[v] = workers[v]
    BY <2>1, TypedParts, WorkerTyped DEF Busy, Sound
  <2> QED
    BY <2>1, <2>2, ApartKept
<1>5. CASE BeginRotate \/ BeginStop
  <2>1. /\ workers' = workers /\ owner # "stopped"
        /\ EmitManifest \/ files' = files
    BY <1>5 DEF BeginRotate, BeginStop
  <2>2. \A n \in DOMAIN files' :
          /\ n \in DOMAIN files /\ files'[n].lines = files[n].lines
          /\ files'[n].counted = files[n].counted
    <3>1. CASE EmitManifest /\ rotates
      BY <2>1, <3>1, SealFacts
    <3>2. CASE EmitManifest /\ ~rotates
      BY <3>2, SealNothing
    <3> QED
      BY <2>1, <3>1, <3>2
  <2>3. Busy' = Busy
    BY <2>1 DEF Busy
  <2> QED
    BY <2>1, <2>2, <2>3, ApartKept
<1>6. CASE EndRotate \/ InnerOpens \/ \E anew \in BOOLEAN : Start(anew)
  <2>1. workers' = workers /\ files' \in {files, Append(files, EmptyFile)}
    BY <1>6 DEF EndRotate, InnerOpens, Start
  <2>2. /\ EmptyFile.lines = <<>> /\ EmptyFile.counted = <<>> /\ EmptyFile \in FileState
        /\ files \in Seq(FileState)
    BY FileEmpty, TypedParts DEF Sound
  <2>3. \A n \in DOMAIN files' :
          \/ n \in DOMAIN files /\ files'[n] = files[n]
          \/ files'[n] = EmptyFile
    BY <2>1, <2>2
  <2>4. Busy' = Busy
    BY <2>1 DEF Busy
  <2> QED
    BY <2>1, <2>2, <2>3, <2>4, ApartKept
<1>7. CASE SealFails \/ EndStop \/ Crash \/ UNCHANGED sealVars
  <2>1. files' = files /\ workers' \in {workers, [w \in Workers |-> Idle]}
    BY <1>7 DEF SealFails, EndStop, Crash, sealVars
  <2>2. \A v \in Busy' : v \in Busy /\ workers'[v] = workers[v]
    BY <2>1, WorkerTyped DEF Busy
  <2> QED
    BY <2>1, <2>2, ApartKept
<1> QED
  BY <1>1, <1>2, <1>3, <1>4, <1>5, <1>6, <1>7 DEF Next

-----------------------------------------------------------------------------
\* The tally after a step, in terms of the open file.
LEMMA TallyMade ==
  ASSUME \A n \in DOMAIN files' : Sealed(files'[n]) => Tallied(files'[n]),
         NEW f, f = files'[meta'.file],
         owner' # "stopped" /\ Sealed(f) =>
           \A w \in Busy' : workers'[w].at = "counted" =>
             workers'[w].line.event \notin EventsOf(ToSet(f.counted)),
         owner' # "stopped" /\ ~Sealed(f) =>
           /\ meta'.count = Len(f.counted)
           /\ meta'.root \in {None} \cup EventsOf(ToSet(f.counted))
           /\ ToSet(f.lines) \subseteq ToSet(f.counted)
           /\ \A w \in Busy' : workers'[w].at = "counted" =>
                workers'[w].line \in ToSet(f.counted),
         owner' = "running" => ~Sealed(f),
         owner' = "rotating" => \A w \in Busy' : workers'[w].at # "counted"
  PROVE  Tally'
  BY DEF Tally, Tallied, Sealed, Shut, Counting, Carried

LEMMA TallyParts ==
  ASSUME Tally, rotates, ~bypassed, ~raced, NEW f, f = files[meta.file]
  PROVE  /\ \A n \in DOMAIN files : Sealed(files[n]) => Tallied(files[n])
         /\ owner # "stopped" /\ Sealed(f) =>
              \A w \in Busy : workers[w].at = "counted" =>
                workers[w].line.event \notin EventsOf(ToSet(f.counted))
         /\ owner # "stopped" /\ ~Sealed(f) =>
              /\ meta.count = Len(f.counted)
              /\ meta.root \in {None} \cup EventsOf(ToSet(f.counted))
              /\ ToSet(f.lines) \subseteq ToSet(f.counted)
              /\ \A w \in Busy : workers[w].at = "counted" =>
                   workers[w].line \in ToSet(f.counted)
         /\ owner = "running" => ~Sealed(f)
         /\ owner = "rotating" => \A w \in Busy : workers[w].at # "counted"
  BY DEF Tally, Shut, Counting, Carried

LEMMA TallyOff == ASSUME bypassed' \/ raced' PROVE Tally'
  BY DEF Tally

\* The files stay as they are, and no worker comes past the count.
LEMMA TallyKept ==
  ASSUME Tally, rotates, UNCHANGED <<files, meta, bypassed, raced>>, owner' \in {owner, "stopped"},
         \A w \in Busy' : workers'[w].at = "counted" => w \in Busy /\ workers'[w] = workers[w]
  PROVE  Tally'
<1> SUFFICES ASSUME ~bypassed', ~raced' PROVE Tally'
  BY TallyOff
<1>1. PICK f : f = files[meta.file]
  OBVIOUS
<1>2. f = files'[meta'.file] /\ files' = files /\ meta' = meta
  BY <1>1
<1> QED
  BY <1>1, <1>2, TallyParts, TallyMade

LEMMA TallyWrite ==
  ASSUME Sound, Tally, rotates, NEW w \in Workers, WriteInner(w)
  PROVE  Tally'
<1> SUFFICES ASSUME ~bypassed', ~raced' PROVE Tally'
  BY TallyOff
<1>1. PICK f : f = files[meta.file]
  OBVIOUS
<1> DEFINE n == Len(files)
           x == workers[w].line
<1>2. /\ owner # "stopped" /\ x \in Line /\ n \in DOMAIN files
      /\ DOMAIN files' = DOMAIN files
      /\ \A k \in DOMAIN files : k # n => files'[k] = files[k]
      /\ files'[n].lines = Append(f.lines, x) /\ files'[n].counted = f.counted
      /\ files'[n].manifest = f.manifest
      /\ workers' = [workers EXCEPT ![w] = Idle]
      /\ UNCHANGED <<owner, meta, bypassed, raced>>
      /\ n = meta.file /\ f = files[n] /\ workers[w].at = "counted" /\ w \in Busy
  <2>1. n = meta.file /\ workers[w].at = "counted" /\ w \in Busy
        /\ bypassed' = bypassed
    BY BusyParts DEF Sound, TypeOK, WriteInner
  <2> QED
    BY <1>1, <2>1, WriteFacts
<1>3. f.lines \in Seq(Line)
  BY <1>2, LinesOfFiles
<1>4. \A v \in Busy' : v \in Busy /\ v # w /\ workers'[v] = workers[v]
  BY <1>2, TypedParts, WorkerTyped DEF Busy, Sound
<1>5. PICK g : g = files'[n]
  OBVIOUS
<1>6. Sealed(g) <=> Sealed(f)
  BY <1>2, <1>5 DEF Sealed
<1> HIDE DEF n, x
<1>7. /\ \A k \in DOMAIN files : Sealed(files[k]) => Tallied(files[k])
      /\ Sealed(f) =>
           \A v \in Busy : workers[v].at = "counted" =>
             workers[v].line.event \notin EventsOf(ToSet(f.counted))
      /\ ~Sealed(f) =>
           /\ meta.count = Len(f.counted)
           /\ meta.root \in {None} \cup EventsOf(ToSet(f.counted))
           /\ ToSet(f.lines) \subseteq ToSet(f.counted)
           /\ \A v \in Busy : workers[v].at = "counted" =>
                workers[v].line \in ToSet(f.counted)
      /\ owner = "running" => ~Sealed(f)
      /\ owner = "rotating" => \A v \in Busy : workers[v].at # "counted"
  <2>1. ~bypassed /\ ~raced /\ owner # "stopped" /\ f = files[meta.file]
    BY <1>1, <1>2
  <2> QED
    BY <2>1, TallyParts
<1>8. ToSet(g.lines) = ToSet(f.lines) \cup {x}
  <2>1. g.lines = Append(f.lines, x) /\ x \in Line
    BY <1>2, <1>5
  <2>2. ToSet(Append(f.lines, x)) = ToSet(f.lines) \cup {x}
    BY <1>3, <2>1, ItemsAppended
  <2> QED
    BY <2>1, <2>2
<1>9. Sealed(g) => Tallied(g)
  <2> SUFFICES ASSUME Sealed(f) PROVE Tallied(g)
    BY <1>6
  <2>1. Tallied(f) /\ x.event \notin EventsOf(ToSet(f.counted))
    BY <1>2, <1>7 DEF x
  <2>2. /\ DOMAIN f.lines = 1 .. Len(f.lines) /\ DOMAIN g.lines = 1 .. Len(f.lines) + 1
        /\ Len(f.lines) \in Nat
        /\ \A i \in 1 .. Len(f.lines) : g.lines[i] = f.lines[i]
        /\ g.lines[Len(f.lines) + 1] = x
    BY <1>2, <1>3, <1>5
  <2>3. ASSUME NEW i \in DOMAIN g.lines, NEW j \in DOMAIN g.lines, i <= j,
               g.lines[j].event \in EventsOf(ToSet(f.counted))
        PROVE  g.lines[i] \in ToSet(f.counted)
    <3>1. j # Len(f.lines) + 1
      BY <2>1, <2>2, <2>3
    <3>2. i \in DOMAIN f.lines /\ j \in DOMAIN f.lines
      BY <2>2, <2>3, <3>1
    <3> QED
      BY <2>1, <2>2, <2>3, <3>2 DEF Tallied
  <2> QED
    BY <1>2, <1>5, <2>1, <2>3 DEF Tallied
<1>10. \A k \in DOMAIN files' : Sealed(files'[k]) => Tallied(files'[k])
  BY <1>2, <1>5, <1>7, <1>9
<1>11. g = files'[meta'.file]
  BY <1>2, <1>5
<1>12. /\ owner' # "stopped" /\ Sealed(g) =>
           \A v \in Busy' : workers'[v].at = "counted" =>
             workers'[v].line.event \notin EventsOf(ToSet(g.counted))
       /\ owner' = "running" => ~Sealed(g)
       /\ owner' = "rotating" => \A v \in Busy' : workers'[v].at # "counted"
  BY <1>2, <1>4, <1>5, <1>6, <1>7
<1>13. owner' # "stopped" /\ ~Sealed(g) =>
           /\ meta'.count = Len(g.counted)
           /\ meta'.root \in {None} \cup EventsOf(ToSet(g.counted))
           /\ ToSet(g.lines) \subseteq ToSet(g.counted)
           /\ \A v \in Busy' : workers'[v].at = "counted" =>
                workers'[v].line \in ToSet(g.counted)
  BY <1>2, <1>4, <1>5, <1>6, <1>7, <1>8 DEF x
<1> QED
  BY <1>10, <1>11, <1>12, <1>13, TallyMade

LEMMA TallyCount ==
  ASSUME Sound, Apart, Tally, rotates, NEW w \in Workers, Count(w)
  PROVE  Tally'
<1> SUFFICES ASSUME ~bypassed', ~raced' PROVE Tally'
  BY TallyOff
<1>1. PICK f : f = files[meta.file]
  OBVIOUS
<1> DEFINE n == meta.file
           x == workers[w].line
<1>2. /\ owner # "stopped" /\ x \in Line /\ n \in DOMAIN files /\ f = files[n]
      /\ meta'.file = n /\ meta'.count = meta.count + 1
      /\ meta'.root = NewRoot(meta.root, x)
      /\ DOMAIN files' = DOMAIN files
      /\ \A k \in DOMAIN files : k # n => files'[k] = files[k]
      /\ ~Sealed(f) => files'[n].lines = f.lines /\ files'[n].manifest = f.manifest
      /\ UNCHANGED <<owner, bypassed, raced>>
  BY <1>1, CountFacts
<1>3. /\ w \in Busy /\ workers[w].at = "signed" /\ Busy' = Busy
      /\ \A v \in Busy : v # w => workers'[v] = workers[v]
      /\ workers'[w].at = "counted" /\ workers'[w].line = x
      /\ Sealed(f) => files' = files
      /\ ~Sealed(f) =>
           /\ ToSet(files'[n].counted) = ToSet(f.counted) \cup {x}
           /\ EventsOf(ToSet(files'[n].counted)) = EventsOf(ToSet(f.counted)) \cup {x.event}
           /\ Len(files'[n].counted) = Len(f.counted) + 1
  BY <1>1, CountedFile
<1>4. Hashed(x) /\ x.event \notin EventsOf(ToSet(f.counted))
  BY <1>2, <1>3 DEF Apart, Carried
<1>5. /\ \A k \in DOMAIN files : Sealed(files[k]) => Tallied(files[k])
      /\ Sealed(f) =>
           \A v \in Busy : workers[v].at = "counted" =>
             workers[v].line.event \notin EventsOf(ToSet(f.counted))
      /\ ~Sealed(f) =>
           /\ meta.count = Len(f.counted)
           /\ meta.root \in {None} \cup EventsOf(ToSet(f.counted))
           /\ ToSet(f.lines) \subseteq ToSet(f.counted)
           /\ \A v \in Busy : workers[v].at = "counted" =>
                workers[v].line \in ToSet(f.counted)
      /\ owner = "running" => ~Sealed(f)
  BY <1>1, <1>2, TallyParts
<1>6. owner' # "rotating"
  BY <1>2 DEF Count
<1> HIDE DEF n, x
<1>7. CASE Sealed(f)
  <2>1. files' = files /\ f = files'[meta'.file]
    BY <1>1, <1>2, <1>3, <1>7
  <2>2. \A v \in Busy' : workers'[v].at = "counted" =>
          workers'[v].line.event \notin EventsOf(ToSet(f.counted))
    BY <1>3, <1>4, <1>5, <1>7
  <2> QED
    BY <1>2, <1>5, <1>6, <1>7, <2>1, <2>2, TallyMade
<1>8. CASE ~Sealed(f)
  <2>1. PICK g : g = files'[n]
    OBVIOUS
  <2>2. ~Sealed(g) /\ g = files'[meta'.file]
    BY <1>2, <1>8, <2>1 DEF Sealed
  <2>3. \A k \in DOMAIN files' : Sealed(files'[k]) => Tallied(files'[k])
    BY <1>2, <1>5, <2>1, <2>2
  <2>4. meta'.root \in {None} \cup EventsOf(ToSet(g.counted))
    BY <1>2, <1>3, <1>4, <1>5, <1>8, <2>1 DEF NewRoot, Hashed
  <2>5. /\ meta'.count = Len(g.counted)
        /\ ToSet(g.lines) \subseteq ToSet(g.counted)
    BY <1>2, <1>3, <1>5, <1>8, <2>1
  <2>6. \A v \in Busy' : workers'[v].at = "counted" => workers'[v].line \in ToSet(g.counted)
    BY <1>3, <1>5, <1>8, <2>1
  <2> QED
    BY <1>6, <2>2, <2>3, <2>4, <2>5, <2>6, TallyMade
<1> QED
  BY <1>7, <1>8

LEMMA TallySeal ==
  ASSUME Sound, Tally, rotates, BeginRotate \/ BeginStop
  PROVE  Tally'
<1> SUFFICES ASSUME ~bypassed', ~raced' PROVE Tally'
  BY TallyOff
<1>1. PICK f : f = files[meta.file]
  OBVIOUS
<1>2. /\ owner = "running" /\ owner' \in {"rotating", "stopping"}
      /\ meta' = meta /\ workers' = workers /\ Busy = {} /\ ~bypassed /\ ~raced
      /\ EmitManifest \/ (owner' = "stopping" /\ files' = files)
  <2>1. ~raced /\ Busy = {}
    BY Zenon DEF BeginRotate, BeginStop
  <2>2. CASE BeginRotate
    BY <2>1, <2>2 DEF BeginRotate
  <2>3. CASE BeginStop
    <3>1. EmitManifest \/ UNCHANGED <<files, lastRoot>>
      BY <2>3, Zenon DEF BeginStop
    <3>2. /\ owner = "running" /\ owner' = "stopping"
          /\ UNCHANGED <<workers, meta, bypassed>>
      BY <2>3, Zenon DEF BeginStop
    <3> QED
      BY <2>1, <3>1, <3>2
  <2> QED
    BY <2>2, <2>3
<1>3. Busy' = {}
  BY <1>2 DEF Busy
<1>4. /\ \A k \in DOMAIN files : Sealed(files[k]) => Tallied(files[k])
      /\ ~Sealed(f)
      /\ meta.count = Len(f.counted)
      /\ meta.root \in {None} \cup EventsOf(ToSet(f.counted))
      /\ ToSet(f.lines) \subseteq ToSet(f.counted)
  BY <1>1, <1>2, TallyParts
<1>5. CASE files' = files
  BY <1>1, <1>2, <1>3, <1>4, <1>5, TallyMade
<1>6. CASE EmitManifest
  <2> DEFINE n == meta.file
  <2>1. /\ n \in DOMAIN files /\ DOMAIN files' = DOMAIN files
        /\ \A k \in DOMAIN files : k # n => files'[k] = files[k]
        /\ files'[n].lines = f.lines /\ files'[n].counted = f.counted
        /\ files'[n].manifest.count = meta.count /\ files'[n].manifest.root = meta.root
        /\ Sealed(files'[n])
    BY <1>1, <1>2, <1>6, SealFacts
  <2>2. Tallied(files'[n])
    <3>1. \A i \in DOMAIN f.lines : f.lines[i] \in ToSet(f.counted)
      BY <1>4 DEF ToSet
    <3> QED
      BY <1>4, <2>1, <3>1 DEF Tallied
  <2>3. \A k \in DOMAIN files' : Sealed(files'[k]) => Tallied(files'[k])
    BY <1>4, <2>1, <2>2
  <2>4. PICK g : g = files'[meta'.file]
    OBVIOUS
  <2>5. Sealed(g)
    BY <1>2, <2>1, <2>4
  <2> QED
    BY <1>2, <1>3, <2>3, <2>4, <2>5, TallyMade
<1> QED
  BY <1>2, <1>5, <1>6

LEMMA TallyOpen ==
  ASSUME Sound, Tally, rotates, EndRotate \/ \E anew \in BOOLEAN : Start(anew)
  PROVE  Tally'
<1> SUFFICES ASSUME ~bypassed', ~raced' PROVE Tally'
  BY TallyOff
<1>1. PICK f : f = files[meta.file]
  OBVIOUS
<1>2. /\ owner' = "running" /\ workers' = workers /\ ~bypassed /\ ~raced
      /\ files' = Append(files, EmptyFile) /\ meta' = NewMeta(Len(files) + 1, lastRoot')
      /\ lastRoot' \in Events \cup {None} /\ Len(files) < MaxFiles
      /\ owner = "rotating" \/ owner = "stopped"
  <2>1. CASE EndRotate
    <3>1. Len(Append(files, EmptyFile)) = Len(files) + 1
      BY TypedParts, FileEmpty DEF Sound
    <3> QED
      BY <2>1, <3>1 DEF EndRotate, Sound, Room, TypeOK
  <2>2. CASE \E anew \in BOOLEAN : Start(anew)
    BY <2>2 DEF Start, Sound, Room, TypeOK
  <2> QED
    BY <2>1, <2>2
<1>3. /\ DOMAIN files' = 1 .. Len(files) + 1 /\ DOMAIN files = 1 .. Len(files)
      /\ \A k \in DOMAIN files : files'[k] = files[k]
      /\ files'[Len(files) + 1] = EmptyFile
      /\ meta'.file = Len(files') /\ Len(files') = Len(files) + 1
      /\ meta'.count = 0 /\ meta'.root = None /\ Len(files) \in Nat
  BY <1>2, OpenFacts, TypedParts DEF Sound
<1>4. /\ EmptyFile.lines = <<>> /\ EmptyFile.counted = <<>> /\ ~Sealed(EmptyFile)
      /\ ToSet(<<>>) = {} /\ Len(<<>>) = 0
  BY FileEmpty DEF Sealed, ToSet
<1>5. \A w \in Busy : workers[w].at # "counted"
  BY <1>1, <1>2, TallyParts, BusyParts
<1>6. \A w \in Busy' : workers'[w].at # "counted"
  BY <1>2, <1>5 DEF Busy
<1>7. \A k \in DOMAIN files : Sealed(files[k]) => Tallied(files[k])
  BY <1>1, <1>2, TallyParts
<1>8. \A k \in DOMAIN files' : Sealed(files'[k]) => Tallied(files'[k])
  BY <1>3, <1>4, <1>7
<1>9. PICK g : g = EmptyFile
  OBVIOUS
<1>10. g = files'[meta'.file]
  BY <1>3, <1>9
<1> QED
  BY <1>2, <1>3, <1>4, <1>6, <1>8, <1>9, <1>10, TallyMade

LEMMA RotatesFixed == ASSUME [Next]_sealVars PROVE rotates' = rotates
  BY DEF Next, Sign, SignFails, Drop, Count, WriteInner, WriteSerialized, BeginRotate, EndRotate,
         SealFails, InnerOpens, BeginStop, EndStop, Crash, Start, sealVars

LEMMA TallyStep == Sound /\ Apart /\ Tally /\ [Next]_sealVars => Tally'
<1> SUFFICES ASSUME Sound, Apart, Tally, [Next]_sealVars, rotates' PROVE Tally'
  BY DEF Tally
<1>r. rotates
  BY RotatesFixed
<1>1. ASSUME NEW w \in Workers, NEW e \in Events, Sign(w, e) \/ SignFails(w, e) PROVE Tally'
  <2>1. /\ UNCHANGED <<files, meta, owner, bypassed, raced>>
        /\ \A v \in Busy' : workers'[v].at = "counted" => v \in Busy /\ workers'[v] = workers[v]
    BY <1>1, SignedLine
  <2> QED
    BY <1>r, <2>1, TallyKept
<1>2. ASSUME NEW w \in Workers, Drop(w) PROVE Tally'
  <2>1. /\ UNCHANGED <<files, meta, owner, bypassed, raced>>
        /\ workers' = [workers EXCEPT ![w] = Idle]
    BY <1>2 DEF Drop
  <2>2. \A v \in Busy' : v \in Busy /\ workers'[v] = workers[v]
    BY <2>1, TypedParts, WorkerTyped DEF Busy, Sound
  <2> QED
    BY <1>r, <2>1, <2>2, TallyKept
<1>3. ASSUME NEW w \in Workers, Count(w) PROVE Tally'
  BY <1>3, <1>r, TallyCount
<1>4. ASSUME NEW w \in Workers, WriteInner(w) PROVE Tally'
  BY <1>4, <1>r, TallyWrite
<1>5. ASSUME NEW w \in Workers, WriteSerialized(w) PROVE Tally'
  BY <1>5, TallyOff DEF WriteSerialized
<1>6. CASE BeginRotate \/ BeginStop
  BY <1>6, <1>r, TallySeal
<1>7. CASE EndRotate \/ \E anew \in BOOLEAN : Start(anew)
  BY <1>7, <1>r, TallyOpen
<1>8. CASE SealFails /\ owner' = "stopping"
  <2> SUFFICES ASSUME ~bypassed', ~raced' PROVE Tally'
    BY TallyOff
  <2>1. PICK f : f = files[meta.file]
    OBVIOUS
  <2>2. /\ owner = "running" /\ UNCHANGED <<files, meta, workers, bypassed, raced>>
        /\ f = files'[meta'.file] /\ Busy' = Busy
    BY <1>8, <2>1 DEF SealFails, Busy
  <2> QED
    BY <1>8, <1>r, <2>1, <2>2, TallyParts, TallyMade
<1>9. CASE (SealFails /\ owner' = owner) \/ EndStop \/ Crash \/ UNCHANGED sealVars
  <2>1. /\ UNCHANGED <<files, meta, bypassed, raced>> /\ owner' \in {owner, "stopped"}
        /\ workers' \in {workers, [w \in Workers |-> Idle]}
    BY <1>9 DEF SealFails, EndStop, Crash, sealVars
  <2>2. \A v \in Busy' : v \in Busy /\ workers'[v] = workers[v]
    BY <2>1, WorkerTyped DEF Busy
  <2> QED
    BY <1>r, <2>1, <2>2, TallyKept
<1> QED
  <2>1. SealFails => owner' \in {owner, "stopping"}
    BY DEF SealFails
  <2>2. ~InnerOpens
    BY <1>r DEF InnerOpens
  <2> QED
    BY <1>1, <1>2, <1>3, <1>4, <1>5, <1>6, <1>7, <1>8, <1>9, <2>1, <2>2 DEF Next

LEMMA UnsealedStep == Sound /\ Unsealed /\ [Next]_sealVars => Unsealed'
<1> SUFFICES ASSUME Sound, Unsealed, [Next]_sealVars, ~rotates'
             PROVE  \A n \in DOMAIN files' : ~Sealed(files'[n])
  BY DEF Unsealed, Sealed
<1>1. ~rotates /\ \A n \in DOMAIN files : ~Sealed(files[n])
  BY RotatesFixed DEF Unsealed
<1>2. files \in Seq(FileState) /\ EmptyFile \in FileState /\ ~Sealed(EmptyFile)
  BY TypedParts, FileEmpty DEF Sound, Sealed
<1>3. CASE files' \in {files, Append(files, EmptyFile)}
  BY <1>1, <1>2, <1>3
<1>4. ASSUME NEW w \in Workers, WriteInner(w) \/ WriteSerialized(w)
      PROVE  \A n \in DOMAIN files' : ~Sealed(files'[n])
  BY <1>1, <1>4, WriteFacts DEF Sealed
<1>5. ASSUME NEW w \in Workers, Count(w)
      PROVE  \A n \in DOMAIN files' : ~Sealed(files'[n])
  BY <1>1, <1>5, CountFacts DEF Sealed
<1>6. CASE BeginRotate \/ BeginStop
  BY <1>1, <1>3, <1>6, SealNothing DEF BeginRotate, BeginStop
<1>7. CASE \/ \E w \in Workers, e \in Events : Sign(w, e) \/ SignFails(w, e)
           \/ \E w \in Workers : Drop(w)
           \/ EndRotate \/ SealFails \/ InnerOpens \/ EndStop \/ Crash
           \/ \E anew \in BOOLEAN : Start(anew)
           \/ UNCHANGED sealVars
  BY <1>1, <1>3, <1>7
     DEF Sign, SignFails, Drop, EndRotate, SealFails, InnerOpens, EndStop, Crash, Start, sealVars
<1> QED
  BY <1>4, <1>5, <1>6, <1>7 DEF Next

-----------------------------------------------------------------------------
LEMMA CountOnce ==
  ASSUME NEW s \in Seq(Line), Once(s)
  PROVE  IsFiniteSet(ToSet(s)) /\ Cardinality(ToSet(s)) = Len(s)
<1>1. Len(s) \in Nat /\ DOMAIN s = 1 .. Len(s)
  OBVIOUS
<1>2. \A i, j \in 1 .. Len(s) : s[i] = s[j] => i = j
  BY <1>1 DEF Once
<1> DEFINE f == [i \in 1 .. Len(s) |-> s[i]]
<1>3. f \in Bijection(1 .. Len(s), ToSet(s))
  BY <1>1, <1>2, Fun_IsBij DEF ToSet
<1>4. IsFiniteSet(1 .. Len(s)) /\ Cardinality(1 .. Len(s)) = Len(s)
  BY <1>1, FS_Interval
<1> HIDE DEF f
<1> QED
  BY <1>3, <1>4, FS_Bijection, Fun_ExistsBij

LEMMA CountAtMost ==
  ASSUME NEW s \in Seq(Line)
  PROVE  IsFiniteSet(ToSet(s)) /\ Cardinality(ToSet(s)) <= Len(s)
<1>1. Len(s) \in Nat /\ DOMAIN s = 1 .. Len(s)
  OBVIOUS
<1> DEFINE f == [i \in 1 .. Len(s) |-> s[i]]
<1>2. f \in Surjection(1 .. Len(s), ToSet(s))
  BY <1>1, Fun_IsSurj DEF ToSet
<1>3. IsFiniteSet(1 .. Len(s)) /\ Cardinality(1 .. Len(s)) = Len(s)
  BY <1>1, FS_Interval
<1> HIDE DEF f
<1> QED
  BY <1>2, <1>3, FS_Surjection

(***************************************************************************)
(* A file that passes ends in a line that was counted - its hash is the    *)
(* root -, so all its lines were; they are as many as were counted, and    *)
(* none is there twice.                                                    *)
(***************************************************************************)
LEMMA WholeFile ==
  ASSUME Sound, Apart, NEW n \in DOMAIN files, Tallied(files[n]), FileVerifies(files[n])
  PROVE  ToSet(files[n].lines) = ToSet(files[n].counted)
<1> DEFINE f == files[n]
           s == f.lines
           c == f.counted
<1>1. s \in Seq(Line) /\ c \in Seq(Line) /\ ToSet(s) \subseteq Line
  BY LinesOfFiles
<1>2. /\ Once(s) /\ \A l \in ToSet(s) : Hashed(l) /\ l.hash # None
      /\ f.manifest.count = Len(s)
      /\ f.manifest.root = IF s = <<>> THEN None ELSE Last(s).hash
      /\ f.manifest.count = Len(c)
      /\ f.manifest.root \in {None} \cup EventsOf(ToSet(c))
      /\ \A i, j \in DOMAIN s :
           i <= j /\ s[j].event \in EventsOf(ToSet(c)) => s[i] \in ToSet(c)
  BY DEF Apart, Tallied, FileVerifies, ManifestVerifies, ChainVerifies
<1> HIDE DEF f, s, c
<1>3. ToSet(s) \subseteq ToSet(c)
  <2>1. CASE s = <<>>
    BY <2>1 DEF ToSet
  <2>2. CASE s # <<>>
    <3>1. /\ Len(s) \in Nat /\ Len(s) >= 1 /\ DOMAIN s = 1 .. Len(s) /\ Last(s) = s[Len(s)]
      BY <1>1, <2>2 DEF Last
    <3>2. Last(s) \in ToSet(s)
      BY <3>1 DEF ToSet
    <3>3. Last(s).event \in EventsOf(ToSet(c))
      BY <1>2, <2>2, <3>2 DEF Hashed
    <3>4. \A i \in DOMAIN s : i <= Len(s) /\ Len(s) \in DOMAIN s
      BY <3>1
    <3> QED
      BY <1>2, <3>1, <3>3, <3>4 DEF ToSet
  <2> QED
    BY <2>1, <2>2
<1>4. /\ Cardinality(ToSet(s)) = Len(s) /\ Cardinality(ToSet(c)) <= Len(s)
      /\ IsFiniteSet(ToSet(c)) /\ IsFiniteSet(ToSet(s)) /\ Len(s) \in Nat
  <2>1. Cardinality(ToSet(s)) = Len(s) /\ IsFiniteSet(ToSet(s)) /\ Len(s) \in Nat
    <3>1. s \in Seq(Line) /\ Once(s)
      BY <1>1, <1>2
    <3>2. Len(s) \in Nat
      BY <1>1
    <3> QED
      BY <3>1, <3>2, CountOnce
  <2>2. Cardinality(ToSet(c)) <= Len(c) /\ IsFiniteSet(ToSet(c))
    BY <1>1, CountAtMost
  <2> QED
    BY <1>2, <2>1, <2>2
<1>5. Cardinality(ToSet(s)) <= Cardinality(ToSet(c)) /\ Cardinality(ToSet(c)) \in Nat
  BY <1>3, <1>4, FS_Subset, FS_CardinalityType
<1>6. ToSet(s) = ToSet(c)
  BY <1>3, <1>4, <1>5, FS_Subset
<1> QED
  BY <1>6 DEF s, c, f

(***************************************************************************)
(* What verifies is whole, for any number of workers, files and faults:    *)
(* lost, reordered or unsigned lines are all found out.                    *)
(***************************************************************************)
THEOREM WhatVerifiesIsWhole == Spec => []VerifiedIsWhole
<1>1. Init => Apart /\ Tally /\ Unsealed
  <2> SUFFICES ASSUME Init PROVE Apart /\ Tally /\ Unsealed
    OBVIOUS
  <2>1. Busy = {} /\ DOMAIN files = {} /\ owner = "stopped"
    BY WorkerTyped DEF Init, Busy
  <2> QED
    BY <2>1 DEF Apart, Tally, Unsealed
<1>2. Sound /\ Apart /\ Tally /\ Unsealed => VerifiedIsWhole
  BY WholeFile DEF Tally, Unsealed, VerifiedIsWhole
<1> QED
  BY <1>1, <1>2, ApartStep, TallyStep, UnsealedStep, AlwaysSound, PTL DEF Spec

-----------------------------------------------------------------------------
(***************************************************************************)
(* As long as nothing has disturbed the log, one event at a time is on its *)
(* way, and each file is settled or, the last one while the sink is open,  *)
(* being filled.  A file continues from the root of the last file before   *)
(* it that has lines.                                                      *)
(***************************************************************************)
Origin(r) == IF r = None THEN Genesis ELSE r

RootOf(lines) == IF lines = <<>> THEN None ELSE Last(lines).hash

Follows(fs, n, r) ==
  \/ r = None /\ \A k \in 1 .. n - 1 : fs[k].lines = <<>>
  \/ \E k \in 1 .. n - 1 :
       /\ fs[k].lines # <<>> /\ fs[k].manifest.root = r
       /\ \A j \in k + 1 .. n - 1 : fs[j].lines = <<>>

Settled(fs, n) ==
  /\ fs[n].counted = fs[n].lines
  /\ IF Sealed(fs[n]) THEN FileVerifies(fs[n]) /\ Follows(fs, n, fs[n].manifest.from)
     ELSE fs[n].lines = <<>>

\* A line with this number and this link is the next one after those counted.
Fits(counted, r, seq, prev) ==
  IF counted = <<>> THEN prev = Origin(r)
  ELSE seq = Last(counted).seq + 1 /\ prev = Last(counted).hash

Present == files[Len(files)]
PresentCounted == IF owner = "running" THEN Present.counted ELSE <<>>

Alone ==
  /\ \A v, w \in Busy : v = w
  /\ owner \in {"stopping", "stopped"} => Busy = {}
  /\ \A w \in Workers : workers[w].at = "counted" => owner = "running"

\* What the current file has, but for the line that is counted and not written.
Filling ==
  /\ ~Sealed(Present) /\ meta.from = lastRoot
  /\ meta.count = Len(Present.counted) /\ meta.root = RootOf(Present.counted)
  /\ ChainVerifies(Present.counted, Origin(lastRoot))
  /\ (\A w \in Workers : workers[w].at # "counted") => Present.counted = Present.lines
  /\ \A w \in Workers :
       workers[w].at = "counted" => Present.counted = Append(Present.lines, workers[w].line)

\* Where the chain goes on: from its tip or from the line just signed.
Heading ==
  /\ (\A w \in Workers : workers[w].at # "signed") =>
       Fits(PresentCounted, lastRoot, Tip.seq + 1, Tip.hash)
  /\ \A w \in Workers :
       workers[w].at = "signed" =>
         /\ Fits(PresentCounted, lastRoot, workers[w].line.seq, workers[w].line.prev)
         /\ workers[w].line.hash # None
         /\ chain.seq = workers[w].line.seq /\ chain.hash = workers[w].line.hash
  /\ chain.seq = 0 => chain.hash = Genesis
  /\ saved.seq = 0 => saved.hash = Genesis

Calm ==
  /\ Alone /\ Heading
  /\ \A n \in DOMAIN files : n < Len(files) \/ owner # "running" => Settled(files, n)
  /\ owner = "running" => Filling /\ Follows(files, Len(files), lastRoot)
  /\ owner # "running" => Follows(files, Len(files) + 1, lastRoot)

Undisturbed == ~disturbed /\ rotates => Calm

LEMMA FollowsKept ==
  ASSUME NEW fs, NEW gs, NEW n \in Nat, NEW r, Follows(fs, n, r),
         \A k \in 1 .. n - 1 : gs[k].lines = fs[k].lines /\ gs[k].manifest = fs[k].manifest
  PROVE  Follows(gs, n, r)
<1>1. CASE r = None /\ \A k \in 1 .. n - 1 : fs[k].lines = <<>>
  BY <1>1 DEF Follows
<1>2. ASSUME NEW k \in 1 .. n - 1, fs[k].lines # <<>>, fs[k].manifest.root = r,
             \A j \in k + 1 .. n - 1 : fs[j].lines = <<>>
      PROVE  Follows(gs, n, r)
  <2>1. \A j \in k + 1 .. n - 1 : gs[j].lines = <<>>
    <3>1. \A j \in k + 1 .. n - 1 : j \in 1 .. n - 1
      OBVIOUS
    <3> QED
      BY <1>2, <3>1
  <2>2. gs[k].lines # <<>> /\ gs[k].manifest.root = r
    BY <1>2
  <2> QED
    BY <2>1, <2>2 DEF Follows
<1> QED
  BY <1>1, <1>2 DEF Follows

LEMMA FollowsOn ==
  ASSUME NEW fs, NEW n \in Nat \ {0}, NEW r
  PROVE  /\ Follows(fs, n, r) /\ fs[n].lines = <<>> => Follows(fs, n + 1, r)
         /\ fs[n].lines # <<>> /\ fs[n].manifest.root = r => Follows(fs, n + 1, r)
<1>1. \A j \in 1 .. n + 1 - 1 : j \in 1 .. n - 1 \/ j = n
  OBVIOUS
<1>2. ASSUME Follows(fs, n, r), fs[n].lines = <<>> PROVE Follows(fs, n + 1, r)
  <2>1. CASE r = None /\ \A k \in 1 .. n - 1 : fs[k].lines = <<>>
    <3>1. \A k \in 1 .. n + 1 - 1 : fs[k].lines = <<>>
      BY <1>1, <1>2, <2>1
    <3> QED
      BY <2>1, <3>1 DEF Follows
  <2>2. ASSUME NEW k \in 1 .. n - 1, fs[k].lines # <<>>, fs[k].manifest.root = r,
               \A j \in k + 1 .. n - 1 : fs[j].lines = <<>>
        PROVE  Follows(fs, n + 1, r)
    <3>1. \A j \in k + 1 .. n + 1 - 1 : fs[j].lines = <<>>
      <4>1. \A j \in k + 1 .. n + 1 - 1 : j \in k + 1 .. n - 1 \/ j = n
        OBVIOUS
      <4> QED
        BY <1>2, <2>2, <4>1
    <3>2. k \in 1 .. n + 1 - 1
      OBVIOUS
    <3> QED
      BY <2>2, <3>1, <3>2 DEF Follows
  <2> QED
    BY <1>2, <2>1, <2>2 DEF Follows
<1>3. ASSUME fs[n].lines # <<>>, fs[n].manifest.root = r PROVE Follows(fs, n + 1, r)
  <2>1. n \in 1 .. n + 1 - 1 /\ \A j \in n + 1 .. n + 1 - 1 : fs[j].lines = <<>>
    OBVIOUS
  <2> QED
    BY <1>3, <2>1 DEF Follows
<1> QED
  BY <1>2, <1>3

LEMMA SettledKept ==
  ASSUME NEW fs, NEW gs, NEW n \in Nat, Settled(fs, n), gs[n] = fs[n],
         \A k \in 1 .. n - 1 : gs[k] = fs[k]
  PROVE  Settled(gs, n)
<1>1. Follows(fs, n, fs[n].manifest.from) => Follows(gs, n, fs[n].manifest.from)
  BY FollowsKept
<1> QED
  BY <1>1 DEF Settled

LEMMA ChainGrows ==
  ASSUME NEW s \in Seq(Line), NEW l \in Line, NEW p, NEW r, p = Origin(r), ChainVerifies(s, p),
         l.hash # None, Fits(s, r, l.seq, l.prev)
  PROVE  /\ ChainVerifies(Append(s, l), p) /\ RootOf(Append(s, l)) = l.hash
         /\ Append(s, l) # <<>> /\ Last(Append(s, l)) = l
<1> DEFINE c == Append(s, l)
<1>1. /\ c \in Seq(Line) /\ Len(c) = Len(s) + 1 /\ Len(s) \in Nat
      /\ DOMAIN c = 1 .. Len(s) + 1 /\ DOMAIN s = 1 .. Len(s)
      /\ c[Len(s) + 1] = l /\ \A i \in 1 .. Len(s) : c[i] = s[i]
  OBVIOUS
<1>2. ToSet(c) = ToSet(s) \cup {l}
  BY ItemsAppended
<1> HIDE DEF c
<1>3. c # <<>> /\ Last(c) = l
  BY <1>1 DEF Last
<1>4. \A k \in ToSet(c) : k.hash # None
  BY <1>2 DEF ChainVerifies
<1>5. ASSUME NEW i \in DOMAIN c
      PROVE  IF i = 1 THEN c[i].prev = p
             ELSE c[i].seq = c[i - 1].seq + 1 /\ c[i].prev = c[i - 1].hash
  <2>1. CASE i = Len(s) + 1 /\ s = <<>>
    BY <1>1, <2>1 DEF Fits
  <2>2. CASE i = Len(s) + 1 /\ s # <<>>
    <3>1. Len(s) >= 1 /\ i # 1 /\ i - 1 = Len(s) /\ Last(s) = s[Len(s)]
      BY <1>1, <2>2 DEF Last
    <3>2. c[i - 1] = Last(s) /\ c[i] = l
      BY <1>1, <2>2, <3>1
    <3> QED
      BY <2>2, <3>1, <3>2 DEF Fits
  <2>3. CASE i # Len(s) + 1
    <3>1. i \in DOMAIN s /\ c[i] = s[i]
      BY <1>1, <2>3
    <3>2. CASE i = 1
      BY <3>1, <3>2 DEF ChainVerifies
    <3>3. CASE i # 1
      <4>1. c[i - 1] = s[i - 1]
        BY <1>1, <3>1, <3>3, i - 1 \in 1 .. Len(s)
      <4> QED
        BY <3>1, <3>3, <4>1 DEF ChainVerifies
    <3> QED
      BY <3>2, <3>3
  <2> QED
    BY <2>1, <2>2, <2>3
<1>6. ChainVerifies(c, p)
  BY <1>4, <1>5 DEF ChainVerifies
<1>7. RootOf(c) = l.hash
  BY <1>3 DEF RootOf
<1> QED
  BY <1>3, <1>6, <1>7 DEF c

LEMMA ChainOfNothing ==
  ASSUME NEW p
  PROVE  /\ ChainVerifies(<<>>, p) /\ RootOf(<<>>) = None /\ Len(<<>>) = 0
         /\ \A r, seq, prev : Fits(<<>>, r, seq, prev) <=> prev = Origin(r)
<1>1. DOMAIN <<>> = {} /\ ToSet(<<>>) = {}
  BY DEF ToSet
<1> QED
  BY <1>1 DEF ChainVerifies, RootOf, Fits

\* The files stay, and so does who has counted a line.
LEMMA FilesCalm ==
  ASSUME Sound, Calm, UNCHANGED <<files, meta, lastRoot>>,
         owner' = owner \/ (owner # "running" /\ owner' # "running"),
         \A w \in Workers : workers'[w].at # "counted" /\ workers[w].at # "counted"
  PROVE  /\ \A n \in DOMAIN files' : n < Len(files') \/ owner' # "running" => Settled(files', n)
         /\ owner' = "running" => Filling' /\ Follows(files', Len(files'), lastRoot')
         /\ owner' # "running" => Follows(files', Len(files') + 1, lastRoot')
<1>1. Present' = Present
  BY DEF Present
<1>2. owner = "running" => Filling'
  BY <1>1 DEF Calm, Filling
<1> QED
  BY <1>2 DEF Calm

LEMMA CalmSign ==
  ASSUME Sound, Calm, NEW w \in Workers, NEW e \in Events, Sign(w, e), ~disturbed'
  PROVE  Calm'
<1>1. PICK line \in Line :
        /\ line.seq = chain.seq + 1 /\ line.prev = chain.hash /\ line.hash = e
        /\ chain'.seq = line.seq /\ chain'.hash = line.hash
        /\ workers' = [workers EXCEPT ![w] = [at |-> "signed", line |-> line]]
  BY SignFacts
<1>2. /\ Busy = {} /\ owner \notin {"stopping", "stopped"}
      /\ UNCHANGED <<saved, owner, meta, lastRoot, files>>
  BY DEF Sign
<1>3. \A v \in Workers : workers[v].at = "idle"
  BY <1>2 DEF Busy
<1> DEFINE new == [at |-> "signed", line |-> line]
<1>4. new.at = "signed" /\ new.line = line /\ workers' = [workers EXCEPT ![w] = new]
  BY <1>1
<1> HIDE DEF new
<1>5. /\ workers'[w].at = "signed" /\ workers'[w].line = line
      /\ \A v \in Workers : v # w => workers'[v].at = "idle"
  BY <1>3, <1>4, TypedParts DEF Sound
<1>6. Busy' = {w}
  BY <1>5 DEF Busy
<1>7. Alone'
  BY <1>2, <1>5, <1>6 DEF Alone
<1>8. Heading'
  <2>1. PresentCounted' = PresentCounted
    BY <1>2 DEF PresentCounted, Present
  <2>2. Fits(PresentCounted, lastRoot, chain.seq + 1, chain.hash)
    BY <1>2, <1>3 DEF Calm, Heading, Tip
  <2>3. chain.seq \in Nat /\ e # None
    BY TypedParts, SealedAssumption DEF Sound
  <2>4. saved.seq = 0 => saved.hash = Genesis
    BY DEF Calm, Heading
  <2>5. chain'.seq # 0
    BY <1>1, <2>3
  <2>6. Fits(PresentCounted', lastRoot', line.seq, line.prev) /\ line.hash # None
    BY <1>1, <1>2, <2>1, <2>2, <2>3
  <2>7. \A v \in Workers : workers'[v].at = "signed" => v = w
    BY <1>5
  <2> QED
    BY <1>1, <1>2, <1>5, <2>4, <2>5, <2>6, <2>7 DEF Heading
<1>9. \A v \in Workers : workers'[v].at # "counted" /\ workers[v].at # "counted"
  <2> SUFFICES ASSUME NEW v \in Workers
               PROVE  workers'[v].at # "counted" /\ workers[v].at # "counted"
    OBVIOUS
  <2> QED
    BY <1>3, <1>5
<1> QED
  BY <1>2, <1>7, <1>8, <1>9, FilesCalm DEF Calm

LEMMA CalmCount ==
  ASSUME Sound, Calm, NEW w \in Workers, Count(w)
  PROVE  Calm'
<1> DEFINE n == Len(files)
           l == workers[w].line
<1>1. /\ workers[w].at = "signed" /\ l \in Line /\ meta.file = n /\ n \in DOMAIN files
      /\ meta'.count = meta.count + 1 /\ meta'.root = NewRoot(meta.root, l)
      /\ files' \in Seq(FileState) /\ Len(files') = n /\ DOMAIN files' = DOMAIN files
      /\ \A k \in DOMAIN files : k # n => files'[k] = files[k]
      /\ ~Sealed(files[n]) =>
           /\ files'[n].lines = files[n].lines
           /\ files'[n].counted = Append(files[n].counted, l)
           /\ files'[n].manifest = files[n].manifest
      /\ workers' = [workers EXCEPT ![w].at = "counted"]
      /\ UNCHANGED <<chain, saved, owner, lastRoot>>
  BY CountFacts
<1>2. w \in Busy /\ \A v \in Busy : v = w
  BY <1>1, BusyParts DEF Calm, Alone
<1>3. owner = "running"
  <2>1. owner \in {"running", "stopping"}
    BY DEF Count
  <2> QED
    BY <1>2, <2>1 DEF Calm, Alone
<1>4. \A v \in Workers : v # w => workers[v].at = "idle"
  BY <1>2 DEF Busy
<1>5. /\ workers'[w].at = "counted" /\ workers'[w].line = l
      /\ \A v \in Workers : v # w => workers'[v].at = "idle"
  BY <1>1, <1>4, TypedParts, WorkerTyped DEF Sound, WorkerState
<1>6. PICK f : f = files[n]
  OBVIOUS
<1>7. PICK g : g = files'[n]
  OBVIOUS
<1>8. /\ Present = f /\ Present' = g /\ ~Sealed(f) /\ f \in FileState
      /\ f.counted = f.lines /\ ChainVerifies(f.counted, Origin(lastRoot))
      /\ meta.count = Len(f.counted) /\ meta.from = lastRoot
      /\ Follows(files, n, lastRoot)
  <2>1. Filling /\ Follows(files, n, lastRoot)
    BY <1>3 DEF Calm
  <2>2. Present = f /\ Present' = g
    BY <1>1, <1>6, <1>7 DEF Present
  <2>3. \A v \in Workers : workers[v].at # "counted"
    BY <1>1, <1>4
  <2> QED
    BY <1>1, <1>6, <2>1, <2>2, <2>3, TypedParts DEF Filling, Sound
<1>9. /\ g.lines = f.lines /\ g.counted = Append(f.counted, l) /\ g.manifest = f.manifest
  BY <1>1, <1>6, <1>7, <1>8
<1>10. /\ Fits(f.counted, lastRoot, l.seq, l.prev) /\ l.hash # None
       /\ chain.seq = l.seq /\ chain.hash = l.hash
  BY <1>1, <1>3, <1>8 DEF Calm, Heading, PresentCounted
<1>11. /\ ChainVerifies(g.counted, Origin(lastRoot)) /\ RootOf(g.counted) = l.hash
       /\ g.counted # <<>> /\ Last(g.counted) = l
       /\ Len(g.counted) = Len(f.counted) + 1
  <2>1. f.counted \in Seq(Line)
    BY <1>8, FileParts
  <2> HIDE DEF l
  <2> QED
    BY <1>1, <1>8, <1>9, <1>10, <2>1, ChainGrows, ItemsAppended
<1> HIDE DEF l
<1>12. meta'.root = l.hash /\ meta'.count = Len(g.counted) /\ meta'.from = meta.from
  <2>1. meta'.from = meta.from
    BY TypedParts DEF Count, Sound, MetaState
  <2> QED
    BY <1>1, <1>8, <1>10, <1>11, <2>1 DEF NewRoot
<1>13. ~Sealed(g)
  BY <1>8, <1>9 DEF Sealed
<1>14. Filling'
  <2>1. \A v \in Workers : workers'[v].at = "counted" => v = w
    BY <1>5
  <2>2. g.counted = Append(g.lines, l)
    BY <1>8, <1>9
  <2> QED
    BY <1>1, <1>5, <1>8, <1>11, <1>12, <1>13, <2>1, <2>2 DEF Filling
<1>15. Alone'
  <2>1. Busy' = {w}
    BY <1>5 DEF Busy
  <2> QED
    BY <1>1, <1>3, <2>1 DEF Alone
<1>16. Heading'
  <2>1. PresentCounted' = g.counted
    BY <1>1, <1>3, <1>8 DEF PresentCounted
  <2>2. Tip' = chain /\ (chain.seq = 0 => chain.hash = Genesis)
        /\ (saved.seq = 0 => saved.hash = Genesis)
    BY <1>1, <1>3 DEF Tip, Calm, Heading
  <2>3. \A v \in Workers : workers'[v].at # "signed"
    BY <1>5
  <2>4. Fits(g.counted, lastRoot, chain.seq + 1, chain.hash)
    BY <1>10, <1>11 DEF Fits
  <2> QED
    BY <1>1, <2>1, <2>2, <2>3, <2>4 DEF Heading
<1>17. \A k \in DOMAIN files' : k < Len(files') => Settled(files', k)
  <2> SUFFICES ASSUME NEW k \in DOMAIN files, k < n PROVE Settled(files', k)
    BY <1>1
  <2>1. n \in Nat /\ DOMAIN files = 1 .. n /\ k \in Nat
    BY TypedParts DEF Sound
  <2>2. \A j \in 1 .. k : files'[j] = files[j]
    BY <1>1, <2>1
  <2>3. Settled(files, k)
    BY DEF Calm
  <2> QED
    BY <2>1, <2>2, <2>3, SettledKept
<1>18. Follows(files', n, lastRoot)
  <2>1. n \in Nat /\ DOMAIN files = 1 .. n
    BY TypedParts DEF Sound
  <2>2. \A k \in 1 .. n - 1 : files'[k] = files[k]
    BY <1>1, <2>1
  <2> HIDE DEF n
  <2> QED
    BY <1>8, <2>1, <2>2, FollowsKept
<1> QED
  BY <1>1, <1>3, <1>14, <1>15, <1>16, <1>17, <1>18 DEF Calm

LEMMA CalmWrite ==
  ASSUME Sound, Calm, NEW w \in Workers, WriteInner(w)
  PROVE  Calm'
<1> DEFINE n == Len(files)
           l == workers[w].line
<1>1. /\ workers[w].at = "counted" /\ l \in Line /\ n \in DOMAIN files
      /\ files' \in Seq(FileState) /\ Len(files') = n /\ DOMAIN files' = DOMAIN files
      /\ \A k \in DOMAIN files : k # n => files'[k] = files[k]
      /\ files'[n].lines = Append(files[n].lines, l)
      /\ files'[n].counted = files[n].counted /\ files'[n].manifest = files[n].manifest
      /\ workers' = [workers EXCEPT ![w] = Idle]
      /\ UNCHANGED <<chain, saved, owner, meta, lastRoot>>
  BY WriteFacts DEF WriteInner
<1>2. owner = "running" /\ w \in Busy /\ \A v \in Busy : v = w
  BY <1>1, BusyParts DEF Calm, Alone
<1>3. \A v \in Workers : v # w => workers[v].at = "idle"
  BY <1>2 DEF Busy
<1>4. \A v \in Workers : workers'[v].at = "idle"
  BY <1>1, <1>3, TypedParts, WorkerTyped DEF Sound
<1>5. PICK f : f = files[n]
  OBVIOUS
<1>6. PICK g : g = files'[n]
  OBVIOUS
<1>7. Present = f /\ Present' = g /\ Filling /\ Follows(files, n, lastRoot)
  BY <1>1, <1>2, <1>5, <1>6 DEF Present, Calm
<1>8. g.counted = f.counted /\ g.manifest = f.manifest /\ g.lines = f.counted
  <2>1. f.counted = Append(f.lines, l)
    BY <1>1, <1>7 DEF Filling
  <2> QED
    BY <1>1, <1>5, <1>6, <2>1
<1>9. Filling'
  <2>1. ~Sealed(g)
    BY <1>7, <1>8 DEF Filling, Sealed
  <2>2. /\ meta.from = lastRoot /\ meta.count = Len(g.counted) /\ meta.root = RootOf(g.counted)
        /\ ChainVerifies(g.counted, Origin(lastRoot)) /\ g.counted = g.lines
    BY <1>7, <1>8 DEF Filling
  <2>3. \A v \in Workers : workers'[v].at # "counted"
    BY <1>4
  <2> QED
    BY <1>1, <1>7, <2>1, <2>2, <2>3 DEF Filling
<1>10. Alone'
  <2>1. Busy' = {}
    BY <1>4 DEF Busy
  <2> QED
    BY <1>4, <2>1 DEF Alone
<1>11. Heading'
  <2>1. PresentCounted' = PresentCounted /\ Tip' = Tip
    BY <1>1, <1>2, <1>7, <1>8 DEF PresentCounted, Tip
  <2>2. \A v \in Workers : workers[v].at # "signed" /\ workers'[v].at # "signed"
    <3> SUFFICES ASSUME NEW v \in Workers
                 PROVE  workers[v].at # "signed" /\ workers'[v].at # "signed"
      OBVIOUS
    <3> QED
      BY <1>1, <1>3, <1>4
  <2> QED
    BY <1>1, <2>1, <2>2 DEF Heading, Calm
<1>12. \A k \in DOMAIN files' : k < Len(files') => Settled(files', k)
  <2> SUFFICES ASSUME NEW k \in DOMAIN files, k < n PROVE Settled(files', k)
    BY <1>1
  <2>1. n \in Nat /\ DOMAIN files = 1 .. n /\ k \in Nat
    BY TypedParts DEF Sound
  <2>2. \A j \in 1 .. k : files'[j] = files[j]
    BY <1>1, <2>1
  <2>3. Settled(files, k)
    BY DEF Calm
  <2> QED
    BY <2>1, <2>2, <2>3, SettledKept
<1>13. Follows(files', n, lastRoot)
  <2>1. n \in Nat /\ DOMAIN files = 1 .. n
    BY TypedParts DEF Sound
  <2>2. \A k \in 1 .. n - 1 : files'[k] = files[k]
    BY <1>1, <2>1
  <2> HIDE DEF n
  <2> QED
    BY <1>7, <2>1, <2>2, FollowsKept
<1> QED
  BY <1>1, <1>2, <1>9, <1>10, <1>11, <1>12, <1>13 DEF Calm

\* A file is sealed, or left as it is because it has no lines.
LEMMA CalmSeal ==
  ASSUME Sound, Calm, rotates, BeginRotate \/ BeginStop, ~disturbed'
  PROVE  Calm'
<1> DEFINE n == Len(files)
<1>1. /\ owner = "running" /\ owner' \in {"rotating", "stopping"} /\ Busy = {}
      /\ UNCHANGED <<chain, saved, workers, meta>>
      /\ EmitManifest \/ (meta.count <= 0 /\ UNCHANGED <<files, lastRoot>>)
  <2>1. Busy = {}
    BY Zenon DEF BeginRotate, BeginStop
  <2>2. CASE BeginRotate
    BY <2>1, <2>2 DEF BeginRotate
  <2>3. CASE BeginStop
    <3>1. meta.count \in Nat
      BY DEF Sound, TypeOK
    <3>2. EmitManifest \/ (~(meta.count > 0) /\ UNCHANGED <<files, lastRoot>>)
      BY <2>3, Zenon DEF BeginStop
    <3>3. /\ owner = "running" /\ owner' = "stopping"
          /\ UNCHANGED <<chain, saved, workers, meta>>
      BY <2>3, Zenon DEF BeginStop
    <3>4. ~(meta.count > 0) => meta.count <= 0
      BY <3>1
    <3> QED
      BY <2>1, <3>2, <3>3, <3>4, Zenon
  <2> QED
    BY <2>2, <2>3
<1>2. \A v \in Workers : workers[v].at = "idle"
  BY <1>1 DEF Busy
<1>3. PICK f : f = files[n]
  OBVIOUS
<1>4. /\ n \in Nat \ {0} /\ n \in DOMAIN files /\ DOMAIN files = 1 .. n
      /\ f \in FileState /\ Present = f /\ meta.file = n
  <2>1. files \in Seq(FileState) /\ n \in Nat /\ n >= 1
    BY <1>1, TypedParts DEF Sound, Room
  <2> QED
    BY <1>1, <1>3, <2>1 DEF Present, Sound, TypeOK
<1>5. /\ ~Sealed(f) /\ f.counted = f.lines /\ meta.from = lastRoot
      /\ meta.count = Len(f.lines) /\ meta.root = RootOf(f.lines)
      /\ ChainVerifies(f.lines, Origin(lastRoot)) /\ Follows(files, n, lastRoot)
  <2>1. Filling /\ Follows(files, n, lastRoot)
    BY <1>1 DEF Calm
  <2>2. \A v \in Workers : workers[v].at # "counted"
    BY <1>2
  <2> QED
    BY <1>4, <2>1, <2>2 DEF Filling
<1>6. Fits(f.lines, lastRoot, chain.seq + 1, chain.hash)
  BY <1>1, <1>2, <1>4, <1>5 DEF Calm, Heading, PresentCounted, Tip
<1>7. f.lines \in Seq(Line) /\ (f.lines # <<>> => RootOf(f.lines) # None)
  <2>1. f.lines \in Seq(Line)
    BY <1>4, FileParts
  <2>2. ASSUME f.lines # <<>> PROVE Last(f.lines) \in ToSet(f.lines)
    BY <2>1, <2>2 DEF Last, ToSet
  <2> QED
    BY <1>5, <2>1, <2>2 DEF RootOf, ChainVerifies
<1>8. Alone'
  <2>1. Busy' = {}
    BY <1>1 DEF Busy
  <2> QED
    BY <1>1, <1>2, <2>1 DEF Alone
<1>9. ASSUME chain.hash = Origin(lastRoot') PROVE Heading'
  <2>1. PresentCounted' = <<>> /\ Tip' = chain
    BY <1>1 DEF PresentCounted, Tip
  <2>2. Fits(<<>>, lastRoot', chain.seq + 1, chain.hash)
    BY <1>9, ChainOfNothing
  <2>3. \A v \in Workers : workers'[v].at # "signed"
    BY <1>1, <1>2
  <2>4. (chain.seq = 0 => chain.hash = Genesis) /\ (saved.seq = 0 => saved.hash = Genesis)
    BY DEF Calm, Heading
  <2> QED
    BY <1>1, <2>1, <2>2, <2>3, <2>4 DEF Heading
<1>10. CASE meta.count <= 0 /\ UNCHANGED <<files, lastRoot>>
  <2>1. f.lines = <<>>
    BY <1>5, <1>7, <1>10
  <2>2. Heading'
    BY <1>6, <1>9, <1>10, <2>1, ChainOfNothing
  <2>3. Settled(files, n)
    BY <1>3, <1>5, <2>1 DEF Settled
  <2>4. Follows(files, n + 1, lastRoot)
    BY <1>3, <1>4, <1>5, <2>1, FollowsOn
  <2>5. \A k \in DOMAIN files : Settled(files, k)
    <3> SUFFICES ASSUME NEW k \in DOMAIN files PROVE Settled(files, k)
      OBVIOUS
    <3>1. k < n \/ k = n
      BY <1>4
    <3> QED
      BY <2>3, <3>1 DEF Calm
  <2> QED
    BY <1>1, <1>8, <1>10, <2>2, <2>4, <2>5 DEF Calm
<1>11. CASE EmitManifest
  <2>1. PICK g : g = files'[n]
    OBVIOUS
  <2>2. /\ Len(files') = n /\ DOMAIN files' = DOMAIN files
        /\ \A k \in DOMAIN files : k # n => files'[k] = files[k]
        /\ g.lines = f.lines /\ g.counted = f.lines
        /\ g.manifest = Generated /\ Sealed(g)
    BY <1>1, <1>3, <1>4, <1>5, <1>11, <2>1, SealFacts
  <2>3. /\ g.manifest.count = Len(g.lines) /\ g.manifest.root = RootOf(g.lines)
        /\ g.manifest.from = lastRoot
    BY <1>5, <2>2 DEF Generated
  <2>4. FileVerifies(g)
    BY <1>5, <2>2, <2>3 DEF FileVerifies, ManifestVerifies, RootOf, Origin
  <2>5. Follows(files', n, lastRoot)
    <3>1. \A k \in 1 .. n - 1 : files'[k] = files[k]
      BY <1>4, <2>2
    <3> HIDE DEF n
    <3> QED
      BY <1>4, <1>5, <3>1, FollowsKept
  <2>6. \A k \in DOMAIN files' : Settled(files', k)
    <3> SUFFICES ASSUME NEW k \in DOMAIN files PROVE Settled(files', k)
      BY <2>2
    <3>1. CASE k = n
      BY <2>1, <2>2, <2>3, <2>4, <2>5, <3>1 DEF Settled
    <3>2. CASE k # n
      <4>1. k < n /\ k \in Nat
        BY <1>4, <3>2
      <4>2. \A j \in 1 .. k : files'[j] = files[j]
        BY <1>4, <2>2, <4>1
      <4>3. Settled(files, k)
        BY <4>1 DEF Calm
      <4>4. files'[k] = files[k] /\ \A j \in 1 .. k - 1 : files'[j] = files[j]
        BY <1>4, <2>2, <4>1, <4>2
      <4> QED
        BY <4>1, <4>3, <4>4, SettledKept
    <3> QED
      BY <3>1, <3>2
  <2>7. lastRoot' = IF f.lines = <<>> THEN lastRoot ELSE RootOf(f.lines)
    BY <1>5, <1>7, <1>11 DEF EmitManifest, RootOf
  <2>8. Follows(files', n + 1, lastRoot')
    <3>1. CASE f.lines = <<>>
      BY <1>4, <2>1, <2>2, <2>5, <2>7, <3>1, FollowsOn
    <3>2. CASE f.lines # <<>>
      <4>1. files'[n].lines # <<>> /\ files'[n].manifest.root = lastRoot'
        BY <2>1, <2>2, <2>3, <2>7, <3>2
      <4> QED
        BY <1>4, <4>1, FollowsOn
    <3> QED
      BY <3>1, <3>2
  <2>9. Heading'
    <3>1. chain.hash = Origin(lastRoot')
      BY <1>6, <1>7, <2>7 DEF Fits, RootOf, Origin
    <3> QED
      BY <1>9, <3>1
  <2> QED
    BY <1>1, <1>8, <2>2, <2>6, <2>8, <2>9 DEF Calm
<1> QED
  BY <1>1, <1>10, <1>11

\* The next file is there, which takes a chain that is not begun anew.
LEMMA CalmOpen ==
  ASSUME ~RotateChain, rotates, Sound, Calm, ~disturbed',
         EndRotate \/ \E anew \in BOOLEAN : Start(anew)
  PROVE  Calm'
<1> DEFINE n == Len(files)
<1>1. /\ owner \in {"rotating", "stopped"} /\ owner' = "running"
      /\ UNCHANGED <<saved, workers>> /\ chain' = Tip
      /\ files' = Append(files, EmptyFile) /\ meta' = NewMeta(n + 1, lastRoot')
      /\ Len(files) < MaxFiles
      /\ lastRoot' = lastRoot \/ (saved.seq = 0 /\ owner = "stopped" /\ lastRoot' = None)
  <2>1. CASE EndRotate
    <3>1. Len(Append(files, EmptyFile)) = Len(files) + 1
      BY TypedParts, FileEmpty DEF Sound
    <3> QED
      BY <2>1, <3>1 DEF EndRotate, Tip, Sound, Room
  <2>2. ASSUME NEW anew \in BOOLEAN, Start(anew)
        PROVE  /\ owner = "stopped" /\ owner' = "running"
               /\ UNCHANGED <<saved, workers>> /\ chain' = Tip
               /\ files' = Append(files, EmptyFile) /\ meta' = NewMeta(n + 1, lastRoot')
               /\ Len(files) < MaxFiles
               /\ lastRoot' = lastRoot \/ (saved.seq = 0 /\ lastRoot' = None)
    <3>1. saved.seq \in Nat
      BY TypedParts DEF Sound
    <3>2. anew => ~(saved.seq > 0)
      BY <2>2, Zenon DEF Start
    <3>3. lastRoot' = IF anew THEN None ELSE lastRoot
      BY <2>2 DEF Start
    <3> QED
      BY <2>2, <3>1, <3>2, <3>3 DEF Start, Tip
  <2> QED
    BY <2>1, <2>2
<1>2. \A v \in Workers : workers[v].at # "counted"
  BY <1>1 DEF Calm, Alone
<1>3. lastRoot' = lastRoot
  <2>1. CASE saved.seq = 0 /\ owner = "stopped" /\ lastRoot' = None
    <3>1. saved.hash = Genesis
      BY <2>1 DEF Calm, Heading
    <3>2. \A v \in Workers : workers[v].at # "signed"
      BY <2>1 DEF Calm, Alone, Busy
    <3>3. Fits(<<>>, lastRoot, saved.seq + 1, saved.hash)
      BY <2>1, <3>2 DEF Calm, Heading, Tip, PresentCounted
    <3>4. Genesis = Origin(lastRoot)
      BY <3>1, <3>3, ChainOfNothing
    <3>5. lastRoot \in Events \cup {None} /\ Genesis \notin Events
      BY SealedAssumption DEF Sound, TypeOK
    <3> QED
      BY <2>1, <3>4, <3>5 DEF Origin
  <2> QED
    BY <1>1, <2>1
<1>4. /\ n \in Nat /\ DOMAIN files' = 1 .. n + 1 /\ DOMAIN files = 1 .. n
      /\ \A k \in DOMAIN files : files'[k] = files[k]
      /\ files'[n + 1] = EmptyFile /\ Len(files') = n + 1
      /\ meta'.count = 0 /\ meta'.root = None /\ lastRoot \in Events \cup {None}
  <2>1. lastRoot \in Events \cup {None}
    BY DEF Sound, TypeOK
  <2> QED
    BY <1>1, <1>3, <2>1, OpenFacts, TypedParts DEF Sound
<1>5. meta'.from = lastRoot
  BY <1>1, <1>3 DEF NewMeta
<1>6. Present' = EmptyFile
  BY <1>4 DEF Present
<1>7. /\ EmptyFile.lines = <<>> /\ EmptyFile.counted = <<>> /\ ~Sealed(EmptyFile)
  BY FileEmpty DEF Sealed
<1>8. Filling'
  <2>1. \A v \in Workers : workers'[v].at # "counted"
    BY <1>1, <1>2
  <2>2. ChainVerifies(<<>>, Origin(lastRoot)) /\ RootOf(<<>>) = None /\ Len(<<>>) = 0
    BY ChainOfNothing
  <2> QED
    BY <1>3, <1>4, <1>5, <1>6, <1>7, <2>1, <2>2 DEF Filling
<1>9. Alone'
  <2>1. Busy' = Busy
    BY <1>1 DEF Busy
  <2> QED
    BY <1>1, <2>1 DEF Calm, Alone
<1>10. Heading'
  <2>1. PresentCounted' = <<>> /\ PresentCounted = <<>>
    BY <1>1, <1>6, <1>7 DEF PresentCounted
  <2>2. Tip' = Tip /\ Tip \in {chain, saved}
    BY <1>1 DEF Tip
  <2>3. owner = "stopped" => \A v \in Workers : workers[v].at # "signed"
    BY DEF Calm, Alone, Busy
  <2>4. owner # "stopped" => Tip = chain
    BY DEF Tip
  <2>5. chain'.seq = 0 => chain'.hash = Genesis
    BY <1>1, <2>2 DEF Calm, Heading
  <2> QED
    BY <1>1, <1>3, <2>1, <2>2, <2>3, <2>4, <2>5 DEF Calm, Heading
<1>11. \A k \in DOMAIN files' : k < Len(files') => Settled(files', k)
  <2> SUFFICES ASSUME NEW k \in 1 .. n PROVE Settled(files', k)
    BY <1>4
  <2>1. Settled(files, k)
    BY <1>1, <1>4 DEF Calm
  <2>2. k \in Nat /\ files'[k] = files[k] /\ \A j \in 1 .. k - 1 : files'[j] = files[j]
    BY <1>4
  <2> HIDE DEF n
  <2> QED
    BY <2>1, <2>2, SettledKept
<1>12. Follows(files', n + 1, lastRoot)
  <2>1. Follows(files, n + 1, lastRoot)
    BY <1>1 DEF Calm
  <2>2. PICK m : m = n + 1
    OBVIOUS
  <2>3. m \in Nat /\ \A k \in 1 .. m - 1 : files'[k] = files[k]
    BY <1>4, <2>2
  <2>4. Follows(files, m, lastRoot)
    BY <2>1, <2>2
  <2>5. Follows(files', m, lastRoot)
    BY <2>3, <2>4, FollowsKept
  <2> QED
    BY <2>2, <2>5
<1>13. owner' = "running"
  BY <1>1
<1>14. \A k \in DOMAIN files' : k < Len(files') \/ owner' # "running" => Settled(files', k)
  BY <1>11, <1>13
<1>15. owner' = "running" => Filling' /\ Follows(files', Len(files'), lastRoot')
  BY <1>3, <1>4, <1>8, <1>12, Zenon
<1> QED
  BY <1>1, <1>9, <1>10, <1>13, <1>14, <1>15 DEF Calm

LEMMA CalmStep ==
  ~RotateChain => (Sound /\ Undisturbed /\ [Next]_sealVars => Undisturbed')
<1> SUFFICES ASSUME ~RotateChain, Sound, Undisturbed, [Next]_sealVars, ~disturbed', rotates'
             PROVE  Calm'
  BY DEF Undisturbed
<1>1. Calm /\ rotates
  <2>1. disturbed => disturbed'
    BY DEF Next, Sign, SignFails, Drop, Count, WriteInner, WriteSerialized, BeginRotate, EndRotate,
           SealFails, InnerOpens, BeginStop, EndStop, Crash, Start, sealVars
  <2> QED
    BY <2>1, RotatesFixed DEF Undisturbed
<1>2. ASSUME NEW w \in Workers, NEW e \in Events, Sign(w, e) \/ SignFails(w, e) PROVE Calm'
  BY <1>1, <1>2, CalmSign DEF SignFails
<1>3. ASSUME NEW w \in Workers, Drop(w) \/ Count(w) \/ WriteInner(w) \/ WriteSerialized(w)
      PROVE  Calm'
  BY <1>1, <1>3, CalmCount, CalmWrite DEF Drop, WriteSerialized
<1>4. CASE BeginRotate \/ BeginStop
  BY <1>1, <1>4, CalmSeal
<1>5. CASE EndRotate \/ \E anew \in BOOLEAN : Start(anew)
  BY <1>1, <1>5, CalmOpen
<1>6. CASE Crash
  BY <1>6 DEF Crash
<1>7. CASE EndStop
  <2>1. /\ owner = "stopping" /\ owner' = "stopped" /\ saved' = chain
        /\ workers' = [w \in Workers |-> Idle]
        /\ UNCHANGED <<chain, meta, lastRoot, files>>
    BY <1>7 DEF EndStop, Saves
  <2>2. \A w \in Workers : workers'[w].at = "idle" /\ workers[w].at = "idle"
    BY <1>1, <2>1, WorkerTyped DEF Calm, Alone, Busy
  <2>3. Alone'
    <3>1. Busy' = {}
      BY <2>2 DEF Busy
    <3> QED
      BY <2>1, <2>2, <3>1 DEF Alone
  <2>4. Heading'
    <3>1. PresentCounted' = PresentCounted /\ Tip' = Tip
      BY <2>1 DEF PresentCounted, Tip
    <3> QED
      BY <1>1, <2>1, <2>2, <3>1 DEF Calm, Heading
  <2>5. \A w \in Workers : workers'[w].at # "counted" /\ workers[w].at # "counted"
    <3> SUFFICES ASSUME NEW w \in Workers
                 PROVE  workers'[w].at # "counted" /\ workers[w].at # "counted"
      OBVIOUS
    <3> QED
      BY <2>2
  <2> QED
    BY <1>1, <2>1, <2>3, <2>4, <2>5, FilesCalm DEF Calm
<1>8. CASE SealFails \/ UNCHANGED sealVars
  <2>1. UNCHANGED <<chain, saved, workers, owner, meta, lastRoot, files>>
    BY <1>8 DEF SealFails, sealVars
  <2>2. Present' = Present /\ PresentCounted' = PresentCounted /\ Tip' = Tip /\ Busy' = Busy
    BY <2>1 DEF Present, PresentCounted, Tip, Busy
  <2>3. Alone' /\ Heading'
    BY <1>1, <2>1, <2>2 DEF Calm, Alone, Heading
  <2>4. Filling <=> Filling'
    BY <2>1, <2>2 DEF Filling
  <2> QED
    BY <1>1, <2>1, <2>3, <2>4 DEF Calm
<1> QED
  <2>1. ~InnerOpens
    BY <1>1 DEF InnerOpens
  <2> QED
    BY <1>2, <1>3, <1>4, <1>5, <1>6, <1>7, <1>8, <2>1 DEF Next

LEMMA CalmAtFirst == Init => Undisturbed
<1> SUFFICES ASSUME Init PROVE Calm
  BY DEF Undisturbed
<1>1. /\ \A w \in Workers : workers[w].at = "idle"
      /\ owner = "stopped" /\ files = <<>> /\ lastRoot = None
      /\ chain = Beginning /\ saved = Beginning
  BY WorkerTyped DEF Init
<1>2. Beginning.seq = 0 /\ Beginning.hash = Genesis
  BY DEF Beginning
<1>3. Alone
  <2>1. Busy = {}
    BY <1>1 DEF Busy
  <2> QED
    BY <1>1, <2>1 DEF Alone
<1>4. Heading
  <2>1. PresentCounted = <<>> /\ Tip = Beginning
    BY <1>1 DEF PresentCounted, Tip
  <2>2. Fits(<<>>, None, Beginning.seq + 1, Genesis)
    BY ChainOfNothing DEF Origin
  <2> QED
    BY <1>1, <1>2, <2>1, <2>2 DEF Heading
<1>5. Follows(files, Len(files) + 1, lastRoot) /\ DOMAIN files = {}
  BY <1>1 DEF Follows
<1> QED
  BY <1>1, <1>3, <1>4, <1>5 DEF Calm

\* Where no file is empty, the last file that has lines is the one before.
LEMMA CalmVerifies ==
  ASSUME Sound, Undisturbed
  PROVE  SealedVerifies
<1> SUFFICES ASSUME Calm
             PROVE  /\ \A n \in DOMAIN files :
                         n < Len(files) /\ files[n].lines # <<>> => Sealed(files[n])
                    /\ \A f \in ToSet(files) : Sealed(f) /\ f.counted # <<>> => FileVerifies(f)
                    /\ (\A f \in ToSet(files) : Sealed(f) => f.lines # <<>>) => SeriesVerifies
  BY DEF SealedVerifies, Undisturbed
<1>1. DOMAIN files = 1 .. Len(files) /\ Len(files) \in Nat
  BY TypedParts DEF Sound
<1>2. \A n \in DOMAIN files : Sealed(files[n]) => Settled(files, n)
  <2> SUFFICES ASSUME NEW n \in DOMAIN files, Sealed(files[n]) PROVE Settled(files, n)
    OBVIOUS
  <2>1. CASE n < Len(files) \/ owner # "running"
    BY <2>1 DEF Calm
  <2>2. CASE ~(n < Len(files)) /\ owner = "running"
    <3>1. n = Len(files)
      BY <1>1, <2>2
    <3> QED
      BY <2>2, <3>1 DEF Calm, Filling, Present
  <2> QED
    BY <2>1, <2>2
<1>3. \A n \in DOMAIN files : Sealed(files[n]) => FileVerifies(files[n])
  BY <1>2 DEF Settled
<1>4. \A f \in ToSet(files) : Sealed(f) /\ f.counted # <<>> => FileVerifies(f)
  BY <1>3 DEF ToSet
<1>5. ASSUME \A f \in ToSet(files) : Sealed(f) => f.lines # <<>>,
             NEW n \in DOMAIN files, Sealed(files[n])
      PROVE  files[n].manifest.from = ContinuesFrom(n)
  <2>1. Follows(files, n, files[n].manifest.from)
    BY <1>2, <1>5 DEF Settled
  <2>2. \A k \in 1 .. n - 1 : k \in DOMAIN files /\ k < Len(files)
    BY <1>1
  <2>3. \A k \in Before(n) : k \in 1 .. n - 1 /\ files[k].lines # <<>>
    <3>1. \A k \in Before(n) : k \in 1 .. n - 1 /\ Sealed(files[k])
      BY DEF Before
    <3>2. \A k \in DOMAIN files : files[k] \in ToSet(files)
      BY DEF ToSet
    <3> QED
      BY <1>5, <2>2, <3>1, <3>2
  <2>4. \A k \in 1 .. n - 1 : files[k].lines # <<>> => k \in Before(n)
    BY <2>2 DEF Calm, Settled, Before
  <2>5. CASE files[n].manifest.from = None /\ \A k \in 1 .. n - 1 : files[k].lines = <<>>
    <3>1. Before(n) = {}
      BY <2>3, <2>5
    <3> QED
      BY <2>5, <3>1 DEF ContinuesFrom
  <2>6. ASSUME NEW k \in 1 .. n - 1, files[k].lines # <<>>,
               files[k].manifest.root = files[n].manifest.from,
               \A j \in k + 1 .. n - 1 : files[j].lines = <<>>
        PROVE  files[n].manifest.from = ContinuesFrom(n)
    <3>1. k \in Before(n)
      BY <2>4, <2>6
    <3>2. \A j \in Before(n) : j \in Nat /\ k >= j
      <4> SUFFICES ASSUME NEW j \in Before(n) PROVE j \in Nat /\ k >= j
        OBVIOUS
      <4>1. j \in 1 .. n - 1 /\ j \notin k + 1 .. n - 1
        BY <2>3, <2>6
      <4> QED
        BY <4>1
    <3>3. Max(Before(n)) = k
      <4>1. \A m \in Before(n) : (\A j \in Before(n) : m >= j) <=> m = k
        BY <3>1, <3>2
      <4> QED
        BY <3>1, <4>1 DEF Max
    <3> QED
      BY <2>6, <3>1, <3>3 DEF ContinuesFrom
  <2> QED
    BY <2>1, <2>5, <2>6 DEF Follows
<1>6. \A n \in DOMAIN files : n < Len(files) /\ files[n].lines # <<>> => Sealed(files[n])
  BY DEF Calm, Settled
<1> QED
  BY <1>3, <1>4, <1>5, <1>6 DEF SeriesVerifies

(***************************************************************************)
(* What nothing has disturbed is sealed and verifies, through any number   *)
(* of rotations and clean restarts: SealedSink counts, links and seals as  *)
(* verify_file and verify_chain_across_files read it, if the inner sink    *)
(* opens a new file when told to, as rotating_file does not, and as long   *)
(* as each file continues from the one before (rotate_chain = False).      *)
(***************************************************************************)
THEOREM UndisturbedVerifies == ~RotateChain => (Spec => []SealedVerifies)
<1> SUFFICES ASSUME ~RotateChain PROVE Spec => []SealedVerifies
  OBVIOUS
<1>1. Sound /\ Undisturbed /\ [Next]_sealVars => Undisturbed'
  BY CalmStep
<1>2. Sound /\ Undisturbed => SealedVerifies
  BY CalmVerifies
<1> QED
  BY <1>1, <1>2, CalmAtFirst, AlwaysSound, PTL DEF Spec
=============================================================================
