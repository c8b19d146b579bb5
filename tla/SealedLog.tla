----------------------------- MODULE SealedLog -----------------------------
(***************************************************************************)
(* Tamper-evident files (packages/fapilog-tamper): IntegrityEnricher       *)
(* numbers and chains the events, SealedSink counts them for the file they *)
(* go to and seals each file with a manifest, Verifier checks what is left *)
(* on disk.                                                                *)
(*                                                                         *)
(* Workers carry events through the enricher and the sink, each with its   *)
(* own awaits; the owner starts, rotates and stops beside them.  The inner *)
(* sink has a current file, and a rotate() that opens the next under a new *)
(* path; or it is rotating_file, the default, which has neither rotate()   *)
(* nor path: it opens the next file when it sees fit, and each manifest is *)
(* written over the one before, under the name of the sink, so that no     *)
(* file has one.                                                           *)
(*                                                                         *)
(* An event stands for its chain hash: hashes are unique.  The MAC of a    *)
(* signed line always verifies.                                            *)
(***************************************************************************)
EXTENDS Naturals, Sequences, FiniteSets, SequencesExt

CONSTANTS
  Workers,      \* the tasks that log
  Events,       \* what they log, each event once
  Genesis,      \* GENESIS_HASH
  None,         \* None, of a hash
  NoEvent,      \* a worker has no event
  RotateChain,  \* rotate_chain
  MaxFiles,     \* bound: files
  MaxFaults     \* bound: crashes, events lost on the way, failed signatures and seals

ASSUME SealedAssumption ==
  /\ {Genesis, None, NoEvent} \cap Events = {} /\ Genesis # None /\ NoEvent # None
  /\ IsFiniteSet(Events)
  /\ RotateChain \in BOOLEAN
  /\ MaxFiles \in Nat \ {0} /\ MaxFaults \in Nat

VARIABLES
  rotates,   \* the inner sink has a rotate(); else it is rotating_file
  chain,     \* ChainState of the enricher: [seq, hash]
  saved,     \* what ChainStatePersistence has on disk
  workers,   \* each worker's [at, line]
  owner,     \* "stopped", "running", "rotating" (with the lock) or "stopping"
  meta,      \* _current_file: [file, count, root, from]
  lastRoot,  \* _previous_root
  files,     \* the files, the current one last: [lines, counted, manifest]
  signed,    \* history: the lines that were signed
  faults,    \* counted for the bound
  crashed,   \* history: there was a crash
  bypassed,  \* history: a line was written that was not counted
  raced,     \* history: a file was sealed while a write was under way
  disturbed  \* history: something has happened that the chain need not survive

sealVars == <<rotates, chain, saved, workers, owner, meta, lastRoot, files, signed, faults,
              crashed, bypassed, raced, disturbed>>

-----------------------------------------------------------------------------
\* A line carries the integrity fields; one the enricher could not sign has none.
Line == [event : Events, seq : 0 .. Cardinality(Events), prev : Events \cup {Genesis, None},
         hash : Events \cup {None}]
Unsigned(e) == [event |-> e, seq |-> 0, prev |-> None, hash |-> None]
NoLine == Unsigned(NoEvent)

\* What a manifest says; count is record_count, from is continues_from.
Manifest == [count : Nat, root : Events \cup {None}, from : Events \cup {None}]
NoManifest == [count |-> 0, root |-> NoEvent, from |-> None]

Sealed(f) == f.manifest # NoManifest

\* counted is history: the lines counted before the file was sealed.
EmptyFile == [lines |-> <<>>, counted |-> <<>>, manifest |-> NoManifest]
Beginning == [seq |-> 0, hash |-> Genesis]
Idle == [at |-> "idle", line |-> NoLine]

\* FileMetadata of a file just opened.
NewMeta(n, root) ==
  [file |-> n, count |-> 0, root |-> None, from |-> IF RotateChain THEN None ELSE root]

Init ==
  /\ rotates \in BOOLEAN
  /\ chain = Beginning /\ saved = Beginning
  /\ workers = [w \in Workers |-> Idle]
  /\ owner = "stopped"
  /\ meta = NewMeta(0, None) /\ lastRoot = None
  /\ files = <<>>
  /\ signed = {}
  /\ faults = 0 /\ crashed = FALSE /\ bypassed = FALSE /\ raced = FALSE /\ disturbed = FALSE

EventsOf(lines) == {l.event : l \in lines}

\* What has been logged already (events are unique).
Logged == EventsOf(signed) \cup {workers[w].line.event : w \in Workers}
          \cup UNION {EventsOf(ToSet(f.lines) \cup ToSet(f.counted)) : f \in ToSet(files)}

Busy == {w \in Workers : workers[w].at # "idle"}

Fault == faults < MaxFaults /\ faults' = faults + 1

-----------------------------------------------------------------------------
\* IntegrityEnricher.enrich, whose lock covers the number, the MAC and the
\* new state.  Two events on their way at once may overtake each other.
Sign(w, e) ==
  LET line == [event |-> e, seq |-> chain.seq + 1, prev |-> chain.hash, hash |-> e]
  IN  /\ owner # "stopped" /\ workers[w] = Idle /\ e \notin Logged
      /\ workers' = [workers EXCEPT ![w] = [at |-> "signed", line |-> line]]
      /\ chain' = [seq |-> line.seq, hash |-> line.hash]
      /\ signed' = signed \cup {line}
      /\ disturbed' = (disturbed \/ Busy # {} \/ owner = "stopping")
      /\ UNCHANGED <<rotates, saved, owner, meta, lastRoot, files, faults, crashed, bypassed,
                     raced>>

\* The signature fails, or there is no key: the event goes on without it.
SignFails(w, e) ==
  /\ owner # "stopped" /\ workers[w] = Idle /\ e \notin Logged
  /\ Fault
  /\ workers' = [workers EXCEPT ![w] = [at |-> "signed", line |-> Unsigned(e)]]
  /\ disturbed' = TRUE
  /\ UNCHANGED <<rotates, chain, saved, owner, meta, lastRoot, files, signed, crashed, bypassed,
                 raced>>

\* A signed event never reaches the sink, or its write fails.
Drop(w) ==
  /\ workers[w].at # "idle"
  /\ Fault
  /\ workers' = [workers EXCEPT ![w] = Idle]
  /\ disturbed' = TRUE
  /\ UNCHANGED <<rotates, chain, saved, owner, meta, lastRoot, files, signed, crashed, bypassed,
                 raced>>

\* Mutant: the root is that of the first record.
KeepsRoot(root, line) == IF root = None THEN line.hash ELSE root

\* root_chain_hash: that of the last record that has one.
NewRoot(root, line) == IF line.hash = None THEN root ELSE line.hash

\* SealedSink.write under the lock: the line is counted for the current file.
Count(w) ==
  LET line == workers[w].line
  IN  /\ workers[w].at = "signed" /\ owner \in {"running", "stopping"}
      /\ workers' = [workers EXCEPT ![w].at = "counted"]
      /\ meta' = [meta EXCEPT !.count = @ + 1, !.root = NewRoot(@, line)]
      /\ files' = IF Sealed(files[meta.file]) THEN files
                  ELSE [files EXCEPT ![meta.file].counted = Append(@, line)]
      /\ UNCHANGED <<rotates, chain, saved, owner, lastRoot, signed, faults, crashed, bypassed,
                     raced, disturbed>>

\* ... and without it the inner sink appends it to the file it now has.
WriteInner(w) ==
  /\ workers[w].at = "counted" /\ owner # "stopped"
  /\ files' = [files EXCEPT ![Len(files)].lines = Append(@, workers[w].line)]
  /\ workers' = [workers EXCEPT ![w] = Idle]
  /\ UNCHANGED <<rotates, chain, saved, owner, meta, lastRoot, signed, faults, crashed,
                 bypassed, raced, disturbed>>

\* write_serialized() goes to the inner sink and past the count.
WriteSerialized(w) ==
  /\ workers[w].at = "signed" /\ owner # "stopped"
  /\ files' = [files EXCEPT ![Len(files)].lines = Append(@, workers[w].line)]
  /\ workers' = [workers EXCEPT ![w] = Idle]
  /\ bypassed' = TRUE /\ disturbed' = TRUE
  /\ UNCHANGED <<rotates, chain, saved, owner, meta, lastRoot, signed, faults, crashed, raced>>

\* ManifestGenerator.generate.
Generated == [count |-> meta.count, root |-> meta.root, from |-> meta.from]

\* _emit_manifest: the manifest is written beside the file it is named for.
EmitManifest ==
  /\ files' = IF rotates THEN [files EXCEPT ![meta.file].manifest = Generated] ELSE files
  /\ lastRoot' = IF meta.root = None THEN lastRoot ELSE meta.root

\* rotate() takes the lock and seals the file; a write may be under way.
BeginRotate ==
  /\ owner = "running" /\ Len(files) < MaxFiles
  /\ owner' = "rotating"
  /\ EmitManifest
  /\ raced' = (raced \/ Busy # {})
  /\ disturbed' = (disturbed \/ Busy # {})
  /\ UNCHANGED <<rotates, chain, saved, workers, meta, signed, faults, crashed, bypassed>>

\* The inner sink has rotated if it can, and the lock is free.
EndRotate ==
  /\ owner = "rotating"
  /\ owner' = "running"
  /\ files' = IF rotates THEN Append(files, EmptyFile) ELSE files
  /\ meta' = NewMeta(Len(files'), lastRoot)
  /\ UNCHANGED <<rotates, chain, saved, workers, lastRoot, signed, faults, crashed, bypassed,
                 raced, disturbed>>

\* stop() seals a file with records, without the lock ...
BeginStop ==
  /\ owner = "running"
  /\ owner' = "stopping"
  /\ IF meta.count > 0 THEN EmitManifest ELSE UNCHANGED <<files, lastRoot>>
  /\ raced' = (raced \/ Busy # {})
  /\ disturbed' = (disturbed \/ Busy # {})
  /\ UNCHANGED <<rotates, chain, saved, workers, meta, signed, faults, crashed, bypassed>>

\* The manifest cannot be written: rotate() raises and has changed nothing, or
\* stop() does and leaves the inner sink open.
SealFails ==
  /\ owner = "running" /\ Fault
  /\ \/ UNCHANGED <<owner, disturbed>>
     \/ meta.count > 0 /\ owner' = "stopping" /\ disturbed' = TRUE
  /\ UNCHANGED <<rotates, chain, saved, workers, meta, lastRoot, files, signed, crashed, bypassed,
                 raced>>

\* rotating_file opens its next file in the middle of a write.
InnerOpens ==
  /\ ~rotates /\ owner # "stopped" /\ Len(files) < MaxFiles
  /\ files' = Append(files, EmptyFile)
  /\ meta' = [meta EXCEPT !.file = Len(files')]
  /\ UNCHANGED <<rotates, chain, saved, workers, owner, lastRoot, signed, faults, crashed,
                 bypassed, raced, disturbed>>

\* Mutant: the state is not saved.
SavesNothing == saved

\* IntegrityEnricher.stop.
Saves == chain

\* ... and stops the inner sink; the enricher saves its state.
EndStop ==
  /\ owner = "stopping"
  /\ owner' = "stopped"
  /\ saved' = Saves
  /\ workers' = [w \in Workers |-> Idle]
  /\ UNCHANGED <<rotates, chain, meta, lastRoot, files, signed, faults, crashed, bypassed,
                 raced, disturbed>>

\* start(), of the same sink again or, in another process, of a new one, which
\* knows the chain but not the last root.
Start(anew) ==
  /\ owner = "stopped" /\ Len(files) < MaxFiles
  /\ owner' = "running"
  /\ chain' = saved
  /\ lastRoot' = IF anew THEN None ELSE lastRoot
  /\ files' = Append(files, EmptyFile)
  /\ meta' = NewMeta(Len(files) + 1, lastRoot')
  /\ disturbed' = (disturbed \/ (anew /\ saved.seq > 0))
  /\ UNCHANGED <<rotates, saved, workers, signed, faults, crashed, bypassed, raced>>

\* The process ends without stop(): the file has no manifest, and the chain
\* state is what the last stop() has saved.
Crash ==
  /\ owner # "stopped"
  /\ Fault
  /\ owner' = "stopped"
  /\ workers' = [w \in Workers |-> Idle]
  /\ lastRoot' = None
  /\ crashed' = TRUE /\ disturbed' = TRUE
  /\ UNCHANGED <<rotates, chain, saved, meta, files, signed, bypassed, raced>>

Next ==
  \/ \E w \in Workers, e \in Events : Sign(w, e) \/ SignFails(w, e)
  \/ \E w \in Workers : Drop(w) \/ Count(w) \/ WriteInner(w) \/ WriteSerialized(w)
  \/ BeginRotate \/ EndRotate \/ SealFails \/ InnerOpens
  \/ BeginStop \/ EndStop \/ Crash
  \/ \E anew \in BOOLEAN : Start(anew)

Spec == Init /\ [][Next]_sealVars

-----------------------------------------------------------------------------
\* Verifier.verify_chain: every line has a MAC, its number follows the number
\* before it and its link is the hash before it.  It starts from any number.
ChainVerifies(lines, firstPrev) ==
  /\ \A l \in ToSet(lines) : l.hash # None
  /\ \A i \in DOMAIN lines :
       IF i = 1 THEN lines[i].prev = firstPrev
       ELSE lines[i].seq = lines[i - 1].seq + 1 /\ lines[i].prev = lines[i - 1].hash

\* Mutant: record_count is not compared.
RootVerifies(f) == f.manifest.root = IF f.lines = <<>> THEN None ELSE Last(f.lines).hash

\* _verify_manifest.
ManifestVerifies(f) ==
  /\ f.manifest.count = Len(f.lines)
  /\ f.manifest.root = IF f.lines = <<>> THEN None ELSE Last(f.lines).hash

\* Verifier.verify_file of a file with its manifest.
FileVerifies(f) ==
  /\ ChainVerifies(f.lines, IF f.manifest.from = None THEN Genesis ELSE f.manifest.from)
  /\ ManifestVerifies(f)

\* verify_chain_across_files, of the sealed files: each continues from the root
\* of the one before it, and from nothing if that has none.
Before(n) == {k \in 1 .. n - 1 : Sealed(files[k])}
ContinuesFrom(n) == IF Before(n) = {} THEN None ELSE files[Max(Before(n))].manifest.root

SeriesVerifies ==
  \A n \in DOMAIN files :
    Sealed(files[n]) =>
      FileVerifies(files[n]) /\ files[n].manifest.from = ContinuesFrom(n)

-----------------------------------------------------------------------------
TypeOK ==
  /\ {chain, saved} \subseteq [seq : Nat, hash : Events \cup {Genesis}]
  /\ workers \in [Workers -> [at : {"idle", "signed", "counted"}, line : Line \cup {NoLine}]]
  /\ owner \in {"stopped", "running", "rotating", "stopping"}
  /\ meta \in [file : 0 .. MaxFiles, count : Nat, root : Events \cup {None},
               from : Events \cup {None}]
  /\ lastRoot \in Events \cup {None}
  /\ files \in Seq([lines : Seq(Line), counted : Seq(Line), manifest : Manifest \cup {NoManifest}])
  /\ owner # "stopped" => meta.file = Len(files)
  /\ signed \subseteq Line
  /\ faults \in 0 .. MaxFaults
  /\ {rotates, crashed, bypassed, raced, disturbed} \subseteq BOOLEAN

(***************************************************************************)
(* What verifies is whole: if a sealed file passes, with its manifest, its *)
(* lines are the events counted for it.  Lost events, failed signatures,   *)
(* events that overtake each other, crashes and forks of the chain are all *)
(* found out.  This takes seals that catch no write on its way and writes  *)
(* that are counted: one line can stand in for another that went elsewhere *)
(* (three writes about a rotation are enough).                             *)
(***************************************************************************)
VerifiedIsWhole ==
  ~bypassed /\ ~raced =>
    \A n \in DOMAIN files :
      Sealed(files[n]) /\ FileVerifies(files[n]) =>
        ToSet(files[n].lines) = ToSet(files[n].counted)

(***************************************************************************)
(* Undisturbed, everything verifies: one event at a time, no write under   *)
(* way when a file is sealed, nothing lost and no new process means that   *)
(* the files left behind are sealed, that each sealed file passes, and     *)
(* the series of them if none is empty, through rotations and restarts of  *)
(* the sink.  This takes an inner sink with a rotate(): what rotating_file *)
(* leaves behind is never sealed.                                          *)
(***************************************************************************)
SealedVerifies ==
  ~disturbed /\ rotates =>
    /\ \A n \in DOMAIN files : n < Len(files) /\ files[n].lines # <<>> => Sealed(files[n])
    /\ \A f \in ToSet(files) : Sealed(f) /\ f.counted # <<>> => FileVerifies(f)
    /\ (\A f \in ToSet(files) : Sealed(f) => f.lines # <<>>) => SeriesVerifies

(***************************************************************************)
(* The chain does not fork: without a crash no two events ever get the     *)
(* same number or the same predecessor, however workers interleave,        *)
(* whatever else fails and however often the enricher is stopped and       *)
(* started.                                                                *)
(***************************************************************************)
NoFork ==
  ~crashed =>
    \A l, m \in signed : l # m => l.seq # m.seq /\ l.prev # m.prev
=============================================================================
