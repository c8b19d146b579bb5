---------------------------- MODULE RotatingFile ----------------------------
(***************************************************************************)
(* RotatingFileSink (plugins/sinks/rotating_file.py) behind the lazy start *)
(* of make_sink_writer (core/sink_writers.py).                             *)
(*                                                                         *)
(* Several workers write.  Whoever holds the sink's lock takes its write   *)
(* through rotation, compression, retention and the append, one file       *)
(* operation at a time; the clock ticks, and the process may crash, at     *)
(* each of them.  Only files outlive a crash.                              *)
(*                                                                         *)
(* A file is named for the second it is opened in, so the files of one     *)
(* second are told apart by an index, and the name of a file that has been *)
(* compressed is free again.                                               *)
(***************************************************************************)
EXTENDS Naturals, Sequences, FiniteSets, SequencesExt, FiniteSetsExt

CONSTANTS
  Writers,      \* the tasks that write
  Owner,        \* who stops the sink
  NoOne,        \* the lock is free
  Records,      \* what is written, each record once
  Big,          \* those larger than max_bytes; the others have size 1
  Awkward,      \* those serialize_envelope() cannot serialize
  NoRecord,     \* nothing to write
  NoFile,       \* _active_path is None
  Settings,     \* the settings of compress_rotated and of the mode to look at
  MaxBytes,     \* max_bytes
  MaxFiles,     \* max_files
  MaxTotal,     \* max_total_bytes
  Interval,     \* interval_seconds; 0 for None
  MaxSecond,    \* bound: the clock
  MaxFailures,  \* bound: file operations that fail
  MaxCrashes    \* bound: crashes

\* "strict": json, with strict_envelope_mode.
Mode == {"json", "strict", "text"}

ASSUME RotatingAssumption ==
  /\ NoOne \notin Writers /\ Owner \notin Writers /\ Owner # NoOne
  /\ Big \subseteq Records /\ Awkward \subseteq Records /\ NoRecord \notin Records
  /\ MaxBytes \in Nat \ {0}
  /\ {MaxFiles, MaxTotal, Interval, MaxSecond, MaxFailures, MaxCrashes} \subseteq Nat

ASSUME SettingsAssumption == Settings \subseteq [zips : BOOLEAN, mode : Mode]

Name == [second : 0 .. MaxSecond, index : Nat, gz : BOOLEAN]
File == [name : Name, records : Seq(Records)]

ASSUME NoFileAssumption == NoFile \notin Name

VARIABLES
  zips,       \* compress_rotated
  mode,       \* mode and strict_envelope_mode
  second,     \* the clock
  directory,  \* the directory exists
  disk,       \* its files, the one modified last at the end
  started,    \* _started, set by make_sink_writer
  calls,      \* where the call of each writer is
  payload,    \* what it writes
  lock,       \* who holds _lock
  stage,      \* what the holder does next
  reason,     \* why it rotates
  active,     \* [open: _active_file is not None, path: _active_path, size:
              \*  _active_size, deadline: _next_rotation_deadline, 0 for None]
  written,    \* history: the records that reached a file, in order
  returned,   \* history: those whose write returned without an error
  candidates, \* the rotated files retention has yet to consider
  spared,     \* those it could not remove, still part of its total
  clobbered,  \* history: those in an archive that another was written over
  stuck,      \* history: those in a file that retention could not remove
  failures,   \* counted for the bound
  crashes     \* counted for the bound

fileVars == <<zips, mode, second, directory, disk, started, calls, payload, lock, stage, reason,
              active, candidates, spared, written, returned, clobbered, stuck, failures, crashes>>

\* What only retention changes.
retentionVars == <<candidates, spared, stuck>>

-----------------------------------------------------------------------------
\* "start": in sink.start(); "write": in sink.write() or write_serialized().
CallState == {"idle", "start", "write"}
Stage == {"none", "open", "check", "close", "zip", "unlink", "retain", "files", "bytes",
          "reopen", "append"}

SizeOf(r) == IF r \in Big THEN MaxBytes + 1 ELSE 1
Bytes(records) ==
  Len(records) + MaxBytes * Cardinality({i \in DOMAIN records : records[i] \in Big})

Exists(name) == \E f \in ToSet(disk) : f.name = name
Position(name) == CHOOSE p \in DOMAIN disk : disk[p].name = name
FileAt(name) == disk[Position(name)]

\* The directory when a file is gone, and when one has just been written.
Without(name) == IF Exists(name) THEN RemoveAt(disk, Position(name)) ELSE disk
Modified(file) == Append(Without(file.name), file)

Closed == [open |-> FALSE, path |-> NoFile, size |-> 0, deadline |-> 0]

Init ==
  /\ \E s \in Settings : zips = s.zips /\ mode = s.mode
  /\ second = 0 /\ directory = FALSE /\ disk = <<>>
  /\ started = FALSE
  /\ calls = [w \in Writers |-> "idle"]
  /\ payload = [w \in Writers |-> NoRecord]
  /\ lock = NoOne /\ stage = "none" /\ reason = "size"
  /\ active = Closed
  /\ candidates = {} /\ spared = {}
  /\ written = <<>> /\ returned = {} /\ clobbered = {} /\ stuck = {}
  /\ failures = 0 /\ crashes = 0

\* Not written yet, and nobody's to write (records are unique).
Fresh(r) == r \notin ToSet(written) \cup returned \cup {payload[w] : w \in Writers}

-----------------------------------------------------------------------------
\* _open_new_file: the next boundary, and the first name of this second that
\* no file has.
NextDeadline == IF Interval > 0 THEN second - (second % Interval) + Interval ELSE 0

NewName ==
  LET named(i) == [second |-> second, index |-> i, gz |-> FALSE]
      free == {i \in 0 .. Len(disk) : ~Exists(named(i))}
  IN  named(CHOOSE i \in free : \A j \in free : i <= j)

OpenNewFile ==
  /\ directory'
  /\ disk' = Append(disk, [name |-> NewName, records |-> <<>>])
  /\ active' = [open |-> TRUE, path |-> NewName, size |-> 0, deadline |-> NextDeadline]
  /\ UNCHANGED failures

\* It raises: always without the directory, which only start() makes.
OpenFails ==
  /\ IF directory' THEN failures < MaxFailures /\ failures' = failures + 1
     ELSE UNCHANGED failures
  /\ active' = [active EXCEPT !.deadline = NextDeadline]
  /\ UNCHANGED disk

\* The calls that return at once: in text mode of serialized events, in strict
\* mode of what cannot be serialized.
Skips(r, serialized) ==
  \/ serialized /\ mode = "text"
  \/ ~serialized /\ mode = "strict" /\ r \in Awkward

\* write() and write_serialized() before they take the lock.  Outside strict
\* mode the second way to serialize a dictionary may fail too, and raise.
Serialize(w, r, serialized) ==
  \/ /\ ~Skips(r, serialized)
     /\ calls' = [calls EXCEPT ![w] = "write"]
     /\ payload' = [payload EXCEPT ![w] = r]
     /\ UNCHANGED returned
  \/ /\ calls' = [calls EXCEPT ![w] = "idle"]
     /\ payload' = [payload EXCEPT ![w] = NoRecord]
     /\ \/ Skips(r, serialized) /\ returned' = returned \cup {r}
        \/ ~serialized /\ mode = "json" /\ r \in Awkward /\ UNCHANGED returned

\* make_sink_writer: the first dictionary starts the sink, and so does every
\* other that comes before start() has returned; serialized events do not.
Call(w, r, serialized) ==
  /\ calls[w] = "idle" /\ Fresh(r)
  /\ \/ (serialized \/ started) /\ Serialize(w, r, serialized)
     \/ /\ ~serialized /\ ~started
        /\ calls' = [calls EXCEPT ![w] = "start"]
        /\ payload' = [payload EXCEPT ![w] = r]
        /\ UNCHANGED returned
  /\ UNCHANGED <<zips, mode, second, directory, disk, started, lock, stage, reason, active,
                 retentionVars, written, clobbered, failures, crashes>>

\* start(): the directory, and a new file though one may be open already;
\* errors are swallowed.
StartSink(w) ==
  /\ calls[w] = "start" /\ lock = NoOne
  /\ \/ directory' = TRUE /\ (OpenNewFile \/ OpenFails)
     \/ /\ failures < MaxFailures /\ failures' = failures + 1
        /\ UNCHANGED <<directory, disk, active>>
  /\ started' = TRUE
  /\ Serialize(w, payload[w], FALSE)
  /\ UNCHANGED <<zips, mode, second, lock, stage, reason, retentionVars, written, clobbered,
                 crashes>>

\* The write gets the lock.
Enter(w) ==
  /\ calls[w] = "write" /\ lock = NoOne
  /\ lock' = w
  /\ stage' = IF active.open THEN "check" ELSE "open"
  /\ UNCHANGED <<zips, mode, second, directory, disk, started, calls, payload, reason, active,
                 retentionVars, written, returned, clobbered, failures, crashes>>

\* The holder's write is over.
Leave ==
  /\ lock' = NoOne /\ stage' = "none"
  /\ calls' = [calls EXCEPT ![lock] = "idle"]
  /\ payload' = [payload EXCEPT ![lock] = NoRecord]
  /\ reason' = "size"

\* Mutant: the error is contained.
ContainsErrors == returned \cup {payload[lock]}

\* SinkWriteError: the caller learns that the record was not written.
RaisesErrors == returned

\* write(): the file the sink has not, or a new one in the end of a rotation.
\* A record too large even for an empty file rotates once more after time did.
Open ==
  /\ stage \in {"open", "reopen"}
  /\ UNCHANGED directory
  /\ \/ /\ directory /\ OpenNewFile
        /\ \/ stage = "open" /\ stage' = "check" /\ UNCHANGED reason
           \/ stage = "reopen" /\ reason = "time" /\ payload[lock] \in Big
              /\ stage' = "close" /\ reason' = "size"
           \/ stage = "reopen" /\ ~(reason = "time" /\ payload[lock] \in Big)
              /\ stage' = "append" /\ UNCHANGED reason
        /\ UNCHANGED <<lock, calls, payload, returned>>
     \/ /\ OpenFails
        /\ Leave
        /\ returned' = RaisesErrors
  /\ UNCHANGED <<zips, mode, second, started, retentionVars, written, clobbered, crashes>>

Due == active.deadline > 0 /\ second >= active.deadline

\* Mutant: the record to come is not counted.
AlreadyTooLarge == active.size > MaxBytes

TooLarge == active.size + SizeOf(payload[lock]) > MaxBytes

\* Rotation by time, then by size.
Check ==
  /\ stage = "check"
  /\ stage' = IF Due \/ TooLarge THEN "close" ELSE "append"
  /\ reason' = IF Due THEN "time" ELSE "size"
  /\ UNCHANGED <<zips, mode, second, directory, disk, started, calls, payload, lock, active,
                 retentionVars, written, returned, clobbered, failures, crashes>>

\* _rotate_active_file: the file is closed, but stays _active_path; if
\* closing fails the write does.
Close ==
  /\ stage = "close"
  /\ active' = [active EXCEPT !.open = FALSE]
  /\ \/ /\ stage' = IF zips THEN "zip" ELSE "retain"
        /\ UNCHANGED <<calls, payload, lock, reason, returned, failures>>
     \/ /\ failures < MaxFailures /\ failures' = failures + 1
        /\ Leave
        /\ returned' = RaisesErrors
  /\ UNCHANGED <<zips, mode, second, directory, disk, started, retentionVars, written, clobbered,
                 crashes>>

\* _compress_file: the archive is written, over one of the same name if there
\* is one, and may be left empty by an error.
Compress ==
  LET archive == [active.path EXCEPT !.gz = TRUE]
      holding(records) == Modified([name |-> archive, records |-> records])
  IN  /\ stage = "zip"
      /\ \/ /\ disk' = holding(FileAt(active.path).records)
            /\ stage' = "unlink"
            /\ UNCHANGED failures
         \/ /\ failures < MaxFailures /\ failures' = failures + 1
            /\ disk' \in {disk, holding(<<>>)}
            /\ stage' = "retain"
      /\ clobbered' = IF Exists(archive) /\ disk' # disk
                      THEN clobbered \cup ToSet(FileAt(archive).records) ELSE clobbered
      /\ UNCHANGED <<zips, mode, second, directory, started, calls, payload, lock, reason, active,
                     retentionVars, written, returned, crashes>>

\* ... and the original removed, if it can be.
Unlink ==
  /\ stage = "unlink"
  /\ stage' = "retain"
  /\ \/ disk' = Without(active.path) /\ UNCHANGED failures
     \/ failures < MaxFailures /\ failures' = failures + 1 /\ UNCHANGED disk
  /\ UNCHANGED <<zips, mode, second, directory, started, calls, payload, lock, reason, active,
                 retentionVars, written, returned, clobbered, crashes>>

\* _list_rotated_files.
Rotated == {f \in ToSet(disk) : f.name # active.path}

\* Mutant: sorted the other way round.
NewestFirst ==
  CHOOSE f \in candidates : \A g \in candidates : Position(g.name) <= Position(f.name)

\* The first of the list, which is sorted by st_mtime: the clock is taken to
\* advance from one write to a file to the next write to another.
Victim ==
  CHOOSE f \in candidates : \A g \in candidates : Position(f.name) <= Position(g.name)

TooManyFiles == Cardinality(candidates) > MaxFiles

TooManyBytes ==
  /\ candidates # {}
  /\ MapThenSumSet(LAMBDA f : Bytes(f.records), candidates \cup spared) > MaxTotal

\* max_files first, then max_total_bytes.
OverBudget ==
  \/ stage = "files" /\ TooManyFiles
  \/ stage = "bytes" /\ TooManyBytes

\* _enforce_retention: the rotated files are listed, once.
List ==
  /\ stage = "retain"
  /\ candidates' = Rotated /\ stage' = "files"
  /\ UNCHANGED <<zips, mode, second, directory, disk, started, calls, payload, lock, reason,
                 active, spared, stuck, written, returned, clobbered, failures, crashes>>

\* The oldest is removed.
Retain ==
  /\ OverBudget
  /\ candidates' = candidates \ {Victim}
  /\ disk' = Without(Victim.name)
  /\ UNCHANGED <<zips, mode, second, directory, started, calls, payload, lock, stage, reason,
                 active, spared, stuck, written, returned, clobbered, failures, crashes>>

\* It cannot be, and is passed over: the next one goes instead.
Spare ==
  /\ OverBudget
  /\ failures < MaxFailures /\ failures' = failures + 1
  /\ candidates' = candidates \ {Victim}
  /\ spared' = IF stage = "bytes" THEN spared \cup {Victim} ELSE spared
  /\ stuck' = stuck \cup ToSet(Victim.records)
  /\ UNCHANGED <<zips, mode, second, directory, disk, started, calls, payload, lock, stage,
                 reason, active, written, returned, clobbered, crashes>>

\* The sizes of what max_files has left.
Weigh ==
  /\ stage = "files" /\ ~TooManyFiles
  /\ stage' = "bytes"
  /\ UNCHANGED <<zips, mode, second, directory, disk, started, calls, payload, lock, reason,
                 active, retentionVars, written, returned, clobbered, failures, crashes>>

\* The rest is within budget, or listing or sorting the files failed.  The
\* owner's stop() ends with it.
RetentionEnds ==
  /\ \/ stage = "bytes" /\ ~TooManyBytes /\ UNCHANGED failures
     \/ /\ stage = "retain" \/ (stage = "files" /\ ~TooManyFiles)
        /\ failures < MaxFailures /\ failures' = failures + 1
  /\ candidates' = {} /\ spared' = {}
  /\ IF lock = Owner
     THEN lock' = NoOne /\ stage' = "none" /\ active' = Closed
     ELSE stage' = "reopen" /\ UNCHANGED <<lock, active>>
  /\ UNCHANGED <<zips, mode, second, directory, disk, started, calls, payload, reason, stuck,
                 written, returned, clobbered, crashes>>

\* The append, whose errors _write_segments swallows.
AppendRecord ==
  LET r == payload[lock]
      file == FileAt(active.path)
  IN  /\ stage = "append"
      /\ \/ /\ disk' = Modified([file EXCEPT !.records = Append(@, r)])
            /\ written' = Append(written, r)
            /\ UNCHANGED failures
         \/ /\ failures < MaxFailures /\ failures' = failures + 1
            /\ UNCHANGED <<disk, written>>
      /\ active' = [active EXCEPT !.size = @ + SizeOf(r)]
      /\ returned' = returned \cup {r}
      /\ Leave
      /\ UNCHANGED <<zips, mode, second, directory, started, retentionVars, clobbered, crashes>>

\* stop(): the file is closed and retention enforced, unless closing fails.
Stop ==
  /\ lock = NoOne
  /\ \/ lock' = Owner /\ stage' = "retain" /\ UNCHANGED failures
     \/ /\ active.open /\ failures < MaxFailures /\ failures' = failures + 1
        /\ UNCHANGED <<lock, stage>>
  /\ active' = [active EXCEPT !.open = FALSE]
  /\ UNCHANGED <<zips, mode, second, directory, disk, started, calls, payload, reason,
                 retentionVars, written, returned, clobbered, crashes>>

Tick ==
  /\ second < MaxSecond
  /\ second' = second + 1
  /\ UNCHANGED <<zips, mode, directory, disk, started, calls, payload, lock, stage, reason,
                 active, retentionVars, written, returned, clobbered, failures, crashes>>

\* The process ends; another opens a sink on the same directory.
Crash ==
  /\ crashes < MaxCrashes
  /\ crashes' = crashes + 1
  /\ started' = FALSE
  /\ calls' = [w \in Writers |-> "idle"]
  /\ payload' = [w \in Writers |-> NoRecord]
  /\ lock' = NoOne /\ stage' = "none" /\ reason' = "size" /\ active' = Closed
  /\ candidates' = {} /\ spared' = {}
  /\ UNCHANGED <<zips, mode, second, directory, disk, stuck, written, returned, clobbered,
                 failures>>

HolderStep ==
  \/ Open \/ Check \/ Close \/ Compress \/ Unlink \/ AppendRecord
  \/ List \/ Retain \/ Spare \/ Weigh \/ RetentionEnds

Next ==
  \/ \E w \in Writers, r \in Records, serialized \in BOOLEAN : Call(w, r, serialized)
  \/ \E w \in Writers : StartSink(w) \/ Enter(w)
  \/ HolderStep
  \/ Stop \/ Tick \/ Crash

Spec == Init /\ [][Next]_fileVars

-----------------------------------------------------------------------------
TypeOK ==
  /\ zips \in BOOLEAN /\ mode \in Mode
  /\ directory \in BOOLEAN /\ started \in BOOLEAN
  /\ second \in 0 .. MaxSecond
  /\ disk \in Seq(File)
  /\ calls \in [Writers -> CallState]
  /\ payload \in [Writers -> Records \cup {NoRecord}]
  /\ lock \in Writers \cup {Owner, NoOne}
  /\ stage \in Stage /\ reason \in {"time", "size"}
  /\ active \in [open : BOOLEAN, path : Name \cup {NoFile}, size : Nat, deadline : Nat]
  /\ candidates \subseteq ToSet(disk) /\ spared \subseteq ToSet(disk)
  /\ written \in Seq(Records)
  /\ returned \subseteq Records /\ clobbered \subseteq Records /\ stuck \subseteq Records
  /\ failures \in 0 .. MaxFailures /\ crashes \in 0 .. MaxCrashes
  /\ stage = "none" <=> lock = NoOne

OnDisk == UNION {ToSet(f.records) : f \in ToSet(disk)}

(***************************************************************************)
(* Rotation, compression, retention, two starts, failures and crashes cost *)
(* the oldest records only: whatever is on disk, everything that was       *)
(* written after it is there too.  Excepted are what retention could not   *)
(* remove, and what was in an archive that another was written over.       *)
(***************************************************************************)
KeepsTheNewest ==
  \A i, j \in DOMAIN written :
    i < j /\ written[i] \in OnDisk \ stuck => written[j] \in OnDisk \cup clobbered

(***************************************************************************)
(* No file outgrows max_bytes, except to hold one record that is larger.   *)
(***************************************************************************)
SizeBound ==
  \A f \in ToSet(disk) : Bytes(f.records) <= MaxBytes \/ Len(f.records) = 1

(***************************************************************************)
(* In json mode a write that returns has written: without its directory,   *)
(* which a serialized event does not make, the sink raises, and the record *)
(* can go to the fallback.  Only strict mode drops, and only what it       *)
(* cannot serialize.  (In text mode write_serialized() drops every event.) *)
(***************************************************************************)
Acknowledged ==
  failures = 0 /\ mode # "text" =>
    \A r \in returned : r \in ToSet(written) \/ (mode = "strict" /\ r \in Awkward)
=============================================================================
