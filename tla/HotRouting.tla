----------------------------- MODULE HotRouting -----------------------------
(***************************************************************************)
(* Routing rules reloaded while events are written: watch_file_changes     *)
(* (core/change_detection.py) polls the configuration file,                *)
(* ConfigHotReloader (core/hot_reload.py) loads, validates and announces   *)
(* what changed, its last subscriber calls update_rules() of               *)
(* RoutingSinkWriter (core/routing.py), and the workers' writes go by the  *)
(* rules they find when they start.                                        *)
(*                                                                         *)
(* The circuit breakers of the writer's entries work as those of           *)
(* SinkDelivery do; here a target is written to or skipped.                *)
(*                                                                         *)
(* The writes run on the event loop of the logger's worker thread.  Who    *)
(* calls update_rules(), and on which thread, is left to the application:  *)
(* nothing in the library does, and nothing keeps a lock.  Here it is the  *)
(* last subscriber of a reloader on another thread, so a write can look at *)
(* the tables between any two steps of their rebuilding.  The file, and    *)
(* the callbacks that are not part of the library, are the environment.    *)
(***************************************************************************)
EXTENDS Integers, RoutingRules

CONSTANTS
  Sinks, Levels, Writers,
  Configs,        \* the contents the file may have
  Invalid,        \* those the loader or the validator refuses
  Rules,          \* the routing configuration each valid content stands for
  FirstConfig,    \* the content the writer was built from
  Overlaps,       \* the values of overlap considered
  ParallelModes,  \* the values of parallel considered
  MaxEdits,       \* bound: changes of the file
  MaxFaults       \* bound: subscribers, error callbacks or reads that fail

Missing == "missing"

ASSUME HotRoutingAssumption ==
  /\ Missing \notin Configs \cup Levels /\ Wildcard \notin Levels
  /\ Invalid \subseteq Configs /\ FirstConfig \in Configs \ Invalid
  /\ Rules \in [Configs \ Invalid ->
       [rules : Seq([levels : SUBSET (Levels \cup {Wildcard}), sinks : Seq(Sinks)]),
        fallback : Seq(Sinks)]]
  /\ Overlaps \subseteq BOOLEAN /\ ParallelModes \subseteq BOOLEAN
  /\ MaxEdits \in Nat /\ MaxFaults \in Nat

Contents == Configs \cup {Missing}

VARIABLES
  file,      \* external: the file's content, and a number for its signature
  overlap, parallel,
  table,     \* _level_to_entries: the levels it has, and the list of each
  fallback,  \* _fallback_entries
  place,     \* how far update_rules() has come: the rule, the levels of it not
             \* placed yet, and the level whose new list is still empty
  rules,     \* history: the configuration the tables were last made from
  call,      \* the write each worker has under way
  watcher,   \* the watch task: "none", "sleeping", "loading", "notifying",
             \* "applying", or "ended" with the handle still kept
  previous,  \* the signature the watcher saw last
  loaded,    \* the settings being announced
  stopping,  \* _stop_event is set and stop() waits for the watch task
  faults,    \* faults so far, counted for the bound
  mishap     \* history: a fault kept the present content from being applied

tableVars == <<table, fallback, place, rules>>
reloadVars == <<watcher, previous, loaded, stopping, faults, mishap>>
vars == <<file, overlap, parallel, tableVars, call, reloadVars>>

(***************************************************************************)
(* A call: the level of the event; whether the level was found in the      *)
(* table; the targets in order and how far each has come; the list of the  *)
(* table they are, while that may still grow; whether all are begun at     *)
(* once; and, as history, the configuration in force when it looked, and   *)
(* whether an update_rules() overlapped the look.                          *)
(***************************************************************************)
NoCall == [phase |-> "none", level |-> Missing, hit |-> FALSE, targets |-> <<>>,
           status |-> <<>>, source |-> Missing, together |-> FALSE,
           config |-> Missing, torn |-> FALSE]
Status == {"waiting", "writing", "done"}
Sources == Levels \cup {Wildcard, Missing}

\* update_rules() is not running.
Nowhere == [rule |-> 0, left |-> {}, open |-> Missing]

TypeOK ==
  /\ file \in [content : Contents, signature : 0 .. MaxEdits]
  /\ overlap \in Overlaps /\ parallel \in ParallelModes
  /\ DOMAIN table \subseteq Levels /\ table \in [DOMAIN table -> Seq(Sinks)]
  /\ fallback \in Seq(Sinks)
  /\ place \in [rule : Nat, left : SUBSET (Levels \cup {Wildcard}), open : Levels \cup {Missing}]
  /\ rules \in Configs \ Invalid
  /\ call \in [Writers -> [phase : {"none", "looking", "listed"},
                           level : Levels \cup {Missing}, hit : BOOLEAN,
                           targets : Seq(Sinks), status : Seq(Status), source : Sources,
                           together : BOOLEAN, config : Contents, torn : BOOLEAN]]
  /\ watcher \in {"none", "sleeping", "loading", "notifying", "applying", "ended"}
  /\ previous \in -1 .. MaxEdits
  /\ loaded \in Contents
  /\ stopping \in BOOLEAN /\ faults \in 0 .. MaxFaults /\ mishap \in BOOLEAN

Init ==
  /\ file = [content |-> FirstConfig, signature |-> 0]
  /\ overlap \in Overlaps /\ parallel \in ParallelModes
  /\ table = Table(Rules[FirstConfig], Levels, overlap)
  /\ fallback = Fallback(Rules[FirstConfig])
  /\ place = Nowhere /\ rules = FirstConfig
  /\ call = [w \in Writers |-> NoCall]
  /\ watcher = "none" /\ previous = -1
  /\ loaded = Missing
  /\ stopping = FALSE /\ faults = 0 /\ mishap = FALSE

-----------------------------------------------------------------------------
(* The file *)

Edit ==
  /\ file.signature < MaxEdits
  /\ \E c \in Contents \ {file.content} :
       file' = [content |-> c, signature |-> file.signature + 1]
  /\ mishap' = FALSE
  /\ UNCHANGED <<overlap, parallel, tableVars, call, watcher, previous, loaded, stopping,
                 faults>>

-----------------------------------------------------------------------------
(* RoutingSinkWriter: a write *)

\* get_sinks_for_level() looks whether the level is in the table ...
BeginWrite(w, level) ==
  /\ call[w] = NoCall
  /\ call' = [call EXCEPT ![w] = [NoCall EXCEPT
                 !.phase = "looking", !.level = level, !.hit = level \in DOMAIN table,
                 !.config = rules, !.torn = watcher = "applying"]]
  /\ UNCHANGED <<file, overlap, parallel, tableVars, reloadVars>>

\* ... and takes its list, or that of the fallback; a level that has gone from
\* the table in between is a KeyError, which ends the write.  What is taken is
\* the list itself, which update_rules() may go on to extend.
FetchTargets(w) ==
  /\ call[w].phase = "looking"
  /\ LET from == IF call[w].hit THEN call[w].level ELSE Wildcard
         list == IF call[w].hit THEN table[call[w].level] ELSE fallback
     IN IF call[w].hit /\ call[w].level \notin DOMAIN table
        THEN call' = [call EXCEPT ![w] = NoCall]
        ELSE call' = [call EXCEPT ![w] = [@ EXCEPT
               !.phase = "listed", !.targets = list,
               !.status = [i \in 1 .. Len(list) |-> "waiting"],
               !.source = IF list = <<>> THEN Missing ELSE from,
               !.together = parallel /\ Len(list) > 1]]
  /\ UNCHANGED <<file, overlap, parallel, tableVars, reloadVars>>

\* Target i is next: with parallel writes all are, else the earlier ones are done.
Ready(w, i) ==
  /\ i \in 1 .. Len(call[w].targets) /\ call[w].status[i] = "waiting"
  /\ call[w].together \/ \A j \in 1 .. i - 1 : call[w].status[j] = "done"

\* _write_one: an open circuit skips the target; else the sink is started, if
\* nothing has started it yet, and written to, whatever becomes of the start.
\* Parallel writes have all been called before the first begins.
BeginTarget(w, i) ==
  /\ Ready(w, i)
  /\ \E to \in {"writing", "done"} :
       call' = [call EXCEPT ![w].status[i] = to,
                            ![w].source = IF call[w].together THEN Missing ELSE @]
  /\ UNCHANGED <<file, overlap, parallel, tableVars, reloadVars>>

\* write() of the sink succeeds or fails; a failure goes no further than the target.
WriteEnds(w, i) ==
  /\ i \in 1 .. Len(call[w].status) /\ call[w].status[i] = "writing"
  /\ call' = [call EXCEPT ![w].status[i] = "done"]
  /\ UNCHANGED <<file, overlap, parallel, tableVars, reloadVars>>

Finished(w) ==
  /\ call[w].phase = "listed"
  /\ \A i \in 1 .. Len(call[w].status) : call[w].status[i] = "done"

\* The write returns, at once if it has no targets, and the worker goes on to the
\* next event.
EndWrite(w) ==
  /\ Finished(w)
  /\ call' = [call EXCEPT ![w] = NoCall]
  /\ UNCHANGED <<file, overlap, parallel, tableVars, reloadVars>>

WriteStep(w) ==
  \/ FetchTargets(w)
  \/ \E i \in 1 .. Len(call[w].status) :
       BeginTarget(w, i) \/ WriteEnds(w, i)
  \/ EndWrite(w)

-----------------------------------------------------------------------------
(* RoutingSinkWriter: update_rules() *)

\* The writes that may hold a list of the table, or that of the fallback, when it
\* is dropped for a new one.
Detached(of) ==
  [w \in Writers |-> IF call[w].source \in of THEN [call[w] EXCEPT !.source = Missing]
                     ELSE call[w]]

\* The writes that hold the list of a level, or that of the fallback, see it grow.
Grown(of, more) ==
  [w \in Writers |->
     IF call[w].source # of THEN call[w]
     ELSE [call[w] EXCEPT !.targets = @ \o more,
                          !.status = @ \o [i \in 1 .. Len(more) |-> "waiting"]]]

\* Mutant: the lists are emptied in place and filled again, and a write that
\* holds one goes on with what is left of it.
EmptiesTheLists ==
  /\ watcher = "notifying"
  /\ watcher' = "applying" /\ table' = <<>>
  /\ call' = [w \in Writers |->
       CASE call[w].source \in Levels ->
              [call[w] EXCEPT !.source = Missing, !.targets = <<>>, !.status = <<>>]
         [] call[w].phase = "looking" -> [call[w] EXCEPT !.torn = TRUE]
         [] OTHER -> call[w]]
  /\ UNCHANGED <<file, overlap, parallel, fallback, place, rules, previous, loaded, stopping,
                 faults, mishap>>

\* The last subscriber is called, and the table is emptied: its lists are not.
ClearTable ==
  /\ watcher = "notifying"
  /\ watcher' = "applying" /\ table' = <<>>
  /\ call' = [w \in Writers |-> [Detached(Levels)[w] EXCEPT
                                   !.torn = @ \/ call[w].phase = "looking"]]
  /\ UNCHANGED <<file, overlap, parallel, fallback, place, rules, previous, loaded, stopping,
                 faults, mishap>>

\* Where update_rules() stands when it turns to a rule.
AtRule(i) ==
  [rule |-> i, open |-> Missing,
   left |-> IF i > Len(Rules[loaded].rules) THEN {} ELSE Rules[loaded].rules[i].levels]

ReplaceFallback ==
  /\ watcher = "applying" /\ place.rule = 0
  /\ fallback' = Rules[loaded].fallback /\ place' = AtRule(1)
  /\ call' = Detached({Wildcard})
  /\ UNCHANGED <<file, overlap, parallel, table, rules, reloadVars>>

\* The rule being placed, and its levels still to be, in any order.
Placing == watcher = "applying" /\ place.left # {}
Resolved == Rules[loaded].rules[place.rule].sinks

PlaceWildcard ==
  /\ Placing /\ place.open = Missing /\ Wildcard \in place.left
  /\ fallback' = fallback \o Resolved
  /\ call' = Grown(Wildcard, Resolved)
  /\ place' = [place EXCEPT !.left = @ \ {Wildcard}]
  /\ UNCHANGED <<file, overlap, parallel, table, rules, reloadVars>>

\* setdefault() of a level that has no list yet: an empty one if rules overlap,
\* else the sinks of this rule.
AddLevel(level) ==
  /\ Placing /\ place.open = Missing /\ level \in place.left \ DOMAIN table
  /\ LET new == IF overlap THEN <<>> ELSE Resolved
     IN table' = [l \in DOMAIN table \cup {level} |-> IF l = level THEN new ELSE table[l]]
  /\ place' = IF overlap THEN [place EXCEPT !.open = level]
              ELSE [place EXCEPT !.left = @ \ {level}]
  /\ UNCHANGED <<file, overlap, parallel, fallback, rules, call, reloadVars>>

\* A level that has a list: if rules overlap it is extended, else left as it is.
ExtendLevel(level) ==
  /\ Placing /\ place.open \in {Missing, level} /\ level \in place.left \cap DOMAIN table
  /\ IF overlap
     THEN /\ table' = [table EXCEPT ![level] = @ \o Resolved]
          /\ call' = Grown(level, Resolved)
     ELSE UNCHANGED <<table, call>>
  /\ place' = [place EXCEPT !.left = @ \ {level}, !.open = Missing]
  /\ UNCHANGED <<file, overlap, parallel, fallback, rules, reloadVars>>

NextRule ==
  /\ watcher = "applying" /\ place.left = {} /\ place.rule \in 1 .. Len(Rules[loaded].rules)
  /\ place' = AtRule(place.rule + 1)
  /\ UNCHANGED <<file, overlap, parallel, table, fallback, rules, call, reloadVars>>

\* Mutant: the signature is taken once more when the change has been applied.
ApplyThenMark ==
  /\ watcher = "applying" /\ place.rule > Len(Rules[loaded].rules)
  /\ watcher' = "sleeping" /\ place' = Nowhere
  /\ rules' = loaded /\ loaded' = Missing /\ previous' = file.signature
  /\ UNCHANGED <<file, overlap, parallel, table, fallback, call, stopping, faults, mishap>>

\* update_rules() returns, and the watcher with it.
EndUpdate ==
  /\ watcher = "applying" /\ place.rule > Len(Rules[loaded].rules)
  /\ watcher' = "sleeping" /\ place' = Nowhere
  /\ rules' = loaded /\ loaded' = Missing
  /\ UNCHANGED <<file, overlap, parallel, table, fallback, call, previous, stopping, faults,
                 mishap>>

UpdateStep ==
  \/ ClearTable \/ ReplaceFallback \/ PlaceWildcard \/ NextRule
  \/ \E level \in Levels : AddLevel(level) \/ ExtendLevel(level)

-----------------------------------------------------------------------------
(* ConfigHotReloader *)

\* start(): nothing if there is a task, even one that has ended.
StartReloader ==
  /\ watcher = "none" /\ ~stopping
  /\ watcher' = "sleeping" /\ previous' = -1
  /\ UNCHANGED <<file, overlap, parallel, tableVars, call, loaded, stopping, faults, mishap>>

\* The watcher wakes up, unless it is to stop: a missing file is waited for, and
\* a new signature is remembered before anything is made of the change.
Poll ==
  /\ watcher = "sleeping" /\ ~stopping
  /\ IF file.content = Missing \/ previous = file.signature
       THEN UNCHANGED <<watcher, previous>>
       ELSE watcher' = "loading" /\ previous' = file.signature
  /\ UNCHANGED <<file, overlap, parallel, tableVars, call, loaded, stopping, faults, mishap>>

\* The loader reads the file as it is by now; what it or the validator refuses
\* is reported, the rest is recorded (_last_good) and announced.
Load ==
  /\ watcher = "loading"
  /\ IF file.content \in Invalid \cup {Missing}
       THEN watcher' = "sleeping" /\ UNCHANGED loaded
       ELSE watcher' = "notifying" /\ loaded' = file.content
  /\ UNCHANGED <<file, overlap, parallel, tableVars, call, previous, stopping, faults, mishap>>

\* An earlier subscriber raises: the rest is not told, the error is reported.
SubscriberFails ==
  /\ watcher = "notifying" /\ faults < MaxFaults
  /\ faults' = faults + 1 /\ mishap' = TRUE
  /\ watcher' = "sleeping" /\ loaded' = Missing
  /\ UNCHANGED <<file, overlap, parallel, tableVars, call, previous, stopping>>

\* The file cannot be read (not for being missing), or the error callback
\* raises: the exception ends the watch task.
WatcherDies ==
  /\ watcher \in {"sleeping", "loading", "notifying"} /\ ~stopping /\ faults < MaxFaults
  /\ faults' = faults + 1 /\ mishap' = TRUE
  /\ watcher' = "ended" /\ loaded' = Missing
  /\ UNCHANGED <<file, overlap, parallel, tableVars, call, previous, stopping>>

\* stop(): the event is set, the task is waited for, the handle is dropped.
BeginStop ==
  /\ watcher # "none" /\ ~stopping
  /\ stopping' = TRUE
  /\ UNCHANGED <<file, overlap, parallel, tableVars, call, watcher, previous, loaded,
                 faults, mishap>>

\* asyncio.wait returns: the task has come back to where it sees the event.
TaskDone == watcher \in {"sleeping", "ended"}

EndStop ==
  /\ stopping /\ TaskDone
  /\ stopping' = FALSE /\ watcher' = "none"
  /\ UNCHANGED <<file, overlap, parallel, tableVars, call, previous, loaded, faults, mishap>>

WatchStep == Poll \/ Load \/ UpdateStep \/ EndUpdate

-----------------------------------------------------------------------------
Next ==
  \/ Edit
  \/ \E w \in Writers : WriteStep(w) \/ \E level \in Levels : BeginWrite(w, level)
  \/ StartReloader \/ WatchStep \/ SubscriberFails \/ WatcherDies \/ BeginStop \/ EndStop

Spec == Init /\ [][Next]_vars

\* The event loop runs every task that is ready, and sinks and callbacks return.
FairSpec ==
  /\ Spec
  /\ WF_vars(WatchStep) /\ WF_vars(EndStop)
  /\ \A w \in Writers : WF_vars(WriteStep(w))

-----------------------------------------------------------------------------
(* Properties *)

\* What the documentation of the rules promises for a level: the sinks of all
\* rules for it if rules overlap, of the first one if not, and the fallback
\* sinks if there is none.
Promised(config, level) ==
  LET matching == {i \in 1 .. Len(config.rules) : level \in config.rules[i].levels}
      wild == {i \in 1 .. Len(config.rules) : Wildcard \in config.rules[i].levels}
      named(is) == UNION {ToSet(config.rules[i].sinks) : i \in is}
  IN CASE matching = {} -> named(wild) \cup ToSet(config.fallback)
       [] matching # {} /\ overlap -> named(matching)
       [] matching # {} /\ ~overlap ->
            named({i \in matching : \A j \in matching : i <= j})

\* A write that no update_rules() overlapped while it looked for its targets goes
\* to the sinks that the rules in force promise, all of them and no others,
\* however often the rules change while it goes through the list it took
\* (routing.py:142-161, 226-249).  One that was overlapped may find a level gone,
\* empty or half filled: that is the premise.
RoutedAsDecided ==
  \A w \in Writers : call[w].phase = "listed" /\ ~call[w].torn =>
    ToSet(call[w].targets) = Promised(Rules[call[w].config], call[w].level)

\* Where an event of the level goes as the tables are now.
Routed(level) == IF level \in DOMAIN table THEN ToSet(table[level]) ELSE ToSet(fallback)

\* A reloader that stays alive brings the tables in line with the file once the
\* file has settled on something valid, although each content may change between
\* its signature, its loading and its announcement - unless a fault kept that
\* content from being applied: it is not tried again.
Converges ==
  <>[](watcher \notin {"none", "ended"} /\ ~stopping /\ ~mishap
       /\ file.content \in Configs \ Invalid)
    => <>[](/\ file.content \in Configs \ Invalid
            /\ \A level \in Levels : Routed(level) = Promised(Rules[file.content], level))
=============================================================================
