---------------------------- MODULE RoutingRules ----------------------------
(***************************************************************************)
(* RoutingSinkWriter (core/routing.py): the sinks an event of a level goes *)
(* to under a routing configuration.  Names are normalised and rules that  *)
(* name unknown sinks are resolved to the known ones; a configuration here *)
(* is already in that form.                                                *)
(*                                                                         *)
(*   rules     (levels, sinks) pairs in order; "*" among the levels makes  *)
(*             the sinks of the rule fallback sinks                        *)
(*   fallback  fallback_sink_names                                         *)
(***************************************************************************)
EXTENDS Integers, Sequences, SequencesExt

Wildcard == "*"

\* The rules that name the level.
RulesFor(config, level) ==
  {i \in 1 .. Len(config.rules) : level \in config.rules[i].levels}

\* The sinks of the rules chosen, one rule after the other.
SinksOf(config, chosen) ==
  FlattenSeq([i \in 1 .. Len(config.rules) |->
                IF i \in chosen THEN config.rules[i].sinks ELSE <<>>])

\* _level_to_entries has an entry for the level, perhaps an empty one.
HasRoute(config, level) == RulesFor(config, level) # {}

\* _level_to_entries[level]: with overlap what all rules of the level name, and
\* a sink named twice gets the event twice; without, what the first rule names.
Entries(config, level, overlap) ==
  LET mine == RulesFor(config, level)
      first == CHOOSE i \in mine : \A j \in mine : i <= j
  IN IF overlap THEN SinksOf(config, mine) ELSE config.rules[first].sinks

\* _fallback_entries as __init__ fills it; update_rules() puts the wildcard rules
\* last.
Fallback(config) ==
  SinksOf(config, RulesFor(config, Wildcard)) \o config.fallback

\* _level_to_entries as __init__ fills it.
Table(config, levels, overlap) ==
  [level \in {l \in levels : HasRoute(config, l)} |-> Entries(config, level, overlap)]
=============================================================================
