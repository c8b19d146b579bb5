---------------------------- MODULE MCHotRouting ----------------------------
(* Small instances of HotRouting for TLC. *)
EXTENDS HotRouting, TLC

CONSTANTS s1, s2, c1, c2

\* c1 routes ERROR by two rules; c2 leaves INFO to the wildcard and the fallback.
MCRules ==
  (c1 :> [rules |-> <<[levels |-> {"ERROR"}, sinks |-> <<s1>>],
                      [levels |-> {"INFO", "ERROR"}, sinks |-> <<s2>>]>>,
          fallback |-> <<>>])
  @@
  (c2 :> [rules |-> <<[levels |-> {"ERROR"}, sinks |-> <<s2>>],
                      [levels |-> {Wildcard}, sinks |-> <<s1>>]>>,
          fallback |-> <<s2>>])
=============================================================================
