------------------------- MODULE MCAdaptiveDelivery -------------------------
(* A small instance of AdaptiveDelivery for TLC, with the default thresholds. *)
EXTENDS AdaptiveDelivery

DefaultEscalateTo == [l \in 1 .. 3 |-> CASE l = 1 -> 60 [] l = 2 -> 80 [] l = 3 -> 92]
DefaultDeescalateTo == [l \in 0 .. 2 |-> CASE l = 0 -> 40 [] l = 1 -> 60 [] l = 2 -> 75]
=============================================================================
