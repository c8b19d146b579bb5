--------------------------- MODULE MCRotatingFile ---------------------------
(* A small instance of RotatingFile for TLC. *)
EXTENDS RotatingFile

CONSTANTS w1, w2, r1, r2, r3

\* Compressed or not, and each mode.
MCSettings == {[zips |-> TRUE, mode |-> "json"], [zips |-> FALSE, mode |-> "strict"],
               [zips |-> FALSE, mode |-> "text"]}

Symmetry == Permutations(Writers) \cup Permutations(Records \ (Big \cup Awkward))
=============================================================================
