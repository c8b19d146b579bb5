----------------------------- MODULE MCSealedLog -----------------------------
(* A small instance of SealedLog for TLC. *)
EXTENDS SealedLog

Symmetry == Permutations(Workers) \cup Permutations(Events)
=============================================================================
