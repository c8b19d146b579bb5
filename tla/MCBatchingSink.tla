--------------------------- MODULE MCBatchingSink ---------------------------
(* Small instances of BatchingSink for TLC. *)
EXTENDS BatchingSink
=============================================================================
