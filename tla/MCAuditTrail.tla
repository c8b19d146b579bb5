---------------------------- MODULE MCAuditTrail ----------------------------
(* A small instance of AuditTrail for TLC. *)
EXTENDS AuditTrail, TLC

EventSymmetry == Permutations(Events)
=============================================================================
