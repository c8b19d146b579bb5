-------------------------- MODULE MCLoggerLifecycle --------------------------
(* Small instances of LoggerLifecycle for TLC. *)
EXTENDS LoggerLifecycle, TLC

\* All callers on the main loop, or one on a loop (or in a thread) of its own.
MCPlacements ==
  LET alone == CHOOSE c \in Callers : TRUE
  IN  {[c \in Callers |-> MainLoop],
       [c \in Callers |-> IF c = alone THEN "other" ELSE MainLoop]}

\* Nothing is claimed of a process in which starts got in each other's way.
NotTorn == torn = {}
=============================================================================
