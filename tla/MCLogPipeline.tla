---------------------------- MODULE MCLogPipeline ----------------------------
(* LogPipeline on small instances: the .cfg files MCLogPipeline_*.cfg give  *)
(* every constant a value; callers and workers are interchangeable.        *)
EXTENDS LogPipeline, TLC

CONSTANTS c1, c2, e1, e2, e3, e4, w1, w2, d1

CallerSymmetry == Permutations(Callers)

Symmetry == Permutations(Callers) \cup Permutations(Initial)
=============================================================================
