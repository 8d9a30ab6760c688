-------------------------- MODULE MCTaskExecutions --------------------------
(* Small instances of TaskExecutions for TLC.                              *)
EXTENDS TaskExecutions, TLC

CONSTANTS t1, c1, c2, w1, w2, a, b

Symmetry == Permutations(Operators)
=============================================================================
