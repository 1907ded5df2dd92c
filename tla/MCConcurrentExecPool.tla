------------------------ MODULE MCConcurrentExecPool ------------------------
(* ConcurrentExecPool for TLC.  The names of tasks, workers and producers  *)
(* carry no order, so runs without temporal properties may use symmetry.   *)
EXTENDS ConcurrentExecPool, TLC

Symmetry == Permutations(Tasks) \cup Permutations(Workers) \cup Permutations(Producers)
=============================================================================
