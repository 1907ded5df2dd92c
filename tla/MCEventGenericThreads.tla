----------------------- MODULE MCEventGenericThreads -----------------------
(* EventGenericThreads for TLC.                                            *)
EXTENDS EventGenericThreads, TLC

Symmetry == Permutations(Tasks)
=============================================================================
