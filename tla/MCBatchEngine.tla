---------------------------- MODULE MCBatchEngine ----------------------------
(* BatchEngine on small instances: run keys, servers, executors and admins   *)
(* are interchangeable.                                                      *)
EXTENDS BatchEngine, TLC

Symmetry == Permutations(RunKeys) \cup Permutations(Servers) \cup Permutations(Executors)
==============================================================================
