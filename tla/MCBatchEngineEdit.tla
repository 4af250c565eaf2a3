-------------------------- MODULE MCBatchEngineEdit --------------------------
(* BatchEngineEdit on small instances. *)
EXTENDS BatchEngineEdit, TLC

Symmetry == Permutations(RunKeys) \cup Permutations(Servers) \cup Permutations(Executors)
==============================================================================
