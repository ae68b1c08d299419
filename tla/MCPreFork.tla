----------------------------- MODULE MCPreFork -----------------------------
(* Model values for PreFork: pids are interchangeable. *)
EXTENDS PreFork, TLC
Interchangeable == Permutations(Pids)
=============================================================================
