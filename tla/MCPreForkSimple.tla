--------------------------- MODULE MCPreForkSimple ---------------------------
(* Model values for PreForkSimple: pids are interchangeable. *)
EXTENDS PreForkSimple, TLC
Interchangeable == Permutations(Pids)
=============================================================================
