---------------------------- MODULE MCAcceptLock ----------------------------
(* Model values for AcceptLock: pids are interchangeable. *)
EXTENDS AcceptLock, TLC
Interchangeable == Permutations(Pids)
=============================================================================
