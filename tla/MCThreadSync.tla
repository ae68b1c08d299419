---------------------------- MODULE MCThreadSync ----------------------------
(***************************************************************************)
(* Instances of ThreadSync for TLC.                                        *)
(***************************************************************************)
EXTENDS ThreadSync, TLC

CONSTANTS t1, t2, t3, t4, a, b

Interchangeable == Permutations(Threads)

\* Insert and extract from before the head to beyond the tail.
AllIndexes == -4 .. 4

\* down_force can take the count below zero.
BelowZero == -1
=============================================================================
