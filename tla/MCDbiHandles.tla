---------------------------- MODULE MCDbiHandles ----------------------------
(***************************************************************************)
(* Instances of DbiHandles for TLC.                                        *)
(***************************************************************************)
EXTENDS DbiHandles, TLC

CONSTANTS s1, s2, s3

Interchangeable == Permutations(Sths)
=============================================================================
