---------------------------- MODULE MCContexts ----------------------------
(***************************************************************************)
(* Instances of Contexts for TLC.                                          *)
(***************************************************************************)
EXTENDS Contexts, TLC

CONSTANTS f, g

Interchangeable == Permutations(Cvs)
=============================================================================
