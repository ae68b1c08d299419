---------------------------- MODULE MCTxnStorage ----------------------------
(***************************************************************************)
(* Instances of TxnStorage for TLC.                                        *)
(***************************************************************************)
EXTENDS TxnStorage

\* The connection may be lost at COMMIT, before it or after it.
Answers == {"ok", "lost", "lost after"}
=============================================================================
