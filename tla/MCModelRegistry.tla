-------------------------- MODULE MCModelRegistry ---------------------------
(***************************************************************************)
(* ModelRegistry for TLC: more sessions than the table has room for.       *)
(***************************************************************************)
EXTENDS ModelRegistry
=============================================================================
