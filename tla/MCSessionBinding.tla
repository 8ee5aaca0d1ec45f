-------------------------- MODULE MCSessionBinding --------------------------
(***************************************************************************)
(* SessionBinding for TLC.  The remote session ids are interchangeable.    *)
(***************************************************************************)
EXTENDS SessionBinding, TLC

SessionSymmetry == Permutations(Sessions)
=============================================================================
