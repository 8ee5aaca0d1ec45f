-------------------------- MODULE MCSessionControl --------------------------
(***************************************************************************)
(* SessionControl for TLC.  The remote session ids are interchangeable.    *)
(***************************************************************************)
EXTENDS SessionControl, TLC

SessionSymmetry == Permutations(Sessions)
=============================================================================
