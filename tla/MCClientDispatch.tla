-------------------------- MODULE MCClientDispatch --------------------------
(***************************************************************************)
(* Instances of ClientDispatch for TLC.  p and h prompt one session, q     *)
(* another; k is a control operation on the first session.                 *)
(***************************************************************************)
EXTENDS ClientDispatch

CONSTANTS s1, s2, p, h, k, q

\* The session of each operation of an instance.
MCSessionOf == [x \in Prompts |-> IF x = q THEN s2 ELSE s1]
=============================================================================
