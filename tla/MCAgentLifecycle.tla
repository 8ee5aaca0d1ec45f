-------------------------- MODULE MCAgentLifecycle --------------------------
(***************************************************************************)
(* AgentLifecycle with two concurrent first calls and two         *)
(* concurrent calls of Close.                                              *)
(***************************************************************************)
EXTENDS AgentLifecycle
=============================================================================
