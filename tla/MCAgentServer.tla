---------------------------- MODULE MCAgentServer ----------------------------
(* Instances of AgentServer for TLC.                                         *)
EXTENDS AgentServer, TLC

Interchangeable == Permutations(Requests)
=============================================================================
