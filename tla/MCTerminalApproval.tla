-------------------------- MODULE MCTerminalApproval --------------------------
(* Instances of TerminalApproval for TLC.                                   *)
EXTENDS TerminalApproval, TLC

\* Calls and ids are interchangeable (safety only).
Interchangeable == Permutations(Cmds) \cup Permutations(Ids)
=============================================================================
