----------------------------- MODULE MCAgentLoop -----------------------------
(* Instances of AgentLoop for TLC.                                          *)
EXTENDS AgentLoop, TLC

\* What the shipped webview.html can post, and all the provider listens for.
Shipped == {"sendMessage", "newChat"}
Everything == Shipped \cup {"stopGeneration"}

\* Runs, arrays and ids are interchangeable (safety only).
Interchangeable == Permutations(Runs) \cup Permutations(Chats) \cup Permutations(Ids)
=============================================================================
