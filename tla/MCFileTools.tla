----------------------------- MODULE MCFileTools ------------------------------
(* Instances of FileTools for TLC.                                           *)
EXTENDS FileTools, TLC

\* The buttons of the shipped webview.html, and all the provider listens for.
Shipped == {"approveEdit", "rejectEdit"}
Everything == Decisions

\* Calls of one tool are interchangeable, and so are files (safety only).
Interchangeable == Permutations(Edits) \cup Permutations(Patches) \cup Permutations(Files)
=============================================================================
