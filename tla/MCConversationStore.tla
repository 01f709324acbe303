------------------------- MODULE MCConversationStore -------------------------
(* Instances of ConversationStore for TLC.                                   *)
EXTENDS ConversationStore, TLC

\* The shipped webview.html posts neither loadChat nor deleteChat, which the
\* provider listens for.
Shipped == {}
Everything == {"loadChat", "deleteChat"}

\* Ids are interchangeable (safety only).
Interchangeable == Permutations(Ids)
=============================================================================
