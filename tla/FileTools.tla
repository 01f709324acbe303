------------------------------- MODULE FileTools -------------------------------
(***************************************************************************)
(* The tools of the extension that change files, and the proposed edits    *)
(* that wait for the user.  edit_file writes the whole file at once on     *)
(* autopilot and proposes it on a card otherwise; search_replace reads,    *)
(* replaces and writes, delete_file deletes, both without asking.          *)
(*                                                                         *)
(* The calls of an answer run concurrently (Promise.all), those of another *)
(* run too, and so do the handlers of the cards' buttons: each is atomic   *)
(* between two awaits of the file system.                                  *)
(***************************************************************************)
EXTENDS Sequences, FiniteSets

CONSTANTS
    Files,         \* files of the workspace
    Edits,         \* calls of edit_file, each also the new piece of text it has
    Patches,       \* calls of search_replace, each also its new_string
    Deletes,       \* calls of delete_file
    Lines,         \* the pieces of text a file has at first
    None,
    Offered        \* decisions the webview can post

Tools == Edits \cup Patches \cup Deletes
CardDecisions == {"approveEdit", "rejectEdit"}
Decisions == CardDecisions \cup {"approveAll", "rejectAll"}

ASSUME ToolsAssumption ==
    /\ Edits \cap Patches = {} /\ Edits \cap Deletes = {} /\ Patches \cap Deletes = {}
    /\ Lines \cap Tools = {} /\ None \notin Tools \cup Lines \cup Files \cup {"pending"}
    /\ Offered \subseteq Decisions

VARIABLES
    disk,          \* the pieces in each file, None when there is no file
    securityMode,
    pc,            \* the await each call is in
    path,          \* the path its arguments name
    text,          \* what it writes or proposes to; None deletes
    result,
    pendingEdits,  \* _pendingEdits, by the path the model wrote
    card,          \* the card of each edit
    toHost,        \* decisions posted by the webview
    applying,      \* _writePendingEdit calls awaiting their write
    sweep,         \* the _approveAllEdits call that awaits a write
    trusted,       \* history: edits begun on autopilot, all after an approveAll
    taken,         \* history: edits a handler has begun to write
    refused,       \* history: edits a reject took away before that
    failed         \* history: edits whose approved write failed

toolVars == <<pc, path, text, result>>
historyVars == <<trusted, taken, refused, failed>>
vars == <<disk, securityMode, toolVars, pendingEdits, card, toHost, applying,
          sweep, historyVars>>

-----------------------------------------------------------------------------
(* A path may be written relative to the workspace or absolute; the tools  *)
(* resolve both to the file, the map of proposals does not.  (Paths have   *)
(* no backslash: the script of a card would not keep it.)                  *)

Path == [file: Files, form: {"absolute", "relative"}]
fsPath(f) == [file |-> f, form |-> "absolute"]

Contents == (SUBSET (Lines \cup Edits \cup Patches)) \cup {None}
Has(f, piece) == disk[f] # None /\ piece \in disk[f]

NoProposals == [n \in Path |-> None]

\* (A file that does not exist yet is one that delete_file has removed.)
Init ==
    /\ disk = [f \in Files |-> Lines]
    /\ securityMode \in {"secure", "full"}
    /\ pc = [t \in Tools |-> "idle"]
    /\ path = [t \in Tools |-> None]
    /\ text = [t \in Tools |-> None]
    /\ result = [t \in Tools |-> None]
    /\ pendingEdits = NoProposals
    /\ card = [e \in Edits |-> "none"]
    /\ toHost = <<>> /\ applying = {} /\ sweep = None
    /\ trusted = {} /\ taken = {} /\ refused = {} /\ failed = {}

-----------------------------------------------------------------------------
(* The tools.                                                              *)

\* (A definition named like another with a suffix is a mutant: a plausible
\* slip that the run must detect.)
AsksFirstForgotten(t) == FALSE
AsksFirst(t) == t \in Edits /\ securityMode = "secure"

\* How the path is written matters for a proposal only.
Paths(t) == IF t \in Edits THEN Path ELSE {fsPath(f) : f \in Files}

\* code_edit replaces the whole file; it may repeat some of the old text.
NewTexts(t) == IF t \in Edits THEN {{t} \cup keeps : keeps \in SUBSET Lines} ELSE {None}

\* A call begins: search_replace and a proposed edit read the file first.
Start(t) ==
    /\ pc[t] = "idle"
    /\ \E n \in Paths(t) : path' = [path EXCEPT ![t] = n]
    /\ pc' = [pc EXCEPT ![t] = IF t \in Patches \/ AsksFirst(t) THEN "reading" ELSE "writing"]
    /\ \E x \in NewTexts(t) : text' = [text EXCEPT ![t] = x]
    /\ trusted' = IF t \in Edits /\ securityMode = "full" THEN trusted \cup {t} ELSE trusted
    /\ UNCHANGED <<disk, securityMode, result, pendingEdits, card, toHost,
                   applying, sweep, taken, refused, failed>>

Returns(t, r) ==
    /\ pc' = [pc EXCEPT ![t] = "over"]
    /\ result' = [result EXCEPT ![t] = r]

\* The file is read, or cannot be: the proposal is made anyway, it only
\* counts lines.  An older proposal for the same path is replaced.  The card is
\* posted to the view, and lost when that is hidden.
Propose(e) ==
    /\ pc[e] = "reading" /\ e \in Edits
    /\ pendingEdits' = [pendingEdits EXCEPT ![path[e]] = e]
    /\ \E x \in {"shown", "gone"} : card' = [card EXCEPT ![e] = x]
    /\ Returns(e, "pending")
    /\ UNCHANGED <<disk, securityMode, path, text, toHost, applying, sweep, historyVars>>

\* old_string is found in what was read, and the new text is on its way.
Replace(p) ==
    /\ pc[p] = "reading" /\ p \in Patches
    /\ \E old \in Lines :
        /\ Has(path[p].file, old)
        /\ text' = [text EXCEPT ![p] = (disk[path[p].file] \ {old}) \cup {p}]
    /\ pc' = [pc EXCEPT ![p] = "writing"]
    /\ UNCHANGED <<disk, securityMode, path, result, pendingEdits, card, toHost,
                   applying, sweep, historyVars>>

\* There is no such file, it lacks old_string, or the file system refuses.
ToolFails(t) ==
    /\ pc[t] \in {"reading", "writing"} /\ ~(t \in Edits /\ pc[t] = "reading")
    /\ Returns(t, "error")
    /\ UNCHANGED <<disk, securityMode, path, text, pendingEdits, card, toHost,
                   applying, sweep, historyVars>>

WriteLands(t) ==
    /\ pc[t] = "writing"
    /\ t \in Deletes => disk[path[t].file] # None
    /\ disk' = [disk EXCEPT ![path[t].file] = text[t]]
    /\ Returns(t, "success")
    /\ UNCHANGED <<securityMode, path, text, pendingEdits, card, toHost, applying,
                   sweep, historyVars>>

-----------------------------------------------------------------------------
(* The user: the buttons of a card, which remove it, and those for all     *)
(* proposals, which the shipped webview does not have.                     *)

Clicked(type) == IF type = "approveEdit" THEN "approved" ELSE "rejected"

ClickCard(e, type) ==
    /\ type \in Offered \cap CardDecisions
    /\ card[e] = "shown"
    /\ card' = [card EXCEPT ![e] = Clicked(type)]
    \* (The card is for the model to tell two clicks apart: the code sends the file.)
    /\ toHost' = Append(toHost, [type |-> type, file |-> path[e].file, card |-> e])
    /\ UNCHANGED <<disk, securityMode, toolVars, pendingEdits, applying, sweep, historyVars>>

\* (Bound of the instance: one decision about all proposals is queued.)
ClickAll(type) ==
    /\ type \in Offered \ CardDecisions
    /\ toHost = <<>> /\ \E n \in Path : pendingEdits[n] # None
    /\ toHost' = Append(toHost, [type |-> type])
    /\ trusted' = IF type = "approveAll" THEN Edits ELSE trusted
    /\ UNCHANGED <<disk, securityMode, toolVars, pendingEdits, card, applying, sweep,
                   taken, refused, failed>>

\* newChat empties the list, and so does hiding the view; the proposals stay.
ClearList ==
    /\ \E e \in Edits : card[e] = "shown"
    /\ card' = [e \in Edits |-> IF card[e] = "shown" THEN "gone" ELSE card[e]]
    /\ UNCHANGED <<disk, securityMode, toolVars, pendingEdits, toHost, applying, sweep,
                   historyVars>>

SwitchMode ==
    /\ securityMode' \in {"secure", "full"} \ {securityMode}
    /\ UNCHANGED <<disk, toolVars, pendingEdits, card, toHost, applying, sweep, historyVars>>

-----------------------------------------------------------------------------
(* The handlers of the decisions.                                          *)

\* A key that left the Map and comes back is visited again by its iterator.
Drop(ns) ==
    /\ pendingEdits' = [n \in Path |-> IF n \in ns THEN None ELSE pendingEdits[n]]
    /\ sweep' = IF sweep = None THEN None ELSE [sweep EXCEPT !.visited = @ \ ns]

DropRejectedForgotten(ns) == UNCHANGED <<pendingEdits, sweep>>
DropRejected(ns) == Drop(ns)

Receive(type) ==
    /\ toHost # <<>> /\ Head(toHost).type = type
    /\ toHost' = Tail(toHost)

\* approveEdit: the proposal, if any, of the absolute path is being written.
LookupUnchecked(m) ==
    {[card |-> m.card, file |-> m.file, edit |-> pendingEdits[fsPath(m.file)]]}
Lookup(m) ==
    {h \in {[card |-> m.card, file |-> m.file, edit |-> pendingEdits[fsPath(m.file)]]} :
        h.edit # None}

HandleApprove ==
    /\ Receive("approveEdit")
    /\ applying' = applying \cup Lookup(Head(toHost))
    /\ taken' = taken \cup {h.edit : h \in Lookup(Head(toHost))}
    /\ UNCHANGED <<disk, securityMode, toolVars, pendingEdits, card, sweep, trusted,
                   refused, failed>>

\* The write is done; what is proposed for the file by now is dropped with it.
ApprovedWriteLands(h) ==
    /\ h \in applying
    /\ disk' = [disk EXCEPT ![h.file] = text[h.edit]]
    /\ applying' = applying \ {h}
    /\ Drop({fsPath(h.file)})
    /\ UNCHANGED <<securityMode, toolVars, card, toHost, historyVars>>

ApprovedWriteFails(h) ==
    /\ h \in applying
    /\ applying' = applying \ {h}
    /\ failed' = failed \cup {h.edit}
    /\ UNCHANGED <<disk, securityMode, toolVars, pendingEdits, card, toHost, sweep,
                   trusted, taken, refused>>

HandleReject ==
    /\ Receive("rejectEdit")
    /\ LET n == fsPath(Head(toHost).file) IN
       /\ DropRejected({n})
       /\ refused' = refused \cup ({pendingEdits[n]} \ (taken \cup {None}))
    /\ UNCHANGED <<disk, securityMode, toolVars, card, applying, trusted,
                   taken, failed>>

HandleRejectAll ==
    /\ Receive("rejectAll")
    /\ DropRejected(Path)
    /\ refused' = refused \cup ({pendingEdits[n] : n \in Path} \ (taken \cup {None}))
    /\ UNCHANGED <<disk, securityMode, toolVars, card, applying, trusted,
                   taken, failed>>

\* The loop of _approveAllEdits goes on to a proposal it has not visited (in
\* any order, the Map has that of insertion) or, at the end, clears the map.
SweepOn(visited) ==
    LET rest == {n \in Path \ visited : pendingEdits[n] # None} IN
    IF rest = {}
    THEN sweep' = None /\ pendingEdits' = NoProposals /\ UNCHANGED taken
    ELSE /\ \E n \in rest :
            /\ sweep' = [visited |-> visited \cup {n}, at |-> n, edit |-> pendingEdits[n]]
            /\ taken' = taken \cup {pendingEdits[n]}
         /\ UNCHANGED pendingEdits

\* It is over the Map itself, which it sees change (mutant: over a copy of it,
\* so that what is proposed later counts as visited).
VisitedInCopy == {n \in Path : pendingEdits[n] = None}
VisitedFirst == {}

\* (Bound of the instance: one _approveAllEdits at a time.)
HandleApproveAll ==
    /\ Receive("approveAll") /\ sweep = None
    /\ SweepOn(VisitedFirst)
    /\ UNCHANGED <<disk, securityMode, toolVars, card, applying, trusted, refused, failed>>

\* Uri.file(key): a relative key is a file outside the workspace.
SweepWriteLands ==
    /\ sweep # None
    /\ disk' = IF sweep.at.form = "absolute"
               THEN [disk EXCEPT ![sweep.at.file] = text[sweep.edit]] ELSE disk
    /\ SweepOn(sweep.visited)
    /\ UNCHANGED <<securityMode, toolVars, card, toHost, applying, trusted, refused, failed>>

SweepWriteFails ==
    /\ sweep # None
    /\ sweep' = None
    /\ failed' = failed \cup {sweep.edit}
    /\ UNCHANGED <<disk, securityMode, toolVars, pendingEdits, card, toHost, applying,
                   trusted, taken, refused>>

-----------------------------------------------------------------------------
Tool(t) == Start(t) \/ Propose(t) \/ Replace(t) \/ ToolFails(t) \/ WriteLands(t)

User ==
    \/ \E e \in Edits : \E type \in Decisions : ClickCard(e, type)
    \/ \E type \in Decisions : ClickAll(type)
    \/ ClearList \/ SwitchMode

Handler ==
    \/ HandleApprove \/ HandleReject \/ HandleRejectAll \/ HandleApproveAll
    \/ \E h \in applying : ApprovedWriteLands(h) \/ ApprovedWriteFails(h)
    \/ SweepWriteLands \/ SweepWriteFails

Next == (\E t \in Tools : Tool(t)) \/ User \/ Handler

Spec == Init /\ [][Next]_vars

-----------------------------------------------------------------------------
(* Properties.                                                             *)

Handling == [card: Edits, file: Files, edit: Edits]
Sweep == [visited: SUBSET Path, at: Path, edit: Edits]
Decision == [type: CardDecisions, file: Files, card: Edits]
       \cup [type: Decisions \ CardDecisions]

TypeOK ==
    /\ disk \in [Files -> Contents]
    /\ securityMode \in {"secure", "full"}
    /\ pc \in [Tools -> {"idle", "reading", "writing", "over"}]
    /\ path \in [Tools -> Path \cup {None}]
    /\ text \in [Tools -> Contents]
    /\ result \in [Tools -> {None, "success", "pending", "error"}]
    /\ pendingEdits \in [Path -> Edits \cup {None}]
    /\ card \in [Edits -> {"none", "shown", "approved", "rejected", "gone"}]
    /\ toHost \in Seq(Decision)
    /\ applying \in SUBSET Handling
    /\ sweep \in Sweep \cup {None}
    /\ trusted \subseteq Edits /\ taken \subseteq Edits
    /\ refused \subseteq Edits /\ failed \subseteq Edits

\* A file has the text of an edit only if the edit began on autopilot, or the
\* user approved a card of that very file, or all proposals (extension.ts:722,
\* 766-772), whatever became of the mode between the read and the write.  The
\* card need not be its own: proposals for one file share a key.
EditsWereApproved ==
    \A f \in Files : \A e \in Edits :
        Has(f, e) => \/ e \in trusted
                     \/ \E c \in Edits : card[c] = "approved" /\ path[c].file = f

\* What a reject took out of the map, before a handler had it in hand, is never
\* written: no other card and no approve-all can still reach it
\* (extension.ts:766-773).
RefusedStaysOut == \A e \in refused : \A f \in Files : ~Has(f, e)

\* Another proposal was made under the same path, before it or after it.
Contested(e) == \E d \in Edits \ {e} : result[d] = "pending" /\ path[d] = path[e]

\* No proposal is lost on the way.  One that no other contests stays in the map
\* until a handler takes it to write it or a reject drops it: the clear() at the
\* end of _approveAllEdits, and the delete after an approved write, which come
\* after an await, drop nothing that was proposed meanwhile under another path.  And
\* a click on its card ends in one of the two, whatever other cards, decisions about
\* all and failing writes do at once, if its path is absolute (extension.ts:740,
\* 766-773; webview.html:679-685).  Of contested proposals this is not so: the delete
\* of 768 drops a newer proposal with the older one that it wrote, and the newer
\* one's card does nothing.  A card whose path is relative does nothing either.
LoneProposalsStay ==
    \A e \in Edits : result[e] = "pending" /\ ~Contested(e) =>
        /\ pendingEdits[path[e]] = e \/ e \in taken \cup refused
        /\ path[e].form = "absolute" /\ card[e] \in {"approved", "rejected"} =>
              \/ e \in taken \cup refused
              \/ \E k \in DOMAIN toHost :
                     toHost[k].type \in CardDecisions /\ toHost[k].card = e
=============================================================================
