--------------------------- MODULE TerminalApproval ---------------------------
(***************************************************************************)
(* The run_terminal_cmd tool: _runTerminalCommand, the map of pending      *)
(* approvals, the handlers of 'terminalApproval' and 'setSecurityMode',    *)
(* and the approval cards and the mode switch of the webview.              *)
(*                                                                         *)
(* The calls of one answer start in the same pass of Promise.all           *)
(* (extension.ts:560), so their ids, Date.now() at that moment, may be     *)
(* equal; answers are a network round trip apart, so ids of different      *)
(* answers differ.                                                         *)
(*                                                                         *)
(* The view is registered without retainContextWhenHidden                  *)
(* (extension.ts:10-12): the editor disposes of the webview when the view  *)
(* is hidden, loses what is posted to it meanwhile, and runs its script    *)
(* from the start when it is shown again (overlayWebview.ts of the editor),*)
(* without resolving the view, and posting 'init', a second time.          *)
(***************************************************************************)
EXTENDS Naturals, Sequences, FiniteSets

CONSTANTS
    Cmds,        \* the run_terminal_cmd calls of the session
    Ids,         \* the values Date.now() takes
    None,
    MaxBatch,    \* terminal calls in one answer
    MaxToggles   \* clicks on the mode switch (bound of the instance)

ASSUME ApprovalAssumption ==
    /\ IsFiniteSet(Cmds) /\ None \notin Cmds \cup Ids
    /\ MaxBatch \in Nat \ {0}
    /\ MaxToggles \in Nat

VARIABLES
    mode,        \* the provider's _securityMode
    cmd,         \* how far each call is
    idOf,        \* its approvalId
    used,        \* the ids given out so far
    pending,     \* _pendingApprovals: for an id, the call whose resolver it holds
    toHost,      \* messages of the webview, not yet handled
    toView,      \* messages to the webview, not yet received
    initDue,     \* the timer that posts 'init' has not fired
    visible,     \* the view is shown, the webview exists
    shown,       \* webview: currentMode
    card,        \* webview: the approval card of a call
    clicked,     \* history: the first button the user clicked on that card
    told,        \* history: since its script started the webview was told the mode, or set it
    toggles      \* history: clicks on the mode switch

hostVars == <<mode, cmd, idOf, used, pending>>
cardVars == <<card, clicked>>
modeVars == <<shown, told, toggles>>
viewVars == <<initDue, visible>>
vars == <<hostVars, toHost, toView, viewVars, cardVars, modeVars>>

Modes == {"secure", "full"}
HostMessage == [type: {"terminalApproval"}, id: Ids, choice: BOOLEAN]
          \cup [type: {"setSecurityMode"}, value: Modes]
ViewMessage == [type: {"approval"}, cmd: Cmds]
          \cup [type: {"mode"}, value: Modes]     \* 'init', 'securityModeChanged'

Approval(c, choice) == [type |-> "terminalApproval", id |-> idOf[c], choice |-> choice]
ModeMessage(m) == [type |-> "mode", value |-> m]

-----------------------------------------------------------------------------
\* The mode is read back from globalState, 'secure' when there is none (the
\* mutant, named by its suffix, forgets that default).
StoredModeNoDefault == Modes \cup {None}
StoredMode == Modes

\* The view has just been resolved: the timer runs.
Init ==
    /\ mode \in StoredMode
    /\ cmd = [c \in Cmds |-> "idle"] /\ idOf = [c \in Cmds |-> None]
    /\ used = {} /\ pending = [i \in Ids |-> None]
    /\ toHost = <<>> /\ toView = <<>>
    /\ initDue = TRUE /\ visible = TRUE
    /\ shown = "secure" /\ told = FALSE /\ toggles = 0
    /\ card = [c \in Cmds |-> "none"] /\ clicked = [c \in Cmds |-> "none"]

\* webview.postMessage: nobody keeps what is posted while the view is hidden.
Post(ms) == toView' = IF visible THEN toView \o ms ELSE toView

\* The timer, 500 ms after the view was resolved.
PostInit ==
    /\ initDue
    /\ initDue' = FALSE
    /\ Post(<<ModeMessage(mode)>>)
    /\ UNCHANGED <<hostVars, toHost, visible, cardVars, modeVars>>

-----------------------------------------------------------------------------
(* An answer of the model with terminal calls.                             *)

Batches == {B \in SUBSET {c \in Cmds : cmd[c] = "idle"} :
               B # {} /\ Cardinality(B) <= MaxBatch}

\* A started command has a process, or none when no folder is open.
Started == {"running", "ended"}

\* Autopilot: no card, no id.
ProposeFull ==
    /\ mode = "full"
    /\ \E B \in Batches : \E s \in [B -> Started] :
          cmd' = [c \in Cmds |-> IF c \in B THEN s[c] ELSE cmd[c]]
    /\ UNCHANGED <<mode, idOf, used, pending, toHost, toView, viewVars, cardVars, modeVars>>

\* The calls of the answer in their order: each stores its resolver under its
\* id, so of several calls with one id the map keeps the last ...
Orders(B) == {q \in [1..Cardinality(B) -> B] : \A i, j \in DOMAIN q : q[i] = q[j] => i = j}

\* (last[i] is the place, in that order, of the last call with id i).
IsLast(last, q, ids) ==
    \A i \in DOMAIN last : /\ ids[q[last[i]]] = i
                          /\ \A o \in DOMAIN q : ids[q[o]] = i => o <= last[i]

Register(B, q, ids) ==
    /\ idOf' = [c \in Cmds |-> IF c \in B THEN ids[c] ELSE idOf[c]]
    /\ used' = used \cup {ids[c] : c \in B}
    /\ \E last \in [{ids[c] : c \in B} -> DOMAIN q] :
          /\ IsLast(last, q, ids)
          /\ pending' = [i \in Ids |-> IF i \in DOMAIN last THEN q[last[i]] ELSE pending[i]]

\* ... and posts its card.
Cards(q) == [p \in DOMAIN q |-> [type |-> "approval", cmd |-> q[p]]]

ProposeSecure ==
    /\ mode = "secure"
    /\ \E B \in Batches : \E q \in Orders(B) : \E ids \in [B -> Ids \ used] :
          /\ cmd' = [c \in Cmds |-> IF c \in B THEN "waiting" ELSE cmd[c]]
          /\ Register(B, q, ids)
          /\ Post(Cards(q))
    /\ UNCHANGED <<mode, toHost, viewVars, cardVars, modeVars>>

\* 'close' or 'error' of the child process.
ProcessEnds(c) ==
    /\ cmd[c] = "running"
    /\ cmd' = [cmd EXCEPT ![c] = "ended"]
    /\ UNCHANGED <<mode, idOf, used, pending, toHost, toView, viewVars, cardVars, modeVars>>

-----------------------------------------------------------------------------
(* The webview.                                                            *)

FirstClick(c, choice) ==
    clicked' = [clicked EXCEPT ![c] = IF @ = "none" THEN choice ELSE @]

\* The approve button hides both buttons of its card.
ClickApprove(c) ==
    /\ card[c] \in {"shown", "dimmed"}
    /\ card' = [card EXCEPT ![c] = "answered"]
    /\ FirstClick(c, "approve")
    /\ toHost' = Append(toHost, Approval(c, TRUE))
    /\ UNCHANGED <<hostVars, toView, viewVars, modeVars>>

\* The reject button only dims its card: the approve button still works.
\* (Further clicks on reject repeat a message nobody waits for.)
ClickReject(c) ==
    /\ card[c] = "shown"
    /\ card' = [card EXCEPT ![c] = "dimmed"]
    /\ FirstClick(c, "reject")
    /\ toHost' = Append(toHost, Approval(c, FALSE))
    /\ UNCHANGED <<hostVars, toView, viewVars, modeVars>>

\* newChat() and 'reset' empty the message list, cards included.
ClearList ==
    /\ \E c \in Cmds : card[c] \in {"shown", "dimmed"}
    /\ card' = [c \in Cmds |-> IF card[c] = "none" THEN "none" ELSE "gone"]
    /\ UNCHANGED <<hostVars, toHost, toView, viewVars, clicked, modeVars>>

\* toggleSecurity(): shown at once, told to the provider.
ToggleSecurity ==
    /\ visible /\ toggles < MaxToggles
    /\ toggles' = toggles + 1 /\ told' = TRUE
    /\ shown' = IF shown = "secure" THEN "full" ELSE "secure"
    /\ toHost' = Append(toHost, [type |-> "setSecurityMode", value |-> shown'])
    /\ UNCHANGED <<hostVars, toView, viewVars, cardVars>>

ReceiveCard ==
    /\ toView # <<>> /\ Head(toView).type = "approval"
    /\ toView' = Tail(toView)
    /\ card' = [card EXCEPT ![Head(toView).cmd] = "shown"]
    /\ UNCHANGED <<hostVars, toHost, viewVars, clicked, modeVars>>

\* updateSecurityUI on 'init' and 'securityModeChanged'.
ReceiveMode ==
    /\ toView # <<>> /\ Head(toView).type = "mode"
    /\ toView' = Tail(toView)
    /\ shown' = Head(toView).value /\ told' = TRUE
    /\ UNCHANGED <<hostVars, toHost, viewVars, cardVars, toggles>>

\* The view is hidden: the webview goes, with its cards and what was on its way
\* to it.  What it has posted itself still arrives.
Hide ==
    /\ visible
    /\ visible' = FALSE
    /\ toView' = <<>>
    /\ card' = [c \in Cmds |-> IF card[c] = "none" THEN "none" ELSE "gone"]
    /\ shown' = "secure" /\ told' = FALSE      \* what the script will start with
    /\ UNCHANGED <<hostVars, toHost, initDue, clicked, toggles>>

Show ==
    /\ ~visible
    /\ visible' = TRUE
    /\ UNCHANGED <<hostVars, toHost, toView, initDue, cardVars, modeVars>>

-----------------------------------------------------------------------------
(* The provider's handlers.                                                *)

\* The resolver of a pending approval: the command starts or is refused.
\* Mutants: the choice is not looked at; every waiting call with that id goes.
ResolveAlways(c, choice) == \E s \in Started : cmd' = [cmd EXCEPT ![c] = s]
ResolveAllOfId(c, choice) ==
    \E s \in IF choice THEN Started ELSE {"rejected"} :
       cmd' = [d \in Cmds |-> IF cmd[d] = "waiting" /\ idOf[d] = idOf[c] THEN s ELSE cmd[d]]
Resolve(c, choice) ==
    \E s \in IF choice THEN Started ELSE {"rejected"} : cmd' = [cmd EXCEPT ![c] = s]

\* _pendingApprovals.delete(id) (mutant: clear()).
ReleaseAll(i) == pending' = [j \in Ids |-> None]
Release(i) == pending' = [pending EXCEPT ![i] = None]

HandleApproval ==
    /\ toHost # <<>> /\ Head(toHost).type = "terminalApproval"
    /\ toHost' = Tail(toHost)
    /\ LET m == Head(toHost) IN
       IF pending[m.id] # None
       THEN /\ Resolve(pending[m.id], m.choice)
            /\ Release(m.id)
       ELSE UNCHANGED <<cmd, pending>>
    /\ UNCHANGED <<mode, idOf, used, toView, viewVars, cardVars, modeVars>>

\* this._securityMode = data.value (mutant: only globalState is updated).
StoreModeForgotten(m) == UNCHANGED mode
StoreMode(m) == mode' = m

HandleSecurityMode ==
    /\ toHost # <<>> /\ Head(toHost).type = "setSecurityMode"
    /\ toHost' = Tail(toHost)
    /\ StoreMode(Head(toHost).value)
    /\ Post(<<ModeMessage(Head(toHost).value)>>)
    /\ UNCHANGED <<cmd, idOf, used, pending, viewVars, cardVars, modeVars>>

-----------------------------------------------------------------------------
Handle == HandleApproval \/ HandleSecurityMode
Receive == ReceiveCard \/ ReceiveMode

Next == \/ ProposeFull \/ ProposeSecure
        \/ \E c \in Cmds : ProcessEnds(c) \/ ClickApprove(c) \/ ClickReject(c)
        \/ ClearList \/ ToggleSecurity
        \/ PostInit \/ Hide \/ Show
        \/ Handle \/ Receive

Spec == Init /\ [][Next]_vars

\* Messages are delivered in both directions.
FairSpec == Spec /\ WF_vars(Handle) /\ WF_vars(Receive)

-----------------------------------------------------------------------------
(* Properties.                                                             *)

TypeOK ==
    /\ mode \in Modes
    /\ cmd \in [Cmds -> {"idle", "waiting", "rejected"} \cup Started]
    /\ idOf \in [Cmds -> Ids \cup {None}]
    /\ used \subseteq Ids
    /\ pending \in [Ids -> Cmds \cup {None}]
    /\ toHost \in Seq(HostMessage)
    /\ toView \in Seq(ViewMessage)
    /\ initDue \in BOOLEAN /\ visible \in BOOLEAN /\ told \in BOOLEAN
    /\ shown \in Modes
    /\ card \in [Cmds -> {"none", "shown", "dimmed", "answered", "gone"}]
    /\ clicked \in [Cmds -> {"none", "approve", "reject"}]
    /\ toggles \in Nat

\* The promise of the tool, seen from the user's clicks.
stageOf == [c \in Cmds |->
    CASE cmd[c] = "idle" -> "idle"
      [] cmd[c] = "waiting" /\ clicked[c] = "none" -> "asked"
      [] cmd[c] = "waiting" /\ clicked[c] = "approve" -> "approved"
      [] cmd[c] = "waiting" /\ clicked[c] = "reject" -> "refused"
      [] cmd[c] = "rejected" -> "refused"
      [] cmd[c] = "running" -> "running"
      [] cmd[c] = "ended" -> "over"]

Gate == INSTANCE ApprovalGate WITH stage <- stageOf

\* With one terminal call per answer the tool keeps its promise: in secure
\* mode a command starts only after the approve button of its own card, a
\* second click on a card changes nothing, whatever is in flight and however
\* often the mode is switched (extension.ts:100-106, 649-685).
ImplementsGate == Gate!Spec

\* Ran through a card, not on autopilot.
RanByApproval(c) == cmd[c] \in Started /\ idOf[c] # None

\* Even when calls share an id, nothing runs unless the user approved a card
\* with that id first.
EveryRunWasApproved ==
    \A c \in Cmds : RanByApproval(c) =>
        \E d \in Cmds : idOf[d] = idOf[c] /\ clicked[d] = "approve"

\* ... and the cards of one id start at most one command, however often they
\* are clicked.
OneRunPerId ==
    \A c, d \in Cmds : RanByApproval(c) /\ RanByApproval(d) /\ idOf[c] = idOf[d] => c = d

\* A click on a card settles its command (one terminal call per answer): the
\* await of _runTerminalCommand, and the Promise.all above it, do not hang on
\* an answered card.
ClickedSettles == \A c \in Cmds : clicked[c] # "none" ~> cmd[c] # "waiting"

\* Once the webview has been told the mode, and no mode message is in flight, the
\* switch shows the provider's mode, although it is set optimistically on one
\* side and echoed by the other.  Before that, that is until the timer has fired
\* (extension.ts:72-74), and from when the view is shown again until the user
\* touches the switch, it may be wrong in one way only: it says "secure" when the
\* provider is on autopilot.
ModeAgrees ==
    \/ \E p \in 1..Len(toHost) : toHost[p].type = "setSecurityMode"
    \/ \E p \in 1..Len(toView) : toView[p].type = "mode"
    \/ shown = mode
    \/ ~told /\ shown = "secure"

\* extension.ts:264: "The user will have to approve the command before it is
\* executed": a command that has run through a card was approved on its card.
OwnCardApproved == \A c \in Cmds : RanByApproval(c) => clicked[c] = "approve"
=============================================================================
