------------------------------ MODULE ChatClient ------------------------------
(***************************************************************************)
(* The chat of the web client, composed with the agent endpoint it talks   *)
(* to (AgentServer) and with the endpoint that runs an approved command.   *)
(* A message of the user opens a stream of events; a command the agent     *)
(* proposes is shown on a card; approving it posts the command, waits for  *)
(* the result and opens a stream of its own to resume.                     *)
(*                                                                         *)
(* A handler sees the state of the render it was created in (screen) and   *)
(* updates the state of the component (ui).  After a click or a key React  *)
(* renders at once; after an event of a stream, some time later (Render).  *)
(***************************************************************************)
EXTENDS Naturals, Sequences, FiniteSets

CONSTANTS
    MaxRounds, MaxCalls, Kinds,    \* see AgentServer
    MaxRequests,   \* bound of the instance: requests the client makes
    MaxClicks,     \* bound of the instance: approvals the user clicks
    None

ASSUME ClientAssumption == MaxRequests \in Nat /\ MaxClicks \in Nat

\* Requests, in the order in which the client makes them.
Requests == 1..MaxRequests

VARIABLES
    \* the server
    phase, round, asked, answered, stream, sessionStats, ran, overlapped,
    \* the client
    ui,            \* messages, isLoading, pendingApproval
    screen,        \* the ui that was rendered last
    leaving,       \* the handlers of a card that is being animated away, or None
    conn,          \* what streamAgent awaits for each request
    consumed,      \* how many events of its stream it has read
    resumes,       \* requests made by resumeAgent
    approvals,     \* the calls of approveCommand: the card, the closure's messages
    executed,      \* the commands the approval endpoint has run
    clicked,       \* history: the commands on whose card the user clicked Run
    endangered,    \* history: messages sent while an approval, or its card, was on its way out
    refusal        \* history: has a request been refused since the input was disabled?

serverVars == <<phase, round, asked, answered, stream, sessionStats, ran, overlapped>>
viewVars == <<ui, screen, leaving>>
netVars == <<conn, consumed, resumes>>
approvalVars == <<approvals, executed, clicked>>
vars == <<serverVars, viewVars, netVars, approvalVars, endangered, refusal>>

Server == INSTANCE AgentServer

\* What the endpoint assumes of its constants.
ASSUME EndpointAssumption ==
    MaxRounds \in Nat \ {0} /\ MaxCalls \in Nat /\ Kinds \subseteq Server!AllKinds

-----------------------------------------------------------------------------
(* Approvals and helpers.  Of the messages only those of the user are kept, *)
(* each by the request it made; texts are left out, and with them           *)
(* currentResponse and currentSteps, which nothing else depends on.         *)

Approval == [call: Server!Call, messages: SUBSET Requests,
             state: {"sent", "returned", "over"}]

Free == {r \in Requests : conn[r] = "none"}
IsNext(r) == r \in Free /\ \A q \in Free : r <= q
Live == {r \in Requests : conn[r] \in {"connecting", "open"}}
Outstanding == {k \in DOMAIN approvals : approvals[k].state # "over"}

Init ==
    /\ Server!Init
    /\ ui = [messages |-> {}, isLoading |-> FALSE, pendingApproval |-> None]
    /\ screen = ui /\ leaving = None
    /\ conn = [r \in Requests |-> "none"] /\ consumed = [r \in Requests |-> 0]
    /\ resumes = {}
    /\ approvals = <<>> /\ executed = {} /\ clicked = {}
    /\ endangered = {} /\ refusal = FALSE

\* A card that comes back while it is being animated away is the same element.
Shows(u) ==
    /\ screen' = u
    /\ leaving' = IF u.pendingApproval # None THEN None ELSE leaving

-----------------------------------------------------------------------------
(* The user.                                                               *)

\* handleSend.  (Bound of the instance: a request is left for each approval.)
HandleSend(r) ==
    /\ ~screen.isLoading
    /\ IsNext(r) /\ Cardinality(Free) > Cardinality(Outstanding)
    /\ ui' = [ui EXCEPT !.messages = @ \cup {r}, !.isLoading = TRUE]
    /\ Shows(ui')
    /\ conn' = [conn EXCEPT ![r] = "connecting"]
    /\ endangered' = IF Outstanding = {} /\ leaving = None
                     THEN endangered ELSE endangered \cup {r}
    /\ UNCHANGED <<serverVars, consumed, resumes, approvalVars, refusal>>

\* A button of a card, on the screen or still fading, runs handleApproval of
\* the render the card belongs to.
Decides(closure) ==
    /\ ui' = [ui EXCEPT !.pendingApproval = None]
    /\ screen' = ui'
    /\ leaving' = closure

ClickReject(closure) ==
    /\ Decides(closure)
    /\ UNCHANGED <<serverVars, netVars, approvalVars, endangered, refusal>>

\* (A definition named like another with a suffix is a mutant: a plausible
\* slip that the run must detect.)
ShownCardLatest(closure) == ui.pendingApproval
ShownCard(closure) == closure.call

\* A callback memoised at the first render.
CapturedAtFirst(closure) == {}
Captured(closure) == closure.messages

ClickRun(closure) ==
    /\ Len(approvals) < MaxClicks /\ Cardinality(Free) > Cardinality(Outstanding)
    /\ ui' = [ui EXCEPT !.pendingApproval = None, !.isLoading = TRUE]
    /\ screen' = ui' /\ leaving' = closure
    /\ approvals' = Append(approvals, [call |-> ShownCard(closure), state |-> "sent",
                                       messages |-> Captured(closure)])
    /\ clicked' = clicked \cup {closure.call}
    /\ UNCHANGED <<serverVars, netVars, executed, endangered, refusal>>

\* What handleApproval closes over in the render of the card on the screen.
Closure == [call |-> screen.pendingApproval, messages |-> screen.messages]

OnCard(Action(_)) ==
    \/ screen.pendingApproval # None /\ Action(Closure)
    \/ leaving # None /\ Action(leaving)

-----------------------------------------------------------------------------
(* Rendering.                                                              *)

Render ==
    /\ screen # ui
    /\ Shows(ui)
    /\ UNCHANGED <<serverVars, netVars, approvalVars, ui, endangered, refusal>>

CardGone ==
    /\ leaving # None
    /\ leaving' = None
    /\ UNCHANGED <<serverVars, netVars, approvalVars, ui, screen, endangered, refusal>>

-----------------------------------------------------------------------------
(* The streams.                                                            *)

\* The request reaches the handler, which sends its first question.
Arrive(r) ==
    /\ conn[r] = "connecting"
    /\ Server!Start(r)
    /\ conn' = [conn EXCEPT ![r] = "open"]
    /\ UNCHANGED <<viewVars, consumed, resumes, approvalVars, endangered, refusal>>

\* The handler goes on whether or not the client still listens.
ServerWorks(r) ==
    /\ Server!Fails(r) \/ Server!AnswerWithoutCalls(r) \/ Server!AnswerWithCalls(r)
    /\ UNCHANGED <<viewVars, netVars, approvalVars, endangered, refusal>>

\* handleChunk; tool_call and step only touch the steps on display.
AfterErrorStuck(u) == u
AfterError(u) == [u EXCEPT !.isLoading = FALSE]
AfterDone(u) == [u EXCEPT !.isLoading = FALSE]

HandleChunk(r) ==
    /\ conn[r] = "open" /\ consumed[r] < Len(stream[r])
    /\ consumed' = [consumed EXCEPT ![r] = @ + 1]
    /\ LET e == stream[r][consumed[r] + 1] IN
       ui' = CASE e.type = "approval_required" -> [ui EXCEPT !.pendingApproval = e.call]
               [] e.type = "done" -> AfterDone(ui)
               [] e.type = "error" -> AfterError(ui)
               [] OTHER -> ui
    /\ refusal' = (refusal /\ ui'.isLoading)
    /\ UNCHANGED <<serverVars, screen, leaving, conn, resumes, approvalVars, endangered>>

\* The server answers without its handler: bodyParser refuses a body above its
\* limit.  The client does not look at the status; it reads a page that holds no
\* event, to the end, and nothing tells ui.
Refused(r) ==
    /\ conn[r] = "connecting"
    /\ conn' = [conn EXCEPT ![r] = "closed"]
    /\ refusal' = ui.isLoading
    /\ UNCHANGED <<serverVars, viewVars, consumed, resumes, approvalVars, endangered>>

\* The end of what a handler has written.
StreamEnds(r) ==
    /\ conn[r] = "open" /\ phase[r] = "ended" /\ consumed[r] = Len(stream[r])
    /\ conn' = [conn EXCEPT ![r] = "closed"]
    /\ UNCHANGED <<serverVars, viewVars, consumed, resumes, approvalVars, endangered, refusal>>

\* fetch or read rejects.
Breaks(r) ==
    /\ r \in Live
    /\ conn' = [conn EXCEPT ![r] = "closed"]
    /\ ui' = AfterError(ui)
    /\ refusal' = (refusal /\ ui'.isLoading)
    /\ UNCHANGED <<serverVars, screen, leaving, consumed, resumes, approvalVars, endangered>>

-----------------------------------------------------------------------------
(* The approval: execSync stops the whole server until the command is over, *)
(* and a command that fails is a result like any other.                     *)

CommandRuns(k) ==
    /\ approvals[k].state = "sent"
    /\ approvals' = [approvals EXCEPT ![k].state = "returned"]
    /\ executed' = executed \cup {approvals[k].call}
    /\ UNCHANGED <<serverVars, viewVars, netVars, clicked, endangered, refusal>>

\* The list of messages of the click, not the present one, is continued.
Resume(k, r) ==
    /\ approvals[k].state = "returned" /\ IsNext(r)
    /\ approvals' = [approvals EXCEPT ![k].state = "over"]
    /\ ui' = [ui EXCEPT !.messages = approvals[k].messages]
    /\ conn' = [conn EXCEPT ![r] = "connecting"]
    /\ resumes' = resumes \cup {r}
    /\ UNCHANGED <<serverVars, screen, leaving, consumed, executed, clicked, endangered, refusal>>

\* The request is refused or lost, and the command does not run; or the answer
\* of one that does run is lost.
ApprovalFails(k) ==
    /\ k \in Outstanding
    /\ approvals' = [approvals EXCEPT ![k].state = "over"]
    /\ \/ UNCHANGED executed
       \/ approvals[k].state = "sent" /\ executed' = executed \cup {approvals[k].call}
    /\ ui' = AfterError(ui)
    /\ refusal' = (refusal /\ ui'.isLoading)
    /\ UNCHANGED <<serverVars, screen, leaving, netVars, clicked, endangered>>

-----------------------------------------------------------------------------
User ==
    \/ \E r \in Requests : HandleSend(r)
    \/ OnCard(ClickRun) \/ OnCard(ClickReject)

Network(r) == Arrive(r) \/ Refused(r) \/ HandleChunk(r) \/ StreamEnds(r) \/ Breaks(r)

Approving(k) ==
    CommandRuns(k) \/ ApprovalFails(k) \/ \E r \in Requests : Resume(k, r)

Next ==
    \/ User \/ Render \/ CardGone
    \/ \E r \in Requests : Network(r) \/ ServerWorks(r)
    \/ \E k \in DOMAIN approvals : Approving(k)

Spec == Init /\ [][Next]_vars

\* Every request is taken up, refused or fails, the model answers or fails,
\* streams are delivered or break, commands end (execSync gives up
\* after a minute), React renders.  Nobody has to click.
Fairness ==
    /\ \A r \in Requests : WF_vars(Network(r)) /\ WF_vars(ServerWorks(r))
    /\ \A k \in 1..MaxClicks : WF_vars(k \in DOMAIN approvals /\ Approving(k))
    /\ WF_vars(Render)

FairSpec == Spec /\ Fairness

-----------------------------------------------------------------------------
(* Properties.                                                             *)

Screens == [messages: SUBSET Requests, isLoading: BOOLEAN,
            pendingApproval: Server!Call \cup {None}]

TypeOK ==
    /\ Server!TypeOK
    /\ ui \in Screens /\ screen \in Screens
    /\ leaving = None \/ leaving \in [call: Server!Call, messages: SUBSET Requests]
    /\ conn \in [Requests -> {"none", "connecting", "open", "closed"}]
    /\ consumed \in [Requests -> Nat]
    /\ \A r \in Requests : consumed[r] <= Len(stream[r])
    /\ resumes \subseteq Requests
    /\ approvals \in Seq(Approval) /\ Len(approvals) <= MaxClicks
    /\ executed \subseteq Server!Call /\ clicked \subseteq Server!Call
    /\ endangered \subseteq Requests /\ refusal \in BOOLEAN

\* The input is disabled only while something is under way that enables it
\* again: a stream whose last event has not been read, or an approval.  The
\* exception is the defect of streamAgent, which does not look at the status of
\* an answer: a refused request is over without a last event, and nothing it
\* leaves behind enables the input (ChatInterface.jsx:43, 61, 108, 125, 146, 175,
\* 195; index.js:480, 769-784; agentService.js:8-14).
LoadingJustified ==
    ui.isLoading =>
        \/ Outstanding # {}
        \/ refusal
        \/ \E r \in Live : \A p \in 1..consumed[r] :
              stream[r][p].type \notin {"done", "error"}

\* The input is always enabled again, however requests and approvals overlap
\* and whatever breaks or fails, unless a request was refused while it was
\* disabled: then it can stay disabled for ever (ChatInterface.jsx:37-63,
\* 141-197; index.js:480).
LoadingEnds == []<>(~ui.isLoading \/ refusal)

\* The server runs only commands on whose own card the user clicked Run: a
\* newer proposal that is not yet on the screen does not take its place
\* (index.js:160: "REQUIRES USER APPROVAL"; ChatInterface.jsx:141-156).
ShownIsRun == executed \subseteq clicked

\* What the user wrote stays in the chat, although resuming puts back the list
\* of the moment of the click (ChatInterface.jsx:165-171): only a message sent
\* while an approval is under way, or its card fading, can disappear.
MessagesStay ==
    \A r \in Requests \ (resumes \cup endangered) :
        conn[r] # "none" => r \in ui.messages
=============================================================================
