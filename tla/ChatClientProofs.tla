--------------------------- MODULE ChatClientProofs ---------------------------
(***************************************************************************)
(* The invariants of ChatClient, for every number of requests and clicks.  *)
(*                                                                         *)
(* The composition is first shown to keep to the endpoint's specification, *)
(* so that what AgentServerProofs proves of the endpoint alone (Endpoint!) *)
(* can be used of the endpoint the client talks to.                        *)
(***************************************************************************)
EXTENDS ChatClient, SubsequenceProofs

Endpoint == INSTANCE AgentServerProofs

LEMMA EndpointConstants == Endpoint!ServerAssumption
BY EndpointAssumption DEF Endpoint!ServerAssumption, Endpoint!AllKinds, Server!AllKinds

LEMMA SameCall == Endpoint!Call = Server!Call
BY DEF Endpoint!Call, Server!Call

LEMMA SameEvent == Endpoint!Event = Server!Event
BY DEF Endpoint!Event, Server!Event, Endpoint!Call, Server!Call

LEMMA SameTypeOK == Endpoint!TypeOK <=> Server!TypeOK
BY SameCall, SameEvent DEF Endpoint!TypeOK, Server!TypeOK

LEMMA SameInit == Endpoint!Init <=> Server!Init
BY DEF Endpoint!Init, Server!Init

LEMMA SameStart ==
    ASSUME NEW r \in Requests
    PROVE  Endpoint!Start(r) <=> Server!Start(r)
BY DEF Endpoint!Start, Server!Start, Endpoint!Reset, Server!Reset,
       Endpoint!Open, Server!Open, Endpoint!dialogueVars, Server!dialogueVars

LEMMA SameFails ==
    ASSUME NEW r \in Requests
    PROVE  Endpoint!Fails(r) <=> Server!Fails(r)
BY DEF Endpoint!Fails, Server!Fails, Endpoint!EndWithError, Server!EndWithError,
       Endpoint!FinalError, Server!FinalError,
       Endpoint!dialogueVars, Server!dialogueVars

LEMMA SameContinue ==
    ASSUME NEW r \in Requests, NEW events, NEW isDone
    PROVE  Endpoint!Continue(r, events, isDone) <=> Server!Continue(r, events, isDone)
BY DEF Endpoint!Continue, Server!Continue, Endpoint!WithinLimit, Server!WithinLimit

LEMMA SameAnswerWithoutCalls ==
    ASSUME NEW r \in Requests
    PROVE  Endpoint!AnswerWithoutCalls(r) <=> Server!AnswerWithoutCalls(r)
BY DEF Endpoint!AnswerWithoutCalls, Server!AnswerWithoutCalls,
       Endpoint!Continue, Server!Continue, Endpoint!WithinLimit, Server!WithinLimit,
       Endpoint!dialogueVars, Server!dialogueVars

LEMMA SameRunCalls ==
    ASSUME NEW r \in Requests, NEW calls
    PROVE  Endpoint!RunCalls(r, calls) <=> Server!RunCalls(r, calls)
<1>1. \A s, K : Endpoint!Kept(s, K) = Server!Kept(s, K)
  BY DEF Endpoint!Cardinality, Server!Cardinality, Endpoint!Kept, Server!Kept,
         Endpoint!Nth, Server!Nth, Endpoint!Rank, Server!Rank
<1>2. \A cs : /\ Endpoint!Stops(cs) = Server!Stops(cs)
              /\ Endpoint!FirstStop(cs) = Server!FirstStop(cs)
  BY DEF Endpoint!Stops, Server!Stops, Endpoint!FirstStop, Server!FirstStop
<1>3. \A cs : Endpoint!Executed(cs) = Server!Executed(cs)
  BY <1>1, <1>2
     DEF Endpoint!Executed, Server!Executed, Endpoint!BeforeStop, Server!BeforeStop
<1>4. \A cs : Endpoint!Terminal(cs) = Server!Terminal(cs)
  BY <1>2 DEF Endpoint!Terminal, Server!Terminal
<1>5. \A cs : Endpoint!Proposed(cs) = Server!Proposed(cs)
  BY <1>1, <1>4 DEF Endpoint!Proposed, Server!Proposed
<1>6. \A cs : Endpoint!SetOf(cs) = Server!SetOf(cs)
  BY DEF Endpoint!SetOf, Server!SetOf
<1>7. \A cs : /\ Endpoint!Malformed(cs) <=> Server!Malformed(cs)
              /\ Endpoint!Halts(cs) <=> Server!Halts(cs)
              /\ Endpoint!Throws(cs) <=> Server!Throws(cs)
  BY <1>2, <1>4 DEF Endpoint!Malformed, Server!Malformed, Endpoint!Halts, Server!Halts,
                    Endpoint!Throws, Server!Throws
<1>8. \A cs : Endpoint!AnswerEvents(cs) = Server!AnswerEvents(cs)
  <2>1. \A type, cs : Endpoint!Written(type, cs) = Server!Written(type, cs)
    BY DEF Endpoint!Written, Server!Written
  <2> QED
    BY <1>3, <1>5, <2>1 DEF Endpoint!AnswerEvents, Server!AnswerEvents
<1>9. \A events : Endpoint!EndWithError(r, events) <=> Server!EndWithError(r, events)
  BY DEF Endpoint!EndWithError, Server!EndWithError, Endpoint!FinalError, Server!FinalError
<1>10. \A events, isDone :
         Endpoint!Continue(r, events, isDone) <=> Server!Continue(r, events, isDone)
  BY SameContinue
<1>11. /\ Endpoint!SetOf(calls) = Server!SetOf(calls)
       /\ Endpoint!SetOf(Endpoint!Executed(calls)) = Server!SetOf(Server!Executed(calls))
       /\ Endpoint!SetOf(Endpoint!Proposed(calls)) = Server!SetOf(Server!Proposed(calls))
       /\ Endpoint!AnswerEvents(calls) = Server!AnswerEvents(calls)
  BY <1>3, <1>5, <1>6, <1>8
<1>12. CASE Server!Malformed(calls)
  BY <1>7, <1>9, <1>11, <1>12 DEF Endpoint!RunCalls, Server!RunCalls
<1>13. CASE ~Server!Malformed(calls)
  <2>1. /\ Endpoint!EndWithError(r, Endpoint!AnswerEvents(calls)) <=>
              Server!EndWithError(r, Server!AnswerEvents(calls))
        /\ Endpoint!Continue(r, Endpoint!AnswerEvents(calls), Endpoint!Halts(calls)) <=>
              Server!Continue(r, Server!AnswerEvents(calls), Server!Halts(calls))
    <3>1. Endpoint!Halts(calls) = Server!Halts(calls)
      BY <1>4 DEF Endpoint!Halts, Server!Halts
    <3> QED
      BY <1>9, <1>10, <1>11, <3>1
  <2> QED
    BY <1>7, <1>11, <1>13, <2>1 DEF Endpoint!RunCalls, Server!RunCalls
<1> QED
  BY <1>12, <1>13

LEMMA SameAnswerWithCalls ==
    ASSUME NEW r \in Requests
    PROVE  Endpoint!AnswerWithCalls(r) <=> Server!AnswerWithCalls(r)
<1>1. \A kinds : Endpoint!Calls(r, kinds) = Server!Calls(r, kinds)
  BY DEF Endpoint!Calls, Server!Calls
<1> QED
  BY <1>1, SameRunCalls DEF Endpoint!AnswerWithCalls, Server!AnswerWithCalls

-----------------------------------------------------------------------------
(* The composition.                                                        *)

LEMMA EndpointSteps ==
    ASSUME [Next]_vars
    PROVE  [Endpoint!Next]_(Endpoint!vars)
<1> DEFINE Quiet == UNCHANGED serverVars
<1>1. Quiet => UNCHANGED Endpoint!vars
  BY DEF serverVars, Endpoint!vars, Endpoint!dialogueVars
<1>2. ASSUME NEW r \in Requests, Arrive(r) PROVE Endpoint!Next
  BY <1>2, SameStart DEF Arrive, Endpoint!Next
<1>3. ASSUME NEW r \in Requests, ServerWorks(r) PROVE Endpoint!Next
  BY <1>3, SameFails, SameAnswerWithoutCalls, SameAnswerWithCalls
     DEF ServerWorks, Endpoint!Next
<1>4. User => Quiet
  BY DEF User, OnCard, HandleSend, ClickRun, ClickReject
<1>5. Render \/ CardGone => Quiet
  BY DEF Render, CardGone
<1>6. ASSUME NEW r \in Requests, Refused(r) \/ HandleChunk(r) \/ StreamEnds(r) \/ Breaks(r)
      PROVE  Quiet
  BY <1>6 DEF Refused, HandleChunk, StreamEnds, Breaks
<1>7. ASSUME NEW k \in DOMAIN approvals, Approving(k) PROVE Quiet
  BY <1>7 DEF Approving, CommandRuns, ApprovalFails, Resume
<1>8. UNCHANGED vars => Quiet
  BY DEF vars
<1> QED
  BY <1>1, <1>2, <1>3, <1>4, <1>5, <1>6, <1>7, <1>8 DEF Next, Network

\* What the client adds never disturbs the endpoint: on the variables of the
\* server the composition is a behaviour of AgentServer, so that everything
\* proved of the endpoint alone holds of the one the client talks to
\* (agentService.js:3-46).
THEOREM Composition == Spec => Server!Spec
<1>1. Init => Server!Init
  BY DEF Init
<1>2. [Next]_vars => [Server!Next]_(Server!vars)
  <2> SUFFICES ASSUME [Next]_vars PROVE [Server!Next]_(Server!vars)
    OBVIOUS
  <2>1. [Endpoint!Next]_(Endpoint!vars)
    BY EndpointSteps
  <2>2. Endpoint!Next => Server!Next
    BY SameStart, SameFails, SameAnswerWithoutCalls, SameAnswerWithCalls
       DEF Endpoint!Next, Server!Next
  <2>3. UNCHANGED Endpoint!vars => UNCHANGED Server!vars
    BY DEF Endpoint!vars, Server!vars, Endpoint!dialogueVars, Server!dialogueVars
  <2> QED
    BY <2>1, <2>2, <2>3
<1> QED
  BY <1>1, <1>2, PTL DEF Spec, Server!Spec

LEMMA EndpointInvariance == Spec => []Endpoint!IInv
<1>1. Init => Endpoint!Init
  BY SameInit DEF Init
<1>2. [Next]_vars => [Endpoint!Next]_(Endpoint!vars)
  BY EndpointSteps
<1>3. Endpoint!Spec => []Endpoint!IInv
  BY EndpointConstants, Endpoint!Invariance
<1> QED
  BY <1>1, <1>2, <1>3, PTL DEF Spec, Endpoint!Spec

LEMMA EndpointLengthens ==
    ASSUME Endpoint!IInv, [Next]_vars
    PROVE  Endpoint!IInv' /\ Endpoint!Lengthens
BY EndpointConstants, EndpointSteps, Endpoint!NextIInv

-----------------------------------------------------------------------------
(* The inductive invariant of the client.                                  *)

Closures == [call: Server!Call, messages: SUBSET Requests]

ClientTypeOK ==
    /\ ui \in Screens /\ screen \in Screens
    /\ leaving = None \/ leaving \in Closures
    /\ conn \in [Requests -> {"none", "connecting", "open", "closed"}]
    /\ consumed \in [Requests -> Nat]
    /\ \A r \in Requests : consumed[r] <= Len(stream[r])
    /\ resumes \subseteq Requests
    /\ approvals \in Seq(Approval) /\ Len(approvals) <= MaxClicks
    /\ executed \subseteq Server!Call /\ clicked \subseteq Server!Call
    /\ endangered \subseteq Requests /\ refusal \in BOOLEAN

\* A stream is read only while it is open.
Unread == \A r \in Requests : conn[r] \in {"none", "connecting"} => consumed[r] = 0

Approved == executed \subseteq clicked /\ \A k \in DOMAIN approvals : approvals[k].call \in clicked

\* The messages that must not disappear, and the lists of messages that can
\* come to the screen: that of the component, that of the last render, and
\* those captured in a fading card or by an approval.
Owed == {r \in Requests \ (resumes \cup endangered) : conn[r] # "none"}

Retained == /\ Owed \subseteq ui.messages /\ Owed \subseteq screen.messages
            /\ leaving # None => Owed \subseteq leaving.messages
            /\ \A k \in Outstanding : Owed \subseteq approvals[k].messages

CInv == ClientTypeOK /\ Unread /\ Approved /\ Retained /\ LoadingJustified

-----------------------------------------------------------------------------
(* Approvals and cards.                                                    *)

LEMMA Marked ==
    ASSUME approvals \in Seq(Approval), NEW k \in DOMAIN approvals,
           NEW state \in {"sent", "returned", "over"},
           approvals' = [approvals EXCEPT ![k].state = state]
    PROVE  /\ approvals' \in Seq(Approval) /\ Len(approvals') = Len(approvals)
           /\ DOMAIN approvals' = DOMAIN approvals
           /\ \A j \in DOMAIN approvals : /\ approvals'[j].call = approvals[j].call
                                          /\ approvals'[j].messages = approvals[j].messages
                                          /\ j # k => approvals'[j] = approvals[j]
           /\ approvals'[k].state = state
<1>1. DOMAIN approvals = 1..Len(approvals) /\ Len(approvals) \in Nat
  OBVIOUS
<1>2. \A j \in 1..Len(approvals) : approvals[j] \in Approval
  OBVIOUS
<1>3. approvals' = [j \in 1..Len(approvals) |->
                      IF j = k THEN [approvals[k] EXCEPT !.state = state] ELSE approvals[j]]
  BY <1>1
<1>4. [approvals[k] EXCEPT !.state = state] \in Approval
  BY <1>1, <1>2 DEF Approval
<1>5. approvals' \in [1..Len(approvals) -> Approval]
  BY <1>2, <1>3, <1>4
<1>6. \A j \in 1..Len(approvals) :
         approvals'[j] = IF j = k THEN [approvals[k] EXCEPT !.state = state] ELSE approvals[j]
  BY <1>3
<1>7. /\ [approvals[k] EXCEPT !.state = state].call = approvals[k].call
      /\ [approvals[k] EXCEPT !.state = state].messages = approvals[k].messages
      /\ [approvals[k] EXCEPT !.state = state].state = state
  BY <1>1, <1>2 DEF Approval
<1> QED
  BY <1>1, <1>5, <1>6, <1>7

\* A card that can be clicked carries a call and a list of messages that was
\* on the screen.
LEMMA CardRun ==
    ASSUME CInv, OnCard(ClickRun)
    PROVE  \E c \in Closures : ClickRun(c) /\ Owed \subseteq c.messages
<1>1. CASE screen.pendingApproval # None /\ ClickRun(Closure)
  <2>1. Closure \in Closures /\ Owed \subseteq Closure.messages
    BY <1>1 DEF CInv, ClientTypeOK, Retained, Screens, Closure, Closures
  <2> QED
    BY <1>1, <2>1
<1>2. CASE leaving # None /\ ClickRun(leaving)
  BY <1>2 DEF CInv, ClientTypeOK, Retained
<1> QED
  BY <1>1, <1>2 DEF OnCard

LEMMA CardReject ==
    ASSUME CInv, OnCard(ClickReject)
    PROVE  \E c \in Closures : ClickReject(c) /\ Owed \subseteq c.messages
<1>1. CASE screen.pendingApproval # None /\ ClickReject(Closure)
  <2>1. Closure \in Closures /\ Owed \subseteq Closure.messages
    BY <1>1 DEF CInv, ClientTypeOK, Retained, Screens, Closure, Closures
  <2> QED
    BY <1>1, <2>1
<1>2. CASE leaving # None /\ ClickReject(leaving)
  BY <1>2 DEF CInv, ClientTypeOK, Retained
<1> QED
  BY <1>1, <1>2 DEF OnCard

-----------------------------------------------------------------------------
(* The actions.                                                            *)

\* A stream the client has partly read is still there, and what it has read of
\* it is as it was.
LEMMA ReadStays ==
    ASSUME ClientTypeOK, Endpoint!IInv, Endpoint!IInv', Endpoint!Lengthens,
           NEW r \in Requests
    PROVE  /\ stream[r] \in Seq(Server!Event) /\ stream'[r] \in Seq(Server!Event)
           /\ consumed[r] <= Len(stream'[r])
           /\ \A p \in 1..consumed[r] : stream'[r][p] = stream[r][p]
<1>1. stream[r] \in Seq(Server!Event) /\ stream'[r] \in Seq(Server!Event)
  BY SameEvent DEF Endpoint!IInv, Endpoint!TypeOK
<1>2. Len(stream[r]) \in Nat /\ Len(stream'[r]) \in Nat /\ consumed[r] \in Nat
      /\ consumed[r] <= Len(stream[r]) /\ Len(stream[r]) <= Len(stream'[r])
  BY <1>1 DEF ClientTypeOK, Endpoint!Lengthens, Endpoint!Appended
<1>3. consumed[r] <= Len(stream'[r]) /\ \A p \in 1..consumed[r] : p \in 1..Len(stream[r])
  BY <1>2
<1> QED
  BY <1>1, <1>3 DEF Endpoint!Lengthens, Endpoint!Appended

LEMMA InitCInv == Init => CInv
<1> SUFFICES ASSUME Init PROVE CInv
  OBVIOUS
<1>1. \A r \in Requests : consumed[r] <= Len(stream[r])
  BY DEF Init, Server!Init
<1>2. ClientTypeOK
  <2>1. refusal \in BOOLEAN
    BY DEF Init
  <2> QED
    BY <1>1, <2>1, ClientAssumption DEF Init, ClientTypeOK, Screens
<1>3. Outstanding = {} /\ Owed = {}
  BY DEF Init, Outstanding, Owed
<1>4. Unread /\ Approved /\ Retained /\ LoadingJustified
  BY <1>3 DEF Init, Unread, Approved, Retained, LoadingJustified
<1> QED
  BY <1>2, <1>4 DEF CInv

LEMMA HandleSendStep ==
    ASSUME CInv, Endpoint!IInv, NEW r \in Requests, HandleSend(r)
    PROVE  CInv'
<1> USE DEF CInv
<1>1. /\ conn[r] = "none" /\ conn' = [conn EXCEPT ![r] = "connecting"]
      /\ ui' = [ui EXCEPT !.messages = @ \cup {r}, !.isLoading = TRUE] /\ screen' = ui'
      /\ leaving' = None \/ leaving' = leaving
      /\ endangered' = IF Outstanding = {} /\ leaving = None
                       THEN endangered ELSE endangered \cup {r}
      /\ stream' = stream /\ consumed' = consumed /\ resumes' = resumes
      /\ approvals' = approvals /\ executed' = executed /\ clicked' = clicked
      /\ refusal' = refusal
  BY DEF HandleSend, IsNext, Free, Shows, serverVars, approvalVars
<1>2. /\ ui' \in Screens /\ ui'.messages = ui.messages \cup {r}
  BY <1>1 DEF ClientTypeOK, Screens
<1>3. ClientTypeOK'
  BY <1>1, <1>2 DEF ClientTypeOK
<1>4. Unread' /\ Approved'
  BY <1>1 DEF ClientTypeOK, Unread, Approved
<1>5. Outstanding' = Outstanding
  BY <1>1 DEF Outstanding
<1>6. Retained'
  <2>1. Owed' \subseteq Owed \cup {r}
    BY <1>1 DEF Owed, ClientTypeOK
  <2>2. CASE Outstanding = {} /\ leaving = None
    BY <1>1, <1>2, <1>5, <2>1, <2>2 DEF Retained
  <2>3. CASE ~(Outstanding = {} /\ leaving = None)
    <3>1. r \in endangered'
      BY <1>1, <2>3
    <3>2. Owed' \subseteq Owed
      BY <2>1, <3>1 DEF Owed
    <3> QED
      BY <1>1, <1>2, <1>5, <3>2 DEF Retained
  <2> QED
    BY <2>2, <2>3
<1>7. LoadingJustified'
  <2>1. conn'[r] = "connecting" /\ consumed'[r] = 0
    BY <1>1 DEF ClientTypeOK, Unread
  <2>2. r \in Live' /\ 1..consumed'[r] = {}
    BY <2>1 DEF Live
  <2> QED
    BY <2>2 DEF LoadingJustified
<1> QED
  BY <1>3, <1>4, <1>6, <1>7

LEMMA ClickRunStep ==
    ASSUME CInv, Endpoint!IInv, NEW c \in Closures, Owed \subseteq c.messages, ClickRun(c)
    PROVE  CInv'
<1> USE DEF CInv
<1> DEFINE a == [call |-> c.call, state |-> "sent", messages |-> c.messages]
           n == Len(approvals) + 1
<1>1. /\ Len(approvals) < MaxClicks
      /\ ui' = [ui EXCEPT !.pendingApproval = None, !.isLoading = TRUE] /\ screen' = ui'
      /\ leaving' = c /\ approvals' = Append(approvals, a)
      /\ clicked' = clicked \cup {c.call} /\ executed' = executed
      /\ conn' = conn /\ consumed' = consumed /\ resumes' = resumes
      /\ stream' = stream /\ endangered' = endangered /\ refusal' = refusal
  BY DEF ClickRun, ShownCard, Captured, serverVars, netVars
<1>2. ui' \in Screens /\ ui'.messages = ui.messages
  BY <1>1 DEF ClientTypeOK, Screens
<1>3. a \in Approval /\ c.call \in Server!Call /\ c.messages \subseteq Requests
      /\ a.call = c.call /\ a.messages = c.messages /\ a.state = "sent"
  BY DEF Approval, Closures
<1> HIDE DEF a
<1>4. /\ approvals' \in Seq(Approval) /\ Len(approvals') = n /\ approvals'[n] = a
      /\ DOMAIN approvals' = (DOMAIN approvals) \cup {n}
      /\ \A k \in DOMAIN approvals : approvals'[k] = approvals[k]
  <2>1. approvals \in Seq(Approval)
    BY DEF ClientTypeOK
  <2>2. \A k \in 1..Len(approvals) : approvals'[k] = approvals[k]
    BY <1>1, <1>3, <2>1
  <2>3. approvals' \in Seq(Approval) /\ Len(approvals') = n /\ approvals'[n] = a
    BY <1>1, <1>3, <2>1
  <2>4. DOMAIN approvals' = 1..n /\ DOMAIN approvals = 1..Len(approvals) /\ Len(approvals) \in Nat
    BY <2>1, <2>3
  <2>5. 1..n = 1..Len(approvals) \cup {n}
    BY <2>4
  <2> QED
    BY <2>2, <2>3, <2>4, <2>5
<1>5. Len(approvals) \in Nat /\ Len(approvals') <= MaxClicks
  BY <1>1, <1>4, ClientAssumption DEF ClientTypeOK
<1>6. ClientTypeOK'
  BY <1>1, <1>2, <1>3, <1>4, <1>5 DEF ClientTypeOK
<1> HIDE DEF n
<1>7. Unread' /\ Approved'
  BY <1>1, <1>3, <1>4 DEF Unread, Approved
<1>8. Outstanding' = Outstanding \cup {n} /\ Owed' = Owed
  BY <1>1, <1>3, <1>4 DEF Outstanding, Owed
<1>9. Retained'
  <2>1. \A k \in Outstanding' : Owed' \subseteq approvals'[k].messages
    BY <1>3, <1>4, <1>8 DEF Retained, Outstanding
  <2> QED
    BY <1>1, <1>2, <1>8, <2>1 DEF Retained
<1>10. LoadingJustified'
  BY <1>8 DEF LoadingJustified
<1> QED
  BY <1>6, <1>7, <1>9, <1>10

LEMMA ClickRejectStep ==
    ASSUME CInv, NEW c \in Closures, Owed \subseteq c.messages, ClickReject(c)
    PROVE  CInv'
<1> USE DEF CInv
<1>1. /\ ui' = [ui EXCEPT !.pendingApproval = None] /\ screen' = ui' /\ leaving' = c
      /\ approvals' = approvals /\ clicked' = clicked /\ executed' = executed
      /\ conn' = conn /\ consumed' = consumed /\ resumes' = resumes
      /\ stream' = stream /\ endangered' = endangered /\ refusal' = refusal
  BY DEF ClickReject, Decides, serverVars, netVars, approvalVars
<1>2. ui' \in Screens /\ ui'.messages = ui.messages /\ ui'.isLoading = ui.isLoading
  BY <1>1 DEF ClientTypeOK, Screens
<1>3. ClientTypeOK'
  BY <1>1, <1>2 DEF ClientTypeOK
<1>4. Outstanding' = Outstanding /\ Owed' = Owed /\ Live' = Live
  BY <1>1 DEF Outstanding, Owed, Live
<1>5. Unread' /\ Approved' /\ Retained' /\ LoadingJustified'
  BY <1>1, <1>2, <1>4 DEF Unread, Approved, Retained, LoadingJustified
<1> QED
  BY <1>3, <1>5

LEMMA ViewStep ==
    ASSUME CInv, Render \/ CardGone
    PROVE  CInv'
<1> USE DEF CInv
<1>1. /\ ui' = ui /\ screen' \in {ui, screen} /\ leaving' \in {None, leaving}
      /\ approvals' = approvals /\ clicked' = clicked /\ executed' = executed
      /\ conn' = conn /\ consumed' = consumed /\ resumes' = resumes
      /\ stream' = stream /\ endangered' = endangered /\ refusal' = refusal
  BY DEF Render, CardGone, Shows, serverVars, netVars, approvalVars
<1>2. ClientTypeOK'
  BY <1>1 DEF ClientTypeOK
<1>3. Outstanding' = Outstanding /\ Owed' = Owed /\ Live' = Live
  BY <1>1 DEF Outstanding, Owed, Live
<1>4. Unread' /\ Approved' /\ Retained' /\ LoadingJustified'
  BY <1>1, <1>3 DEF Unread, Approved, Retained, LoadingJustified
<1> QED
  BY <1>2, <1>4

\* The server answers, or takes the request up: the client has read no less.
LEMMA ServerStep ==
    ASSUME CInv, Endpoint!IInv, Endpoint!IInv', Endpoint!Lengthens,
           UNCHANGED <<viewVars, consumed, resumes, approvalVars, endangered, refusal>>,
           conn' = conn \/ \E r \in Requests : /\ conn[r] = "connecting"
                                              /\ conn' = [conn EXCEPT ![r] = "open"]
    PROVE  CInv'
<1> USE DEF CInv
<1>1. /\ ui' = ui /\ screen' = screen /\ leaving' = leaving
      /\ approvals' = approvals /\ clicked' = clicked /\ executed' = executed
      /\ consumed' = consumed /\ resumes' = resumes /\ endangered' = endangered
      /\ refusal' = refusal
  BY DEF viewVars, approvalVars
<1>2. /\ conn' \in [Requests -> {"none", "connecting", "open", "closed"}]
      /\ \A q \in Requests : /\ conn'[q] = "none" <=> conn[q] = "none"
                             /\ conn'[q] = "connecting" => conn[q] = "connecting"
                             /\ conn[q] \in {"connecting", "open"} =>
                                   conn'[q] \in {"connecting", "open"}
  BY DEF ClientTypeOK
<1>3. ClientTypeOK'
  <2>1. \A q \in Requests : consumed'[q] <= Len(stream'[q])
    BY <1>1, ReadStays
  <2> QED
    BY <1>1, <1>2, <2>1 DEF ClientTypeOK
<1>4. Outstanding' = Outstanding /\ Owed' = Owed /\ Live \subseteq Live'
  BY <1>1, <1>2 DEF Outstanding, Owed, Live
<1>5. Unread' /\ Approved' /\ Retained'
  BY <1>1, <1>2, <1>4 DEF Unread, Approved, Retained
<1>6. LoadingJustified'
  <2> SUFFICES ASSUME ui.isLoading, Outstanding = {}, ~refusal
               PROVE  \E r \in Live' : \A p \in 1..consumed'[r] :
                         stream'[r][p].type \notin {"done", "error"}
    BY <1>1, <1>4 DEF LoadingJustified
  <2>1. PICK r \in Live : \A p \in 1..consumed[r] :
                             stream[r][p].type \notin {"done", "error"}
    BY DEF LoadingJustified
  <2>2. r \in Requests /\ r \in Live'
    BY <1>4 DEF Live
  <2>3. \A p \in 1..consumed[r] : stream'[r][p] = stream[r][p]
    BY <2>2, ReadStays
  <2> QED
    BY <1>1, <2>1, <2>2, <2>3
<1> QED
  BY <1>3, <1>5, <1>6

LEMMA HandleChunkStep ==
    ASSUME CInv, Endpoint!IInv, NEW r \in Requests, HandleChunk(r)
    PROVE  CInv'
<1> USE DEF CInv
<1> DEFINE e == stream[r][consumed[r] + 1]
<1>1. /\ conn[r] = "open" /\ consumed[r] < Len(stream[r])
      /\ consumed' = [consumed EXCEPT ![r] = @ + 1]
      /\ ui' = CASE e.type = "approval_required" -> [ui EXCEPT !.pendingApproval = e.call]
                 [] e.type = "done" -> AfterDone(ui)
                 [] e.type = "error" -> AfterError(ui)
                 [] OTHER -> ui
      /\ screen' = screen /\ leaving' = leaving /\ conn' = conn /\ resumes' = resumes
      /\ approvals' = approvals /\ clicked' = clicked /\ executed' = executed
      /\ stream' = stream /\ endangered' = endangered
      /\ refusal' = (refusal /\ ui'.isLoading)
  BY DEF HandleChunk, serverVars, approvalVars
<1>2. /\ consumed[r] \in Nat /\ Len(stream[r]) \in Nat /\ e \in Server!Event
      /\ consumed[r] + 1 \in 1..Len(stream[r])
  <2>1. stream[r] \in Seq(Server!Event)
    BY SameEvent DEF Endpoint!IInv, Endpoint!TypeOK
  <2>2. consumed[r] \in Nat /\ Len(stream[r]) \in Nat
    BY <2>1 DEF ClientTypeOK
  <2>3. consumed[r] + 1 \in 1..Len(stream[r])
    BY <1>1, <2>2
  <2> QED
    BY <2>1, <2>2, <2>3
<1>3. e.type = "approval_required" => e.call \in Server!Call
  BY <1>2 DEF Server!Event
<1> HIDE DEF e
<1>4. /\ ui' \in Screens /\ ui'.messages = ui.messages
      /\ e.type \in {"done", "error"} => ui'.isLoading = FALSE
      /\ ui'.isLoading => ui.isLoading
  <2>1. ui \in Screens
    BY DEF ClientTypeOK
  <2>2. CASE e.type = "approval_required"
    <3>1. ui' = [ui EXCEPT !.pendingApproval = e.call]
      BY <1>1, <2>2
    <3> QED
      BY <1>3, <2>1, <2>2, <3>1 DEF Screens
  <2>3. CASE e.type \in {"done", "error"}
    <3>1. ui' = [ui EXCEPT !.isLoading = FALSE]
      BY <1>1, <2>3 DEF AfterDone, AfterError
    <3> QED
      BY <2>1, <3>1 DEF Screens
  <2>4. CASE e.type \notin {"approval_required", "done", "error"}
    BY <1>1, <2>1, <2>4
  <2> QED
    BY <2>2, <2>3, <2>4
<1>5. /\ consumed' \in [Requests -> Nat] /\ consumed'[r] = consumed[r] + 1
      /\ \A q \in Requests \ {r} : consumed'[q] = consumed[q]
  BY <1>1, <1>2 DEF ClientTypeOK
<1>6. ClientTypeOK'
  <2>1. \A q \in Requests : consumed'[q] <= Len(stream'[q])
    BY <1>1, <1>2, <1>5 DEF ClientTypeOK
  <2> QED
    BY <1>1, <1>4, <1>5, <2>1 DEF ClientTypeOK
<1>7. Outstanding' = Outstanding /\ Owed' = Owed /\ Live' = Live
  BY <1>1 DEF Outstanding, Owed, Live
<1>8. Unread' /\ Approved' /\ Retained'
  BY <1>1, <1>4, <1>5, <1>7 DEF Unread, Approved, Retained
<1>9. LoadingJustified'
  <2> SUFFICES ASSUME ui'.isLoading, Outstanding = {}, ~refusal
               PROVE  \E q \in Live' : \A p \in 1..consumed'[q] :
                         stream'[q][p].type \notin {"done", "error"}
    BY <1>1, <1>7 DEF LoadingJustified
  <2>1. e.type \notin {"done", "error"} /\ ui.isLoading
    BY <1>4
  <2>2. PICK q \in Live : \A p \in 1..consumed[q] :
                             stream[q][p].type \notin {"done", "error"}
    BY <2>1 DEF LoadingJustified
  <2>3. CASE q # r
    BY <1>1, <1>5, <1>7, <2>2, <2>3 DEF Live
  <2>4. CASE q = r
    <3>1. ASSUME NEW p \in 1..consumed'[r]
          PROVE  stream[r][p].type \notin {"done", "error"}
      <4>1. p \in 1..consumed[r] \/ p = consumed[r] + 1
        BY <1>2, <1>5
      <4> QED
        BY <2>1, <2>2, <2>4, <4>1 DEF e
    <3> QED
      BY <1>1, <1>7, <2>2, <2>4, <3>1
  <2> QED
    BY <2>3, <2>4
<1> QED
  BY <1>6, <1>8, <1>9

\* A request that is refused leaves the input as it is, and only that.
LEMMA RefusedStep ==
    ASSUME CInv, NEW r \in Requests, Refused(r)
    PROVE  CInv'
<1> USE DEF CInv
<1>1. /\ conn[r] = "connecting" /\ conn' = [conn EXCEPT ![r] = "closed"]
      /\ ui' = ui /\ screen' = screen /\ leaving' = leaving
      /\ approvals' = approvals /\ clicked' = clicked /\ executed' = executed
      /\ consumed' = consumed /\ resumes' = resumes
      /\ stream' = stream /\ endangered' = endangered /\ refusal' = ui.isLoading
  BY DEF Refused, serverVars, viewVars, approvalVars
<1>2. ClientTypeOK'
  BY <1>1 DEF ClientTypeOK, Screens
<1>3. Outstanding' = Outstanding /\ Owed' = Owed
  BY <1>1 DEF Outstanding, Owed, ClientTypeOK
<1>4. Unread' /\ Approved' /\ Retained'
  BY <1>1, <1>3 DEF Unread, Approved, Retained, ClientTypeOK
<1>5. LoadingJustified'
  BY <1>1 DEF LoadingJustified
<1> QED
  BY <1>2, <1>4, <1>5

\* A stream that ends has told the client so, and the client has read it.
LEMMA StreamEndsStep ==
    ASSUME CInv, Endpoint!IInv, NEW r \in Requests, StreamEnds(r)
    PROVE  CInv'
<1> USE DEF CInv
<1>1. /\ conn[r] = "open" /\ phase[r] = "ended" /\ consumed[r] = Len(stream[r])
      /\ conn' = [conn EXCEPT ![r] = "closed"]
      /\ ui' = ui /\ screen' = screen /\ leaving' = leaving
      /\ approvals' = approvals /\ clicked' = clicked /\ executed' = executed
      /\ consumed' = consumed /\ resumes' = resumes
      /\ stream' = stream /\ endangered' = endangered /\ refusal' = refusal
  BY DEF StreamEnds, serverVars, viewVars, approvalVars
<1>2. ClientTypeOK'
  BY <1>1 DEF ClientTypeOK
<1>3. Outstanding' = Outstanding /\ Owed' = Owed /\ Live' = Live \ {r}
  BY <1>1 DEF Outstanding, Owed, Live, ClientTypeOK
<1>4. Unread' /\ Approved' /\ Retained'
  BY <1>1, <1>3 DEF Unread, Approved, Retained, ClientTypeOK
<1>5. LoadingJustified'
  <2>1. stream[r] \in Seq(Server!Event) /\ Endpoint!Complete(stream[r])
    BY <1>1, SameEvent DEF Endpoint!IInv, Endpoint!TypeOK, Endpoint!Streams
  <2>2. PICK n \in Nat : n = Len(stream[r])
    BY <2>1
  <2>3. n # 0
    BY <2>1, <2>2 DEF Endpoint!Complete
  <2>4. n \in 1..consumed[r] /\ stream[r][n].type \in {"done", "error"}
    BY <1>1, <2>1, <2>2, <2>3 DEF Endpoint!Complete
  <2> QED
    BY <1>1, <1>3, <2>4 DEF LoadingJustified
<1> QED
  BY <1>2, <1>4, <1>5

LEMMA BreaksStep ==
    ASSUME CInv, NEW r \in Requests, Breaks(r)
    PROVE  CInv'
<1> USE DEF CInv
<1>1. /\ r \in Live /\ conn' = [conn EXCEPT ![r] = "closed"]
      /\ ui' = [ui EXCEPT !.isLoading = FALSE] /\ screen' = screen /\ leaving' = leaving
      /\ approvals' = approvals /\ clicked' = clicked /\ executed' = executed
      /\ consumed' = consumed /\ resumes' = resumes
      /\ stream' = stream /\ endangered' = endangered
      /\ refusal' = (refusal /\ ui'.isLoading)
  BY DEF Breaks, AfterError, serverVars, approvalVars
<1>2. ui' \in Screens /\ ui'.messages = ui.messages /\ ~ui'.isLoading
  BY <1>1 DEF ClientTypeOK, Screens
<1>3. ClientTypeOK'
  BY <1>1, <1>2 DEF ClientTypeOK
<1>4. Outstanding' = Outstanding /\ Owed' = Owed
  BY <1>1 DEF Outstanding, Owed, Live, ClientTypeOK
<1>5. Unread' /\ Approved' /\ Retained' /\ LoadingJustified'
  BY <1>1, <1>2, <1>4 DEF Unread, Approved, Retained, LoadingJustified, ClientTypeOK
<1> QED
  BY <1>3, <1>5

LEMMA CommandRunsStep ==
    ASSUME CInv, NEW k \in DOMAIN approvals, CommandRuns(k)
    PROVE  CInv'
<1> USE DEF CInv
<1>1. /\ approvals[k].state = "sent"
      /\ approvals' = [approvals EXCEPT ![k].state = "returned"]
      /\ executed' = executed \cup {approvals[k].call}
      /\ ui' = ui /\ screen' = screen /\ leaving' = leaving /\ conn' = conn
      /\ clicked' = clicked /\ consumed' = consumed /\ resumes' = resumes
      /\ stream' = stream /\ endangered' = endangered /\ refusal' = refusal
  BY DEF CommandRuns, serverVars, viewVars, netVars
<1>2. /\ approvals' \in Seq(Approval) /\ Len(approvals') = Len(approvals)
      /\ DOMAIN approvals' = DOMAIN approvals
      /\ \A j \in DOMAIN approvals : /\ approvals'[j].call = approvals[j].call
                                     /\ approvals'[j].messages = approvals[j].messages
                                     /\ j # k => approvals'[j] = approvals[j]
      /\ approvals'[k].state = "returned"
  BY <1>1, Marked DEF ClientTypeOK
<1>3. approvals[k].call \in Server!Call
  <2>1. approvals[k] \in Approval
    BY DEF ClientTypeOK
  <2> QED
    BY <2>1 DEF Approval
<1>4. ClientTypeOK'
  BY <1>1, <1>2, <1>3 DEF ClientTypeOK
<1>5. Outstanding' = Outstanding /\ Owed' = Owed /\ Live' = Live
  BY <1>1, <1>2 DEF Outstanding, Owed, Live
<1>6. Unread' /\ LoadingJustified'
  BY <1>1, <1>5 DEF Unread, LoadingJustified
<1>7. Approved'
  BY <1>1, <1>2 DEF Approved
<1>8. Retained'
  <2>1. \A j \in Outstanding' : Owed' \subseteq approvals'[j].messages
    BY <1>2, <1>5 DEF Retained, Outstanding
  <2> QED
    BY <1>1, <1>5, <2>1 DEF Retained
<1> QED
  BY <1>4, <1>6, <1>7, <1>8

LEMMA ResumeStep ==
    ASSUME CInv, NEW k \in DOMAIN approvals, NEW r \in Requests, Resume(k, r)
    PROVE  CInv'
<1> USE DEF CInv
<1>1. /\ approvals[k].state = "returned" /\ conn[r] = "none"
      /\ approvals' = [approvals EXCEPT ![k].state = "over"]
      /\ ui' = [ui EXCEPT !.messages = approvals[k].messages]
      /\ conn' = [conn EXCEPT ![r] = "connecting"] /\ resumes' = resumes \cup {r}
      /\ screen' = screen /\ leaving' = leaving /\ executed' = executed
      /\ clicked' = clicked /\ consumed' = consumed
      /\ stream' = stream /\ endangered' = endangered /\ refusal' = refusal
  BY DEF Resume, IsNext, Free, serverVars
<1>2. /\ approvals' \in Seq(Approval) /\ Len(approvals') = Len(approvals)
      /\ DOMAIN approvals' = DOMAIN approvals
      /\ \A j \in DOMAIN approvals : /\ approvals'[j].call = approvals[j].call
                                     /\ approvals'[j].messages = approvals[j].messages
                                     /\ j # k => approvals'[j] = approvals[j]
      /\ approvals'[k].state = "over"
  BY <1>1, Marked DEF ClientTypeOK
<1>3. ui' \in Screens /\ ui'.messages = approvals[k].messages
  <2>1. approvals[k] \in Approval
    BY DEF ClientTypeOK
  <2> QED
    BY <1>1, <2>1 DEF ClientTypeOK, Approval, Screens
<1>4. ClientTypeOK'
  BY <1>1, <1>2, <1>3 DEF ClientTypeOK
<1>5. k \in Outstanding /\ Outstanding' \subseteq Outstanding /\ Owed' \subseteq Owed
  BY <1>1, <1>2 DEF Outstanding, Owed, ClientTypeOK
<1>6. Unread' /\ Approved'
  BY <1>1, <1>2 DEF Unread, Approved, ClientTypeOK
<1>7. Retained'
  <2>1. \A j \in Outstanding' : Owed' \subseteq approvals'[j].messages
    BY <1>2, <1>5 DEF Retained, Outstanding
  <2> QED
    BY <1>1, <1>3, <1>5, <2>1 DEF Retained
<1>8. LoadingJustified'
  <2>1. conn'[r] = "connecting" /\ consumed'[r] = 0
    BY <1>1 DEF ClientTypeOK, Unread
  <2>2. r \in Live' /\ 1..consumed'[r] = {}
    BY <2>1 DEF Live
  <2> QED
    BY <2>2 DEF LoadingJustified
<1> QED
  BY <1>4, <1>6, <1>7, <1>8

LEMMA ApprovalFailsStep ==
    ASSUME CInv, NEW k \in DOMAIN approvals, ApprovalFails(k)
    PROVE  CInv'
<1> USE DEF CInv
<1>1. /\ approvals' = [approvals EXCEPT ![k].state = "over"]
      /\ ui' = [ui EXCEPT !.isLoading = FALSE]
      /\ conn' = conn /\ resumes' = resumes
      /\ screen' = screen /\ leaving' = leaving
      /\ executed \subseteq executed' /\ executed' \subseteq executed \cup {approvals[k].call}
      /\ clicked' = clicked /\ consumed' = consumed
      /\ stream' = stream /\ endangered' = endangered
      /\ refusal' = (refusal /\ ui'.isLoading)
  BY DEF ApprovalFails, AfterError, serverVars, netVars
<1>2. /\ approvals' \in Seq(Approval) /\ Len(approvals') = Len(approvals)
      /\ DOMAIN approvals' = DOMAIN approvals
      /\ \A j \in DOMAIN approvals : /\ approvals'[j].call = approvals[j].call
                                     /\ approvals'[j].messages = approvals[j].messages
                                     /\ j # k => approvals'[j] = approvals[j]
      /\ approvals'[k].state = "over"
  BY <1>1, Marked DEF ClientTypeOK
<1>3. ui' \in Screens /\ ui'.messages = ui.messages /\ ~ui'.isLoading
  BY <1>1 DEF ClientTypeOK, Screens
<1>8. approvals[k].call \in Server!Call
  <2>1. approvals[k] \in Approval
    BY DEF ClientTypeOK
  <2> QED
    BY <2>1 DEF Approval
<1>4. ClientTypeOK'
  BY <1>1, <1>2, <1>3, <1>8 DEF ClientTypeOK
<1>5. Outstanding' \subseteq Outstanding /\ Owed' = Owed
  BY <1>1, <1>2 DEF Outstanding, Owed
<1>6. Unread' /\ Approved' /\ LoadingJustified'
  BY <1>1, <1>2, <1>3 DEF Unread, Approved, LoadingJustified
<1>7. Retained'
  <2>1. \A j \in Outstanding' : Owed' \subseteq approvals'[j].messages
    BY <1>2, <1>5 DEF Retained, Outstanding
  <2> QED
    BY <1>1, <1>3, <1>5, <2>1 DEF Retained
<1> QED
  BY <1>4, <1>6, <1>7

LEMMA NextCInv ==
    ASSUME CInv, Endpoint!IInv, [Next]_vars
    PROVE  CInv'
<1>1. Endpoint!IInv' /\ Endpoint!Lengthens
  BY EndpointLengthens
<1>2. CASE User
  <2>1. ASSUME NEW r \in Requests, HandleSend(r) PROVE CInv'
    BY <2>1, HandleSendStep
  <2>2. CASE OnCard(ClickRun)
    BY <2>2, CardRun, ClickRunStep
  <2>3. CASE OnCard(ClickReject)
    BY <2>3, CardReject, ClickRejectStep
  <2> QED
    BY <1>2, <2>1, <2>2, <2>3 DEF User
<1>3. CASE Render \/ CardGone
  BY <1>3, ViewStep
<1>4. ASSUME NEW r \in Requests, Network(r) PROVE CInv'
  <2>1. CASE Arrive(r)
    BY <1>1, <2>1, ServerStep DEF Arrive
  <2> QED
    BY <1>4, <2>1, RefusedStep, HandleChunkStep, StreamEndsStep, BreaksStep DEF Network
<1>5. ASSUME NEW r \in Requests, ServerWorks(r) PROVE CInv'
  BY <1>1, <1>5, ServerStep DEF ServerWorks, netVars
<1>6. ASSUME NEW k \in DOMAIN approvals, Approving(k) PROVE CInv'
  BY <1>6, CommandRunsStep, ApprovalFailsStep, ResumeStep DEF Approving
<1>7. CASE UNCHANGED vars
  BY <1>1, <1>7, ServerStep DEF vars, netVars
<1> QED
  BY <1>2, <1>3, <1>4, <1>5, <1>6, <1>7 DEF Next

\* The client's invariant holds in every reachable state.
THEOREM Invariance == Spec => []CInv
<1>1. Init => CInv
  BY InitCInv
<1>2. CInv /\ Endpoint!IInv /\ [Next]_vars => CInv'
  BY NextCInv
<1> QED
  BY <1>1, <1>2, EndpointInvariance, PTL DEF Spec

-----------------------------------------------------------------------------
(* What the run checks.                                                    *)

\* Every variable of the client, and of the endpoint below it, keeps its type.
THEOREM TypeCorrect == Spec => []TypeOK
<1>1. CInv /\ Endpoint!IInv => TypeOK
  BY SameTypeOK DEF CInv, ClientTypeOK, Closures, Endpoint!IInv, TypeOK
<1> QED
  BY <1>1, Invariance, EndpointInvariance, PTL

\* The input is disabled only while something is under way that enables it
\* again: an approval, or a stream of which the last event has not been read,
\* or else since a request was refused, which streamAgent takes for an answer
\* (ChatInterface.jsx:43, 61, 108, 125, 146, 175, 195; index.js:480, 769-784;
\* agentService.js:8-14).
THEOREM LoadingIsJustified == Spec => []LoadingJustified
<1>1. CInv => LoadingJustified
  BY DEF CInv
<1> QED
  BY <1>1, Invariance, PTL

\* Only commands on whose own card the user clicked Run are run, however
\* proposals and renders overlap (index.js:160; ChatInterface.jsx:141-156).
THEOREM ShownIsWhatRuns == Spec => []ShownIsRun
<1>1. CInv => ShownIsRun
  BY DEF CInv, Approved, ShownIsRun
<1> QED
  BY <1>1, Invariance, PTL

\* Only a message sent while an approval is under way, or its card fading, can
\* disappear from the chat (ChatInterface.jsx:165-171).
THEOREM MessagesAreKept == Spec => []MessagesStay
<1>1. CInv => MessagesStay
  BY DEF CInv, Retained, Owed, MessagesStay
<1> QED
  BY <1>1, Invariance, PTL
=============================================================================
