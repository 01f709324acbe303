------------------------------ MODULE AgentLoop ------------------------------
(***************************************************************************)
(* The agentic loop of the Watch.ai extension: the provider's handling of  *)
(* the messages of the chat webview, _runAgentLoop, and the part of the    *)
(* webview that decides when the user may send (its busy flag).            *)
(*                                                                         *)
(* Every handler of the extension host runs until its first await, so an   *)
(* action is what runs between two awaits.  Several runs (one per message  *)
(* of the user) may be under way at once, and all of them read the fields  *)
(* of the one provider: _currentTranscript, _activeConversationId and      *)
(* _abortController.                                                       *)
(*                                                                         *)
(* A transcript array is named by its identity (Chats), because a run      *)
(* keeps the array it was started with.  A stored conversation keeps which *)
(* array it was copied from and how long that array was: the copy itself   *)
(* (_saveToHistory's filter) is a function of that prefix.                 *)
(***************************************************************************)
EXTENDS Naturals, Sequences, FiniteSets

CONSTANTS
    Runs,        \* one per message the user sends; also names its AbortController
    Chats,       \* the transcript arrays allocated over the session
    Ids,         \* conversation ids (Date.now() when a conversation is first saved)
    None,        \* JavaScript's undefined
    MaxLoops,    \* 15: rounds of one run
    RetryLoops,  \* 10: rounds during which a tool error asks for another round
    MaxCalls,    \* tool calls in one answer of the model (bound of the instance)
    Offered      \* the messages the webview can post

ASSUME BoundsAssumption ==
    /\ MaxLoops \in Nat \ {0}
    /\ RetryLoops \in 0..MaxLoops
    /\ MaxCalls \in Nat

ASSUME NamesAssumption ==
    /\ None \notin Runs \cup Ids \cup [chat: Chats, len: Nat]
    /\ Offered \subseteq {"sendMessage", "newChat", "stopGeneration"}

VARIABLES
    busy,        \* webview: isBusy
    allocated,   \* the arrays the session has used or asked for
    toHost,      \* messages posted by the webview, not yet handled
    toView,      \* "done", "error" and "reset" posted to the webview, not yet received
    controller,  \* the run whose AbortController is _abortController
    aborted,     \* the controllers abort() was called on
    transcript,  \* the content of every transcript array
    current,     \* the array _currentTranscript refers to
    active,      \* _activeConversationId
    saved,       \* globalState 'watch-ai.history', by conversation id
    pc,          \* how far each run is
    chatOf,      \* the array a run was given (_runAgentLoop's history parameter)
    loop,        \* its loopCount
    signal,      \* the controller whose signal its pending fetch was given
    calls        \* the tool calls it is executing

viewVars == <<busy, allocated, toHost>>
runVars == <<pc, chatOf, loop, signal, calls>>
storeVars == <<active, saved>>
abortVars == <<controller, aborted>>
vars == <<viewVars, toView, abortVars, transcript, current, storeVars, runVars>>

-----------------------------------------------------------------------------
(* Messages, transcript entries and stored conversations.                  *)

HostMessage == [type: {"sendMessage"}, run: Runs]
          \cup [type: {"newChat"}, chat: Chats]
          \cup [type: {"stopGeneration"}]

\* An assistant entry is the answer of its run in round "turn" and asks for
\* "calls" tool calls; a tool entry answers call number "call" of that answer.
Entry == [role: {"user", "system"}, run: Runs]
    \cup [role: {"assistant"}, run: Runs, turn: Nat, calls: Nat]
    \cup [role: {"tool"}, run: Runs, turn: Nat, call: Nat, ok: BOOLEAN]

Snapshot == [chat: Chats, len: Nat]

Ended == {"finished", "aborted", "failed"}
Phase == {"unsent", "sent", "context", "reply", "tools"} \cup Ended

UserEntry(r) == [role |-> "user", run |-> r]
WarningEntry(r) == [role |-> "system", run |-> r]
AnswerEntry(r, n) ==
    [role |-> "assistant", run |-> r, turn |-> loop[r], calls |-> n]
\* The results of Promise.all, in the order of the calls.
ResultEntriesMislabelled(r, oks) ==
    [k \in 1..calls[r] |->
        [role |-> "tool", run |-> r, turn |-> loop[r], call |-> 1, ok |-> oks[k]]]
ResultEntries(r, oks) ==
    [k \in 1..calls[r] |->
        [role |-> "tool", run |-> r, turn |-> loop[r], call |-> k, ok |-> oks[k]]]

\* hadError: slice(-0) keeps every tool result of the transcript, also those
\* of earlier runs.
HadError(c) == \E p \in 1..Len(transcript[c]) :
                  transcript[c][p].role = "tool" /\ ~transcript[c][p].ok

-----------------------------------------------------------------------------
(* One-line parts of the handlers.  A definition named like one of them with *)
(* a suffix is a mutant: a plausible slip that the runs must detect.         *)

\* history.push(...): a run pushes to the array it was given ...
PushOnScreen(c, entries) ==
    transcript' = [transcript EXCEPT ![current] = @ \o entries]
Push(c, entries) == transcript' = [transcript EXCEPT ![c] = @ \o entries]

\* ... and goes on as long as loopCount allows.
MoreRoundsOffByOne(r) == loop[r] <= MaxLoops
MoreRounds(r) == loop[r] < MaxLoops

PostDoneForgotten == UNCHANGED toView
PostDone == toView' = Append(toView, "done")

ReportErrorForgotten == UNCHANGED toView
ReportError == toView' = Append(toView, "error")

AbortPreviousForgotten == UNCHANGED aborted
AbortPrevious == aborted' = aborted \cup ({controller} \ {None})

ForgetConversationForgotten == UNCHANGED active
ForgetConversation == active' = None

-----------------------------------------------------------------------------
Init ==
    /\ current \in Chats
    /\ busy = FALSE /\ allocated = {current} /\ toHost = <<>> /\ toView = <<>>
    /\ controller = None /\ aborted = {}
    /\ transcript = [c \in Chats |-> <<>>]
    /\ active = None /\ saved = [i \in Ids |-> None]
    /\ pc = [r \in Runs |-> "unsent"]
    /\ chatOf = [r \in Runs |-> current]
    /\ loop = [r \in Runs |-> 0]
    /\ signal = [r \in Runs |-> None]
    /\ calls = [r \in Runs |-> 0]

-----------------------------------------------------------------------------
(* The webview.                                                            *)

Click(type) == type \in Offered

\* sendBtn.onclick, guarded by isBusy.
ClickSend(r) ==
    /\ Click("sendMessage") /\ ~busy /\ pc[r] = "unsent"
    /\ busy' = TRUE
    /\ toHost' = Append(toHost, [type |-> "sendMessage", run |-> r])
    /\ pc' = [pc EXCEPT ![r] = "sent"]
    /\ UNCHANGED <<allocated, toView, abortVars, transcript, current, storeVars,
                   chatOf, loop, signal, calls>>

\* newChat(), allowed while busy; c names the array its handler will allocate.
\* (The command watch-ai.newChat calls that handler directly: it may overtake
\* queued messages, like a click made before them.)
ClickNewChat(c) ==
    /\ Click("newChat") /\ c \notin allocated
    /\ allocated' = allocated \cup {c}
    /\ toHost' = Append(toHost, [type |-> "newChat", chat |-> c])
    /\ UNCHANGED <<busy, toView, abortVars, transcript, current, storeVars, runVars>>

\* The provider accepts 'stopGeneration'; webview.html has no button for it.
ClickStop ==
    /\ Click("stopGeneration") /\ busy /\ toHost = <<>>
    /\ toHost' = Append(toHost, [type |-> "stopGeneration"])
    /\ UNCHANGED <<busy, allocated, toView, abortVars, transcript, current, storeVars, runVars>>

\* 'done', 'error' and 'reset' all call setBusy(false).
ViewReceive ==
    /\ toView # <<>>
    /\ toView' = Tail(toView)
    /\ busy' = FALSE
    /\ UNCHANGED <<allocated, toHost, abortVars, transcript, current, storeVars, runVars>>

-----------------------------------------------------------------------------
(* The provider's message handlers.                                        *)

\* case 'sendMessage' and _handleAgentMessage up to the await of getSmartContext.
HandleSend ==
    /\ toHost # <<>> /\ Head(toHost).type = "sendMessage"
    /\ toHost' = Tail(toHost)
    /\ LET r == Head(toHost).run IN
       /\ AbortPrevious
       /\ controller' = r
       /\ Push(current, <<UserEntry(r)>>)
       /\ chatOf' = [chatOf EXCEPT ![r] = current]
       /\ pc' = [pc EXCEPT ![r] = "context"]
    /\ UNCHANGED <<busy, allocated, toView, current, storeVars, loop, signal, calls>>

\* newChat(): neither the controller nor the running loop is touched.
HandleNewChat ==
    /\ toHost # <<>> /\ Head(toHost).type = "newChat"
    /\ toHost' = Tail(toHost)
    /\ current' = Head(toHost).chat
    /\ ForgetConversation
    /\ toView' = Append(toView, "reset")
    /\ UNCHANGED <<busy, allocated, abortVars, transcript, saved, runVars>>

HandleStop ==
    /\ toHost # <<>> /\ Head(toHost).type = "stopGeneration"
    /\ toHost' = Tail(toHost)
    /\ IF controller # None
       THEN /\ aborted' = aborted \cup {controller}
            /\ controller' = None
            /\ PostDone
       ELSE UNCHANGED <<abortVars, toView>>
    /\ UNCHANGED <<busy, allocated, transcript, current, storeVars, runVars>>

-----------------------------------------------------------------------------
(* _runAgentLoop.                                                          *)

\* The next fetch of the while loop: it takes whatever controller the
\* provider has at that moment.
Fetch(r) ==
    /\ loop' = [loop EXCEPT ![r] = @ + 1]
    /\ signal' = [signal EXCEPT ![r] = controller]
    /\ pc' = [pc EXCEPT ![r] = "reply"]

\* _saveToHistory(this._currentTranscript[0].content, this._currentTranscript)
\* after the posts of the loop's last round.  An empty array throws a
\* TypeError, which _handleAgentMessage reports as 'error'.
SaveToHistory(posts) ==
    IF transcript'[current] = <<>>
    THEN /\ toView' = toView \o posts \o <<"error">>
         /\ UNCHANGED storeVars
    ELSE /\ toView' = toView \o posts
         /\ active' \in IF active # None THEN {active}
                        ELSE {i \in Ids : saved[i] = None}
         /\ saved' = [saved EXCEPT ![active'] =
                         [chat |-> current, len |-> Len(transcript'[current])]]

Finish(r, how) == pc' = [pc EXCEPT ![r] = how] /\ UNCHANGED <<loop, signal>>

\* getSmartContext has answered.
ContextReady(r) ==
    /\ pc[r] = "context"
    /\ Fetch(r)
    /\ UNCHANGED <<viewVars, toView, abortVars, transcript, current, storeVars,
                   chatOf, calls>>

\* The context manager, the connection, a non-2xx answer or the reader throws.
Fails(r) ==
    /\ \/ pc[r] = "context"
       \/ pc[r] = "reply" /\ signal[r] \notin aborted
    /\ Finish(r, "failed")
    /\ ReportError
    /\ UNCHANGED <<viewVars, abortVars, transcript, current, storeVars, chatOf, calls>>

\* Mutant: only the provider's present controller is recognised.
AbortsOfCurrent(r) ==
    /\ pc[r] = "reply" /\ signal[r] \in aborted /\ signal[r] = controller
    /\ Finish(r, "aborted")
    /\ UNCHANGED transcript
    /\ SaveToHistory(<<>>)
    /\ UNCHANGED <<viewVars, abortVars, current, chatOf, calls>>

\* AbortError: the loop returns, posting nothing, and the save still runs.
Aborts(r) ==
    /\ pc[r] = "reply" /\ signal[r] \in aborted
    /\ Finish(r, "aborted")
    /\ UNCHANGED transcript
    /\ SaveToHistory(<<>>)
    /\ UNCHANGED <<viewVars, abortVars, current, chatOf, calls>>

Answered(r, n) ==
    /\ pc[r] = "reply" /\ signal[r] \notin aborted
    /\ calls' = [calls EXCEPT ![r] = n]

\* The stream has ended with n tool calls: they all start at once.
AnswerWithCalls(r) ==
    \E n \in 1..MaxCalls :
       /\ Answered(r, n)
       /\ Push(chatOf[r], <<AnswerEntry(r, n)>>)
       /\ pc' = [pc EXCEPT ![r] = "tools"]
       /\ UNCHANGED <<viewVars, toView, abortVars, current, storeVars,
                      chatOf, loop, signal>>

\* No tool call, but some tool result of the transcript is an error: a
\* warning is pushed and the loop continues without posting 'done'.
AnswerRetried(r) ==
    /\ Answered(r, 0)
    /\ HadError(chatOf[r]) /\ loop[r] < RetryLoops
    /\ Push(chatOf[r], <<AnswerEntry(r, 0), WarningEntry(r)>>)
    /\ Fetch(r)
    /\ UNCHANGED <<viewVars, toView, abortVars, current, storeVars, chatOf>>

\* No tool call and nothing to retry: isDone.
AnswerFinal(r) ==
    /\ Answered(r, 0)
    /\ ~HadError(chatOf[r]) \/ loop[r] >= RetryLoops
    /\ Push(chatOf[r], <<AnswerEntry(r, 0)>>)
    /\ Finish(r, "finished")
    /\ SaveToHistory(<<"done">>)
    /\ UNCHANGED <<viewVars, abortVars, current, chatOf>>

\* Promise.all over the tool calls resolves: results, 'done', and the next
\* round or, after the last one, the save.
ToolsFinish(r) ==
    /\ pc[r] = "tools"
    /\ \E oks \in [1..calls[r] -> BOOLEAN] : Push(chatOf[r], ResultEntries(r, oks))
    /\ \/ /\ MoreRounds(r)
          /\ Fetch(r)
          /\ PostDone
          /\ UNCHANGED storeVars
       \/ /\ ~MoreRounds(r)
          /\ Finish(r, "finished")
          /\ SaveToHistory(<<"done">>)
    /\ UNCHANGED <<viewVars, abortVars, current, chatOf, calls>>

-----------------------------------------------------------------------------
Handle == HandleSend \/ HandleNewChat \/ HandleStop

\* What answers an await of the context manager or of a request ...
Proceed(r) == \/ ContextReady(r) \/ Fails(r) \/ Aborts(r)
              \/ AnswerWithCalls(r) \/ AnswerRetried(r) \/ AnswerFinal(r)

\* ... and of tools, which may take for ever: a command waits for a click.
Advance(r) == Proceed(r) \/ ToolsFinish(r)

Next == \/ \E r \in Runs : ClickSend(r) \/ Advance(r)
        \/ \E c \in Chats : ClickNewChat(c)
        \/ ClickStop
        \/ ViewReceive
        \/ Handle

Spec == Init /\ [][Next]_vars

\* Messages between webview and extension host are delivered; a request is
\* answered, refused or aborted.  Nobody has to click, and so no tool has to
\* return: the card of a command may stay unanswered, be removed by newChat
\* (webview.html:587), or have lost its resolver (extension.ts:668-670).
Fairness == /\ WF_vars(Handle)
            /\ WF_vars(ViewReceive)
            /\ \A r \in Runs : WF_vars(Proceed(r))

FairSpec == Spec /\ Fairness

-----------------------------------------------------------------------------
(* Properties.                                                             *)

TypeOK ==
    /\ busy \in BOOLEAN
    /\ allocated \subseteq Chats
    /\ toHost \in Seq(HostMessage)
    /\ toView \in Seq({"done", "error", "reset"})
    /\ controller \in Runs \cup {None}
    /\ aborted \subseteq Runs
    /\ transcript \in [Chats -> Seq(Entry)]
    /\ current \in Chats
    /\ active \in Ids \cup {None}
    /\ saved \in [Ids -> Snapshot \cup {None}]
    /\ pc \in [Runs -> Phase]
    /\ chatOf \in [Runs -> Chats]
    /\ loop \in [Runs -> 0..MaxLoops]
    /\ signal \in [Runs -> Runs \cup {None}]
    /\ calls \in [Runs -> 0..MaxCalls]

\* A run that will still post 'done' or 'error' by itself, when its tools return
\* at the latest: only a pending request whose controller was aborted ends in
\* silence.
Posts(r) == \/ pc[r] \in {"sent", "context", "tools"}
            \/ pc[r] = "reply" /\ signal[r] \notin aborted

\* The input is disabled only while something that will enable it again is
\* under way: a message to the webview, or a run that will post one (an
\* aborted run does not: the run that replaced it must).  It is about the
\* catch of AbortError (extension.ts:622-626), which posts nothing.
BusyImpliesPending == busy => toView # <<>> \/ \E r \in Runs : Posts(r)

\* Every request that has not been aborted carries the signal of the
\* provider's present controller, so that the next message of the user (or a
\* stop) reaches it, although each run reads the shared field anew at each
\* fetch (extension.ts:483).
LiveRequestsAbortable ==
    \A r \in Runs : pc[r] = "reply" /\ signal[r] \notin aborted
                       => signal[r] = controller

\* Conversations never mix: the active id names the stored copy of the array
\* on the screen, and no array is stored under two ids, whichever run's end
\* triggered the save (extension.ts:180, 188-218).
ActiveIsCurrent ==
    active # None => saved[active] # None /\ saved[active].chat = current
OneEntryPerChat ==
    \A i, j \in Ids : /\ saved[i] # None /\ saved[j] # None
                      /\ saved[i].chat = saved[j].chat
                      => i = j
ConversationsStaySeparate == ActiveIsCurrent /\ OneEntryPerChat

\* At position q a result of call k of the round that position p belongs to.
Answers(c, q, p, k) ==
    LET e == transcript[c][p]
        t == transcript[c][q]
    IN  /\ t.role = "tool" /\ t.run = e.run /\ t.turn = e.turn /\ t.call = k

\* In every transcript each tool call of the model is answered later in the
\* same transcript, unless its run is still executing the calls of that very
\* round: a run never leaves a call behind, whatever newChat and other runs
\* do to the provider meanwhile (the API refuses a transcript that does).
CallsAnswered ==
    \A c \in Chats : \A p \in 1..Len(transcript[c]) :
       LET e == transcript[c][p] IN
       e.role = "assistant" =>
          \/ \A k \in 1..e.calls : \E q \in (p + 1)..Len(transcript[c]) : Answers(c, q, p, k)
          \/ pc[e.run] = "tools" /\ chatOf[e.run] = c /\ loop[e.run] = e.turn

\* Every tool result follows the answer that asked for it, and no call is
\* answered twice.
ResultsAnswerCalls ==
    \A c \in Chats : \A q \in 1..Len(transcript[c]) :
       LET t == transcript[c][q] IN
       t.role = "tool" =>
          /\ \E p \in 1..(q - 1) :
                /\ transcript[c][p].role = "assistant"
                /\ transcript[c][p].calls >= t.call
                /\ Answers(c, q, p, t.call)
          /\ \A o \in 1..Len(transcript[c]) : Answers(c, o, q, t.call) => o = q

\* A stored conversation stays the conversation it was, and its copy never
\* gets shorter: a late save of an old run cannot roll back or replace what a
\* newer one has saved (extension.ts:193-216).
SavedOnlyGrows ==
    [][\A i \in Ids : saved[i] # None =>
          /\ saved'[i] # None
          /\ saved'[i].chat = saved[i].chat
          /\ saved'[i].len >= saved[i].len]_vars

\* The latest message of the user, on its way to the provider.
LatestSent(r) ==
    \E k \in DOMAIN toHost :
        /\ toHost[k] = [type |-> "sendMessage", run |-> r]
        /\ \A j \in DOMAIN toHost : j > k => toHost[j].type # "sendMessage"

\* After each message of the user the input is enabled again, unless the run
\* of that very message waits for a tool for good: an older run that hangs in a
\* tool is no excuse (webview.html:686-702; extension.ts:620, 622-626).
BusyEnds == \A r \in Runs : LatestSent(r) ~> ~busy \/ [](pc[r] = "tools")

\* Every message of the user is dealt with, whatever older and newer runs do to
\* the shared controller meanwhile: its run finishes, is aborted by a later one
\* or fails, unless one of its tools never returns (extension.ts:460, 483, 560).
RunsEnd == \A r \in Runs : pc[r] = "sent" ~> pc[r] \in Ended \/ [](pc[r] = "tools")

\* How many steps a run can still take: a round is an answer and its tools.
StepsLeft(r) ==
    CASE pc[r] = "unsent"  -> 2 * MaxLoops + 3
      [] pc[r] = "sent"    -> 2 * MaxLoops + 2
      [] pc[r] = "context" -> 2 * MaxLoops + 1
      [] pc[r] = "reply"   -> 2 * (MaxLoops - loop[r]) + 2
      [] pc[r] = "tools"   -> 2 * (MaxLoops - loop[r]) + 1
      [] OTHER             -> 0

\* What RunsEnd rests on: whatever a run does brings it closer to its end, and
\* nothing that other runs or the user do sets it back; retries and tool rounds
\* use up the same limit (extension.ts:460, 613, 620).
RunsComeCloser ==
    [][\A r \in Runs : /\ StepsLeft(r)' \in Nat
                       /\ \/ StepsLeft(r)' < StepsLeft(r)
                          \/ ~Advance(r) /\ UNCHANGED <<pc[r], loop[r]>>]_vars

\* README.md:9: "Chat history is automatically synced and persisted": what a
\* finished run answered is in the stored history.
FinishedRunsSaved ==
    \A r \in Runs : pc[r] = "finished" =>
        \E i \in Ids : saved[i] # None /\ saved[i].chat = chatOf[r]
=============================================================================
