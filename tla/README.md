# Watch.ai: a TLA+ model of its agent

Watch.ai is a coding assistant in two forms: an extension of a Code - OSS build
(`vscode/extensions/watch-ai`) with its own chat view, and an older web client
with a Node server (`client`, `server`, wrapped by `electron`). The project
models what is Watch.ai's own: not the editor around it, and not the wording of
prompts, cards and logs. File names below are short for

- `extension.ts` - `src/vscode/extensions/watch-ai/src/extension.ts`
- `webview.html` - `src/vscode/extensions/watch-ai/resources/webview.html`
- `index.js` - `src/server/index.js`
- `ChatInterface.jsx` - `src/client/src/components/ChatInterface.jsx`
- `agentService.js` - `src/client/src/services/agentService.js`

## Inventory

| Component | State | Operations | What makes it correct | Status |
|---|---|---|---|---|
| Agent loop (`extension.ts:84-218, 220-630`, `webview.html:585-702`) | `_currentTranscript`, `_activeConversationId`, `_abortController`, per run `loopCount` and the array it was given; the view's `isBusy` | sendMessage, newChat, stopGeneration; a run's fetches, answers, tool rounds, retries, abort, failure, save | the input is never disabled for nothing; the present controller reaches every live request; transcripts the API accepts; conversations stay apart; a run ends when its tools do | modelled: `AgentLoop` |
| Terminal tool (`extension.ts:10-12, 60-74, 100-111, 649-685`, `webview.html:603-620, 666-673`) | `_pendingApprovals`, `_securityMode`, processes, the timer of `init`, the view's cards and mode switch | propose, approve, reject, switch mode, process end, clear the list, hide and show the view | nothing runs unapproved in secure mode; an answer is final; switch and provider agree, or the switch is on the safe side | modelled: `TerminalApproval`, promise: `ApprovalGate` |
| Conversation store (`extension.ts:76-82, 143-218, 808-869`) | the list in `globalState` (at most 50), Firestore documents, requests under way | save, load, delete, the list fetched at start, restart | newest first, nothing lost | modelled: `ConversationStore` |
| File tools, pending edits (`extension.ts:126-138, 704-773`, `webview.html:675-690`) | `_pendingEdits`, the files, the cards | edit_file, search_replace, delete_file, approve/reject one or all | only approved text gets into a file; a rejection is final; a proposal is not lost on the way | modelled: `FileTools` |
| Context manager (`contextManager.ts`) | none | getSmartContext | answers or throws | only its outcome (`AgentLoop`: `ContextReady`, `Fails`) |
| Agent endpoint (`index.js:180-388, 610-785`) | the global `sessionStats`, per request messages | chat requests, tool calls, approval stop | statistics belong to their request; every call answered; one final event | modelled: `AgentServer` |
| Approval endpoint (`index.js:788-802`) | none (blocks the process) | run a command | one result per approval | modelled: `ChatClient` (`CommandRuns`) |
| Client chat (`ChatInterface.jsx`, `agentService.js`) | messages, `isLoading`, one pending approval, what is rendered | send, stream chunks, run or reject a proposed command, resume | the input is not disabled for nothing or for ever; the command shown is the command run; messages stay | modelled: `ChatClient` over `AgentServer` |
| File API (`index.js:483-607`) | the files | list, read, save, create, delete | agrees with the explorer | not modelled |
| Web terminal (`index.js:804-839`) | one pty per socket | input, resize, disconnect | pass-through | not modelled |
| Editor tabs (`App.jsx`) | open files, active file | open, close, edit | no tab lost by concurrent opens | not modelled |
| Electron shell (`electron/main.js`) | server process, window | start, restart, reload | the client talks to the new server | not modelled |
| Code - OSS | | | third-party | not modelled |

How they interact: the webview and the extension host exchange messages over two
ordered queues; the provider is one object whose fields all handlers and all runs
share, on one JavaScript thread, so that a handler is atomic up to its first
`await` and anything may happen between two awaits. A run calls the model over
HTTP, starts tools (one of them the terminal tool, which waits for the user), and
ends in a save, which writes `globalState` and sends a request to Firestore that
nobody awaits. The file tools read and write the workspace with awaits between,
and the buttons of their cards do the same. The web client and its server talk
over HTTP: one event stream per request of the agent, and one plain request per
approved command, after which the client opens another stream.

What is hard here: overlapping runs over shared fields, aborts that end silently,
millisecond clocks used as identifiers, unawaited requests, a local history that
the cloud's list replaces, proposals that are decided while a file is being
written, a view whose script starts again whenever it is hidden and shown, and React
handlers that act on the render they were made in.

## The modules

### AgentLoop

One action per stretch of code between two awaits. `toHost` and `toView` are
the two message queues; `controller` is `_abortController`, named by the run
whose message created it, and `aborted` the controllers on which `abort()` was
called. `Chats` are transcript arrays by identity: a run keeps in `chatOf` the
array it was called with, while `current` is what `_currentTranscript` refers
to at the moment. `pc[r]` says which await a run is in: `context`
(`getSmartContext`), `reply` (fetch and stream), `tools` (`Promise.all`).

| Action | Code |
|---|---|
| `ClickSend`, `ClickNewChat`, `ClickStop`, `ViewReceive` | `webview.html:585-589, 639-648, 686-702` |
| `HandleSend` (abort the previous run, push the user's message) | `extension.ts:86-92, 172-179` |
| `HandleNewChat`, `HandleStop` | `extension.ts:143-147, 93-99` |
| `ContextReady`, `Fetch` | `extension.ts:416-484` |
| `AnswerWithCalls`, `ToolsFinish` | `extension.ts:545-605, 620` |
| `AnswerRetried`, `AnswerFinal` | `extension.ts:607-620` |
| `Aborts`, `Fails` | `extension.ts:622-628, 181-185` |
| `SaveToHistory` (part of the step that ends a run) | `extension.ts:180, 188-218` |

Abstractions: texts are dropped; a tool result is right or an error (any of
them, chosen freely); an answer has up to `MaxCalls` calls; a stored
conversation is the array it was copied from and how long that array was. Ids
(`Date.now()`) of different conversations are assumed to differ. The cap of the
history and the cloud belong to `ConversationStore`; `_loadChat` and
`_deleteChat` are modelled there.

### TerminalApproval and ApprovalGate

`TerminalApproval` has the calls of run_terminal_cmd with their approval ids,
the map of resolvers `pending`, the queues, the cards and the mode switch. A
batch of calls of one answer starts in one pass of `Promise.all`, so its ids may
coincide; of several calls with one id the map keeps the last. `ApprovalGate` is
what the tool promises (`extension.ts:264`): per command *idle, asked, approved
or refused, running, over*, and a mode in which commands run at once.
`stageOf` is the refinement mapping; the history variable `clicked` (the first
button the user pressed on a card) tells *asked* from *approved*.

The view is registered without `retainContextWhenHidden`: hidden, it loses its
webview with the cards, the switch and what is on its way to it (`Hide`), what is
posted meanwhile is dropped (`Post`), and shown again (`Show`) its script starts
from the beginning, with the switch on *secure*. It is resolved only once, so the
timer that posts `init` with the mode of that moment fires once (`PostInit`). `told`
is a history variable: the webview has been told the mode, or set it, since its
script started. So a shown switch may say *secure* on autopilot, and `ModeAgrees`
says that it is never wrong in another way for longer than a message travels.

| Action | Code |
|---|---|
| `ProposeFull`, `ProposeSecure`, `ProcessEnds` | `extension.ts:649-685` |
| `ClickApprove`, `ClickReject`, `ClearList`, `ToggleSecurity` | `webview.html:585-607, 666-673` |
| `ReceiveCard`, `ReceiveMode` | `webview.html:609-620, 666-673` |
| `PostInit` | `extension.ts:72-74` |
| `HandleApproval`, `HandleSecurityMode` | `extension.ts:100-111` |
| `Hide`, `Show`, `Post` | the editor's `overlayWebview.ts:159-182, 219-283, 364-377` |

### ConversationStore

A transcript is the set of the user's messages in it; a save makes a snapshot of
it at the head of `local` and sends a PATCH. `net` holds requests under way,
`cloud` the documents, `list` the documents that `getConversations` fetched for
a resolved view, one page of them, whichever it is (the token of the next is ignored), computed at one moment and applied at another. `linked` models
that `_loadChat` makes the stored array itself the current transcript, until
`globalState.update` replaces it by a copy. `Restart` keeps `globalState` and
drops the provider's fields and the requests that were not sent. Three history
variables (`saved`, `deleted`, `replaced`) serve the properties.

### AgentServer

One action per stretch of the chat handler between two awaits that leave the
microtask queue: the arrival of a request (`Start`), the end of an answer's
stream with everything up to the next question (`AnswerWithCalls`,
`AnswerWithoutCalls`), and an exception of the model or the stream (`Fails`). Arguments that are not JSON
throw when the answer is written, arguments that are `null` only when their call
is reached, with the calls before it already run (`Throws`); either ends the
response with `error` after what was written.
The tool handlers are synchronous inside, so a batch is one step and requests
interleave only between rounds. `stream` is what was written to the response,
`asked` and `answered` the tool calls and tool messages in `chatMessages`,
`sessionStats` the calls counted in the global; content deltas are left out, and
a call is known by its request, round and position and by what becomes of it
(`Kinds`). `ran` and `overlapped` are history variables. `Kinds` is a constant, so that
`ChatClient` can compose the module with only the calls its question needs.

### FileTools

One action per stretch between two awaits of the file system. `pc[t]` is the
await a tool call is in, `path[t]` and `text[t]` its arguments; a file is the set
of pieces of text in it, each named by the call that brought it, so that the
properties can tell whose text a file holds. `pendingEdits` is keyed by a file
and the form its path was written in, because the code keys it by the model's
own path and looks it up by the absolute one. `applying` holds the
`_writePendingEdit` calls that await their write, `sweep` the one
`_approveAllEdits`, with the keys its iterator has visited. A card may be lost as soon as it is
posted, when the view is hidden. `trusted`, `taken`, `refused` and `failed` are
history variables.

| Action | Code |
|---|---|
| `Start` (autopilot or proposal is decided here), `Propose` | `extension.ts:704-747` |
| `Replace`, `WriteLands`, `ToolFails` | `extension.ts:704-750, 594-603` |
| `ClickCard`, `ClearList` | `webview.html:678-686, 585-589` |
| `ClickAll` (the shipped webview has no such buttons, the provider listens) | `extension.ts:132-137` |
| `HandleApprove`, `ApprovedWriteLands`, `ApprovedWriteFails` | `extension.ts:126-128, 766-768` |
| `HandleReject`, `HandleRejectAll` | `extension.ts:771, 773` |
| `HandleApproveAll`, `SweepWriteLands`, `SweepWriteFails` | `extension.ts:772` |

Abstractions: an edit's text is a piece of its own and any of the old pieces; the
special patterns of `String.replace` and the marker for unchanged code in an
edit (which the code writes out as it stands) are left out. Directories, and
paths with a backslash (the card's script does not keep it), are left out too.

### ChatClient

`ui` is the component's state, `screen` the render the user sees: after a click
React renders at once, after an event of a stream some time later (`Render`). A
handler closes over the values of its render: `Closure` is what `handleApproval`
captures, and `leaving` a card that is still fading away, whose buttons still
work. `Server` is `AgentServer` by INSTANCE; its handler goes on when the
connection breaks. `conn` and `consumed` are where `streamAgent` is with each
stream, `approvals` the calls of `approveCommand`. `streamAgent` does not look at the status
of an answer: a request that the server refuses before its handler (`bodyParser`,
`index.js:480`) ends like a finished stream, but without `done` or `error`
(`Refused`). The history variable `refusal` remembers that this happened since the
input was last disabled.

| Action | Code |
|---|---|
| `HandleSend`, `ClickRun`, `ClickReject` | `ChatInterface.jsx:37-63, 141-197` |
| `Arrive`, `ServerWorks` | `AgentServer` |
| `HandleChunk`, `StreamEnds`, `Refused`, `Breaks` | `ChatInterface.jsx:65-139`, `agentService.js` |
| `CommandRuns` | `index.js:788-802` |
| `Resume`, `ApprovalFails` | `ChatInterface.jsx:158-197` |

Of the messages only the user's are kept, each as the request it made; the
streamed text, and the steps on display, are left out.

## What is checked

| Run | Instance | Shows |
|---|---|---|
| `agent_safety` | 2 runs, 2 chats, 2 ids, 2 rounds, answers of up to 2 calls, shipped webview | `TypeOK`, `BusyImpliesPending`, `LiveRequestsAbortable`, `ConversationsStaySeparate`, `CallsAnswered`, `ResultsAnswerCalls`, `SavedOnlyGrows`, `RunsComeCloser` |
| `agent_live` | 2 runs, 1 chat, 2 rounds, a view that also posts stopGeneration, fair | `BusyImpliesPending`, `BusyEnds`, `RunsEnd` |
| `agent_persist` | as `agent_safety`, 1 call per answer | `FinishedRunsSaved` is violated (finding) |
| `terminal_one` | 2 commands, 1 per answer, 2 mode switches, a view hidden and shown at any moment, fair | `TypeOK`, `ModeAgrees`, `ImplementsGate`, `ClickedSettles` |
| `terminal_batch` | 3 commands, up to 2 per answer | `EveryRunWasApproved`, `OneRunPerId` |
| `terminal_own_card` | 2 commands in one answer | `OwnCardApproved` is violated (finding) |
| `store_local` | 3 conversations, a list of 2, 3 messages, 1 loss, reordering, loads and deletes | `TypeOK`, `LocalOrdered`, `LocalKept` |
| `store_cloud` | 2 conversations, a list of 1, no loss, requests in order, fair | `CloudKept`, `EventuallySynced` |
| `store_persist` | 2 conversations, 1 loss | `HistoryPersisted` is violated (finding) |
| `server` | 2 requests, 2 rounds, answers of up to 2 calls of all 5 kinds | `TypeOK`, `CallsSettled`, `ProposalIsLast`, `EndsOnce`, `StatsOwn` |
| `edits` | 2 edits, 1 replacement, 1 deletion, 1 file under either form of its path, every decision | `TypeOK`, `EditsWereApproved`, `RefusedStaysOut`, `LoneProposalsStay` |
| `web_chat` | 3 requests of 1 round that may propose a command, 2 approvals, fair | `TypeOK`, `LoadingJustified`, `ShownIsRun`, `MessagesStay`, `LoadingEnds` |

Why these bounds are enough to be interesting: two runs are what it takes for a
newer message to abort an older run, for an old run to end after a newer one has
begun, and for two runs to share a transcript; two chats let `newChat` come
between any two steps of them (`agent_live` has one chat and so no `newChat`: of what
the liveness properties look at, that touches nothing but `isBusy`, which it clears); two rounds reach both the limit of
rounds and a round that is not the last, and answers of two calls make a batch.
Three conversations over a list of two make the cap bite; one loss is enough to
lose a request or to let a restart kill it. Two requests, one arriving while the
other awaits the model, are what it takes to mix statistics. Two edits, of which
one is decided while the other is proposed or written, with a replacement and a
deletion of the same file between, give every order of two proposals under one
key and under two; that the properties hold for more files and calls is proved.
In `web_chat` a request, the one that resumes it and a message sent meanwhile
are three, a second approval lets a fading card be clicked twice and two
approvals be under way at once; one round is enough because a command ends its
request and the client does not see rounds.

The code's own limits (15 rounds, 10 retries, 50 conversations) are the constants
`MaxLoops` (`MaxRounds` in the server), `RetryLoops` and `Cap`. `MaxCalls`,
`MaxBatch`, `MaxToggles`, `MaxMessages`, `MaxLosses`, `MaxQueue`, `MaxRequests` and
`MaxClicks` only bound the instance; so do two guards of `FileTools` (one decision
about all proposals in the queue, one `_approveAllEdits` at a time) and one of
`ChatClient` (a request is left for each approval). All configurations disable the
deadlock check because the user may stop clicking, or run out of the instance's
messages, and then nothing has to happen.

Symmetry is used in runs without liveness: runs, chats and ids (commands and
ids in the terminal tool) are interchangeable, and so are the server's requests and the edits of the file tools.

### Fairness

In the agent loop messages between webview and host are delivered (`Handle`,
`ViewReceive`), and a request is answered, refused or aborted (`Proceed`): that the
API lets no request hang is an assumption about the environment. Nobody has to
click, and no tool has to return. run_terminal_cmd waits for the user's click, the
card may have been removed by `newChat` or by hiding the view, and a resolver that
was overwritten is never called: `ToolsFinish` has no fairness. `RunsEnd` therefore
says that a run ends unless it stays in its tools for good, and `BusyEnds` that the
input comes back after each message unless the run of that very message does; an
older run that hangs is no excuse. That a command whose card *was* clicked is
released, and its process started or not, is `ClickedSettles`, with messages
delivered (`Handle`); the user need neither click nor show the view again.

In the store, a request that is not lost arrives; the editor need not be
restarted. In the web client a request reaches the handler, is refused or fails, the
model answers or fails, a command ends (`execSync` gives up after 60 seconds), events
that have arrived are handled and React renders; nobody has to click and a fading
card need not go.

### What the properties leave open, because the code does

- A switch on *secure* while the provider is on autopilot, after the view was hidden
  and shown or before the timer has fired (`ModeAgrees` names the case).
- A run that waits for ever for a command that nobody can approve any more.
- Proposals for one path that contest each other: the `delete` after an approved
  write drops a newer proposal with the older one, and the newer one's card does
  nothing. `LoneProposalsStay` is about a proposal no other was made beside, before
  or after it. A proposal under a relative path is one too, but its card, which
  carries the absolute path, never finds it, so that only `approveAll`
  and `rejectAll` ever take it away; of its click the property says nothing.
- An input that stays disabled for ever after a request was refused: nothing resets
  `isLoading` then, so `LoadingJustified` and `LoadingEnds` except it (`refusal`).
- Overlapping requests mix their statistics; `StatsOwn` is about the others.
- Messages sent while an approval is under way; `MessagesStay` is about the others.

### Findings

1. A run during which the user starts a new chat finishes without its
   conversation being stored, and if the new chat is still empty the save throws
   (`agent_persist`; README.md:9 against `extension.ts:180`).
2. Two terminal calls of one answer can share an approval id; approving the card
   of one runs the other (`terminal_own_card`; `extension.ts:264` against 668).
   What remains true is that some card with that id was approved, and that one
   id starts one command.
3. After a lost PATCH the list from the cloud replaces the only copy of a
   message (`store_persist`; README.md:9 against `extension.ts:78-79, 832`).

## What is proved

All for every value of the constants.

| Module | Theorem | Property |
|---|---|---|
| `AgentLoopProofs` | `TypeCorrect` | `TypeOK` |
| | `BusyIsJustified` | `BusyImpliesPending` |
| | `EveryRequestAbortable` | `LiveRequestsAbortable`, when the webview does not offer stopGeneration |
| | `ConversationsNeverMix` | `ConversationsStaySeparate` |
| | `SavedNeverShrinks` | `SavedOnlyGrows` |
| | `RunsAreBounded` | `RunsComeCloser` |
| `AgentTranscriptProofs` | `EveryCallAnswered` | `CallsAnswered` |
| | `EveryResultAsked` | `ResultsAnswerCalls` |
| `TerminalApprovalProofs` | `TypeCorrect` | `TypeOK` |
| | `RunsWereApproved` | `EveryRunWasApproved` |
| | `OneRunForAnId` | `OneRunPerId` |
| | `SwitchTellsMode` | `ModeAgrees` |
| | `ToolIsGate` | `ImplementsGate`, when `MaxBatch = 1` |
| `FileToolsProofs` | `TypeCorrect` | `TypeOK` |
| | `OnlyApprovedEdits` | `EditsWereApproved` |
| | `RejectIsFinal` | `RefusedStaysOut` |
| | `LoneProposalIsKept` | `LoneProposalsStay` |
| `AgentServerProofs` | `TypeCorrect` | `TypeOK` |
| | `CallsAreSettled` | `CallsSettled` |
| | `ProposalEnds` | `ProposalIsLast` |
| | `StreamEndsOnce` | `EndsOnce` |
| | `FiguresAreOwn` | `StatsOwn` |
| `ChatClientProofs` | `Composition` | `Spec => Server!Spec` |
| | `TypeCorrect` | `TypeOK` |
| | `LoadingIsJustified` | `LoadingJustified` |
| | `ShownIsWhatRuns` | `ShownIsRun` |
| | `MessagesAreKept` | `MessagesStay` |
| `ConversationStoreProofs` | `TypeCorrect` | `TypeOK` |
| | `HistoryIsOrdered` | `LocalOrdered` |
| | `HistoryIsKept` | `LocalKept` |
| | `CloudFollows` | `Synchronised`, when requests arrive in order |
| | `CloudIsKept` | `CloudKept`, when requests arrive in order, `MaxLosses = 0` and deleteChat is not offered |
| | `LostOnlyByLoss` | `HistoryPersisted` until a request is lost or something is deleted, when requests arrive in order |

That is every invariant and action property a passing run checks.

The assumptions are those the modules name (`BoundsAssumption`,
`NamesAssumption`, `ApprovalAssumption`, `ToolsAssumption`, `StoreAssumption`,
`ServerAssumption`, `EndpointAssumption`, `ClientAssumption`: sensible bounds,
finitely many commands, `None` and the members of different sets are different
things; `None` is also no conversation, as a document that is missing is not one
that is there), which TLC evaluates in every run. The conditions in the table are hypotheses
of the theorems, and each is needed: requests of the store are sent on
connections of their own, and when an older PATCH overtakes a newer one the
document goes back to the older text.

`AgentLoopProofs` has four inductive invariants:

- `Sane`: types, and two facts that types alone need: a run that has not fetched
  is at round 0, so that its first round cannot exceed the limit, and a queued
  sendMessage belongs to a run that is `sent`, so that handling it cannot restart
  a run that is under way.
- `Control`: the present controller and every aborted one belong to runs whose
  message was handled, and the present controller has not been aborted. With
  `Sane` it makes `BusyImpliesPending` inductive: a new run can always post.
- `Covered`: no stop is queued and a run under way always finds a controller, so
  that no request is made without a signal.
- `Store`: every array on the screen or behind a stored copy is allocated, queued
  newChats ask for distinct arrays that are neither, no stored copy is longer than
  its array, and while there is no active id the array on the screen has no stored
  copy. Without these a new chat could reuse an array, or a first save create a
  second copy.

`RunsAreBounded` needs `Sane` only: each round of a run is two steps, and the round of a
retry and that of tool results count against the same limit. It is the part of
`RunsEnd` that needs no fairness: a run that does not end waits for a request or a tool.

`AgentTranscriptProofs` adds `Log` to `Sane`. The two properties are not inductive,
because they do not say what a run still owes, so `Log` has two more parts:

- `Placed`: an answer or a result lies in the array its run was given, in a round
  the run has reached; it is past that round, unless it executes the calls of that
  very answer. So no result of the present round is there yet when the results are
  pushed, and no call can get two.
- `AskedNow`: a run that executes tools has its answer, with as many calls as it
  executes, in its array. So the results pushed at the end follow their answer.

Every step that pushes is an instance of `Wrote`: entries of one run appended to
one array, the other runs unchanged. `LogQuiet` treats the steps that push no
result, `LogResults` the one that does.

`TerminalApprovalProofs`:

- `Sane`: types, and that cards, clicks and resolvers belong to calls with an id,
  a resolver to a call that still waits under that very id.
- `Honest`: a click leaves either a settled id or an answer in the queue; an
  answer in the queue is what the user first clicked on a card with its id, or the
  id is settled, or another answer to it is further ahead; and an id under which a
  command ran is settled. `HeadJustified` follows: the head of the queue, if
  anyone waits for it, is what the user clicked first, so reject-then-approve on a
  dimmed card cannot start the command.
- `Told`: a mode change is on its way, or the last mode message to the view, or
  the switch, shows the provider's mode, or no mode message is there and the switch
  stands where the script starts it. The view's disappearance, which drops what is in
  the queue, needs the last case, and that a hidden view is such a view.
- `ToolIsGate` adds that ids are unique when an answer has one call, so that *some*
  card with an id is the command's own. `GateStep` maps each action to a step of
  `ApprovalGate` or to none: a click to *asked* becoming *approved* or *refused*,
  the handling of a refusal to nothing, as the click has already decided it.

`FileToolsProofs`:

- `Sane`: types, and that a call that has begun has a path, a card a call that
  has returned.
- `Guarded`: the property said not only of files but of every text a tool is about
  to write (a replacement carries what it read), with the steps before: an
  approveEdit in the queue or in a handler has the approved card of its file, an
  approveAll or a sweep has made every edit trusted.
- `Out`: a refused edit was proposed, its call has returned, and no handler took
  it; what the map holds is not refused; and what is in a file, or in a text on its
  way to one, was taken by a handler or written by a call that proposed nothing.
- `Tracked`: the property, with the file a click carries, and two facts about handlers
  under way: the write of an approved edit belongs to the path it will delete, and a
  path that `_approveAllEdits` has visited had a proposal that was taken. So what
  the `delete` and the `clear()` drop after their awaits was taken or is contested.

`Subsequence` and `SubsequenceProofs`: `Array.prototype.filter`, which the server's
batch and the store's lists both need. The library's `SelectSeq` is recursive and
cannot be expanded in a proof, so `Kept` says directly which element stands where:
the n-th of the kept positions, where a position's rank is the number of kept
positions up to it. The lemmas are those the proofs need of a filter: every
element of the result stood at a kept position, in the same order (`KeptFrom`),
and no kept element is lost (`KeptAll`). `LeastNatural`, which the choice of the
first proposed command needs, is derived from the well-founded order of finite
sets, as the library's own statement takes an operator.

`AgentServerProofs`: `IInv` is `TypeOK` and `CallsSettled`, which is nearly
inductive as it stands, with

- `Fresh`: a request that has not arrived has said, run and written nothing;
- `Streams`: the stream of a request under way has no `done`, `error` or proposal
  (`Running`), and that of one that is over ends in its only `done` or `error`, with
  a proposal nowhere but just before it (`Complete`). `Piece` says what one answer
  adds; `StaysRunning` and its neighbours put the two together.
- `Counted`: a request that never overlapped another is the only one open, and the
  global figures are its own. `StatsOwn` speaks of the moment the `done` was
  written, which `Reported` keeps.

`NextIInv` also shows that streams only grow (`Lengthens`), which the client needs.

`ChatClientProofs` does not repeat any of that. `Composition` shows that on the
endpoint's variables every step of client and network is one of the endpoint or
none; the theorems of `AgentServerProofs` are then instantiated (`Endpoint`) and hold
of the endpoint the client talks to. The `Same...` lemmas say that the two
instances of `AgentServer` mean the same. The client's own part is `CInv`:

- `ClientTypeOK` and `Unread`: a stream has been read no further than it is long, and
  only after it was opened.
- `Approved`: not only what ran but every approval under way is for a command whose
  own card was clicked, as the click captures the command of its render.
- `Retained`: the messages that must not disappear (`Owed`) are not only in the
  component's list but in every list that may yet come back to it: that of the last
  render, the one a fading card captured, and that of each approval under way.
- `LoadingJustified` itself. It is kept when an event is read because a stream that is
  read stays as it was (`Lengthens`), and when a stream closes because then the last
  event, `done` or `error`, has been read (`Complete`), or because its request was
  refused, which `refusal` remembers until the input is enabled again (`RefusedStep`).

`ConversationStoreProofs`: a list is `Sound` when it names each conversation once, the
newest first, nothing later than the clock. `WithoutSound`, `UpdateSound` and
`TrimSound` show it of the three operations on lists. The invariant is

- `Origins`: every copy, in the history, in a list that was fetched and not yet used, in
  a request or a document, comes from a save, so that its time is not later than
  the clock. So a list computed before a save and used after it is still sound.
- `OwnHistory`: while the history has not been replaced, an entry has the time of
  the last save of its conversation and at least its messages, the conversation on
  the screen is in the history (unless deleted), and an entry linked to the screen is
  not ahead of it.
- `LocalKept`. That the cap never drops one of the last `Cap` conversations is a
  pigeonhole argument (`FewBefore`): the entries before one are all newer, and distinct.

For the cloud, `Synchronised` says of each conversation that its document is the last
save and no request for it is on its way, or that the last request on its way
carries that save. `CloudKept` alone is not inductive: it would be kept by an old
request that is delivered last.

Only model-checked: liveness (`BusyEnds`, `RunsEnd`, `ClickedSettles`,
`EventuallySynced`, `LoadingEnds`), which is out of the prover's reach. The three
properties that runs refute are refuted by TLC. Some definitions are written the way
they are because a proof needs it: `IsLast` describes the last call with an id
instead of choosing it, and `Without` and `Executed` filter with `Kept`.

## Not modelled

- The text of prompts and answers, the streaming of partial content (so also that
  `finishResponse` shows a stale text), the steps on display, the look of cards
  beyond which buttons work, and codebase and file searches, which have no effect
  on the state.
- Two replacements in one file that lose one another: `FileTools` has the
  interleaving, but no document says it may not happen, so there is no property.
- What hiding and showing the view does outside `TerminalApproval` and the cards of
  `FileTools`: in the agent loop a script that starts again only enables the input
  (`isBusy` is false at first) and loses messages that would have done so, which the
  new script does not need. A view that is moved to another place is resolved again,
  with a second `init`: not modelled.
- The file API: one request, one file operation, no state; nothing in the client
  ever saves a file. The web terminal: bytes passed through. Editor tabs: one list
  and one assignment. The Electron shell: starting processes; the restart it offers
  is sent by nobody. The context manager's text.
- Code - OSS under `src/vscode`, which is nearly all of the repository's lines:
  third-party code that Watch.ai builds on. `globalState`, message channels and the
  file system are modelled as the extension uses them.

## What is left

What the proofs do not reach are the five liveness properties. `RunsAreBounded` is the
safety part of `RunsEnd`; a measure like it is worth stating for the requests and
approvals of `ChatClient` and the requests of the store, so that only fairness is
left to TLC.
