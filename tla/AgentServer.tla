------------------------------ MODULE AgentServer ------------------------------
(***************************************************************************)
(* POST /api/agent/chat of the web client's server: a request asks the     *)
(* model up to 15 times, runs the tools of each answer one after the       *)
(* other, stops at a command that needs the user's approval, and streams   *)
(* events to the client.  Several requests may be open at once (the client *)
(* resumes after an approval, or is reloaded; a closed connection does not *)
(* stop the handler) and all of them count into the one global             *)
(* sessionStats.                                                           *)
(*                                                                         *)
(* The handler awaits only the model and tools that never leave the        *)
(* microtask queue, so what follows the end of an answer's stream, up to   *)
(* the next question to the model, is one step.                            *)
(***************************************************************************)
EXTENDS Naturals, Sequences, Subsequence

CONSTANTS
    Requests,
    MaxRounds,     \* maxLoops, 15
    MaxCalls,      \* tool calls in one answer (bound of the instance)
    Kinds          \* what tool calls there are (AllKinds, or fewer in an instance)

\* A tool (which works or reports an error: the loop does not look), a name
\* without a handler, a command for the terminal, a tool or a command whose
\* arguments are the JSON null, arguments that are not JSON.
AllKinds == {"tool", "unknown", "runCommand", "null", "malformed"}

ASSUME ServerAssumption ==
    MaxRounds \in Nat \ {0} /\ MaxCalls \in Nat /\ Kinds \subseteq AllKinds

VARIABLES
    phase,         \* is the request idle, awaiting the model, or ended?
    round,         \* loopCount
    asked,         \* the tool calls in the assistant messages of chatMessages
    answered,      \* those with a tool message
    stream,        \* the events written to the response (content left out)
    sessionStats,  \* the calls counted since the last reset
    ran,           \* history: the calls a request has run or proposed
    overlapped     \* history: has another request been open meanwhile?

dialogueVars == <<asked, answered>>
vars == <<phase, round, dialogueVars, stream, sessionStats, ran, overlapped>>

-----------------------------------------------------------------------------
(* Tool calls and events.                                                  *)

Call == [req: Requests, round: 1..MaxRounds, pos: 1..MaxCalls, kind: Kinds]
Event == [type: {"tool_call"}, calls: Seq(Call)]
    \cup [type: {"step", "approval_required"}, call: Call]
    \cup [type: {"done"}, stats: SUBSET Call]
    \cup [type: {"error"}]

Calls(r, kinds) ==
    [k \in DOMAIN kinds |-> [req |-> r, round |-> round[r], pos |-> k, kind |-> kinds[k]]]

SetOf(cs) == {cs[k] : k \in DOMAIN cs}

Malformed(cs) == \E k \in DOMAIN cs : cs[k].kind = "malformed"

\* The first command for the terminal, which is proposed, or the first call
\* that throws on its arguments ends the batch: the calls before it run.
Stops(cs) == {k \in DOMAIN cs : cs[k].kind \in {"runCommand", "null"}}
FirstStop(cs) == {k \in Stops(cs) : \A s \in Stops(cs) : k <= s}
BeforeStop(cs) == {k \in DOMAIN cs : \A s \in Stops(cs) : k < s}

Executed(cs) == Kept(cs, {k \in BeforeStop(cs) : cs[k].kind = "tool"})
Terminal(cs) == {k \in FirstStop(cs) : cs[k].kind = "runCommand"}
Proposed(cs) == Kept(cs, Terminal(cs))
Throws(cs) == \E k \in FirstStop(cs) : cs[k].kind = "null"

Written(type, cs) == [k \in DOMAIN cs |-> [type |-> type, call |-> cs[k]]]
AnswerEvents(cs) == <<[type |-> "tool_call", calls |-> cs]>>
                       \o Written("step", Executed(cs))
                       \o Written("approval_required", Proposed(cs))

-----------------------------------------------------------------------------
Init ==
    /\ phase = [r \in Requests |-> "idle"] /\ round = [r \in Requests |-> 0]
    /\ asked = [r \in Requests |-> {}] /\ answered = [r \in Requests |-> {}]
    /\ stream = [r \in Requests |-> <<>>]
    /\ sessionStats = {}
    /\ ran = [r \in Requests |-> {}] /\ overlapped = [r \in Requests |-> FALSE]

Open == {r \in Requests : phase[r] = "asking"}

\* (A definition named like another with a suffix is a mutant: a plausible
\* slip that the run must detect.)
ResetForgotten == UNCHANGED sessionStats
Reset == sessionStats' = {}

\* A request arrives and its first question is sent.
Start(r) ==
    /\ phase[r] = "idle"
    /\ phase' = [phase EXCEPT ![r] = "asking"]
    /\ round' = [round EXCEPT ![r] = 1]
    /\ Reset
    /\ overlapped' = [q \in Requests |-> \/ overlapped[q]
                                         \/ q \in Open
                                         \/ q = r /\ Open # {}]
    /\ UNCHANGED <<dialogueVars, stream, ran>>

\* while (!isDone && loopCount < maxLoops)
WithinLimitOffByOne(r) == round[r] <= MaxRounds
WithinLimit(r) == round[r] < MaxRounds

\* The events of the answer, then the next question or 'done' and the end.
Continue(r, events, isDone) ==
    IF ~isDone /\ WithinLimit(r)
    THEN /\ round' = [round EXCEPT ![r] = @ + 1]
         /\ stream' = [stream EXCEPT ![r] = @ \o events]
         /\ UNCHANGED phase
    ELSE /\ phase' = [phase EXCEPT ![r] = "ended"]
         /\ stream' = [stream EXCEPT ![r] =
                          @ \o events \o <<[type |-> "done", stats |-> sessionStats']>>]
         /\ UNCHANGED round

\* The catch: 'error' after what was written, and the end (mutants: the summary
\* moved to a finally; the failure only logged).
FinalErrorAndDone == <<[type |-> "error"], [type |-> "done", stats |-> sessionStats]>>
FinalErrorForgotten == <<>>
FinalError == <<[type |-> "error"]>>
EndWithError(r, events) ==
    /\ phase' = [phase EXCEPT ![r] = "ended"]
    /\ stream' = [stream EXCEPT ![r] = @ \o events \o FinalError]
    /\ UNCHANGED round

\* The model, or the connection to it, throws.
Fails(r) ==
    /\ phase[r] = "asking"
    /\ EndWithError(r, <<>>)
    /\ UNCHANGED <<dialogueVars, sessionStats, ran, overlapped>>

\* No tool calls: the answer is final.  Calls without an id or a name are
\* filtered out, and then the loop goes on.
AnswerWithoutCalls(r) ==
    /\ phase[r] = "asking"
    /\ UNCHANGED <<dialogueVars, sessionStats, ran, overlapped>>
    /\ \E filtered \in BOOLEAN : Continue(r, <<>>, ~filtered)

\* isDone = true at a command (mutant: only the break is there).
HaltsForgotten(cs) == FALSE
Halts(cs) == Terminal(cs) # {}

RunCalls(r, cs) ==
    LET count == SetOf(Executed(cs)) \cup SetOf(Proposed(cs)) IN
    /\ asked' = [asked EXCEPT ![r] = @ \cup SetOf(cs)]
    /\ \/ /\ Malformed(cs)
          /\ EndWithError(r, <<>>)
          /\ UNCHANGED <<answered, sessionStats, ran>>
       \/ /\ ~Malformed(cs)
          /\ answered' = [answered EXCEPT ![r] = @ \cup SetOf(Executed(cs))]
          /\ sessionStats' = sessionStats \cup count
          /\ ran' = [ran EXCEPT ![r] = @ \cup count]
          /\ IF Throws(cs) THEN EndWithError(r, AnswerEvents(cs))
                           ELSE Continue(r, AnswerEvents(cs), Halts(cs))

AnswerWithCalls(r) ==
    /\ phase[r] = "asking"
    /\ \E n \in 1..MaxCalls : \E kinds \in [1..n -> Kinds] : RunCalls(r, Calls(r, kinds))
    /\ UNCHANGED overlapped

Next == \E r \in Requests :
           Start(r) \/ Fails(r) \/ AnswerWithoutCalls(r) \/ AnswerWithCalls(r)

Spec == Init /\ [][Next]_vars

-----------------------------------------------------------------------------
(* Properties.                                                             *)

TypeOK ==
    /\ phase \in [Requests -> {"idle", "asking", "ended"}]
    /\ round \in [Requests -> 0..MaxRounds]
    /\ asked \in [Requests -> SUBSET Call] /\ answered \in [Requests -> SUBSET Call]
    /\ stream \in [Requests -> Seq(Event)]
    /\ sessionStats \in SUBSET Call
    /\ ran \in [Requests -> SUBSET Call] /\ overlapped \in [Requests -> BOOLEAN]

\* The model is never asked again while a tool it called has not answered it,
\* nor after it has proposed a command: the early exit from a batch leaves
\* calls open only in a dialogue that is over (index.js:721-758).
CallsSettled ==
    \A r \in Open : \A c \in asked[r] :
        /\ c.kind = "tool" => c \in answered[r]
        /\ c.kind # "runCommand"

\* Nothing runs behind the user's back: after a command was proposed the
\* request runs no further tool and only 'done' follows (index.js:729-731).
ProposalIsLast ==
    \A r \in Requests : \A p \in DOMAIN stream[r] :
        stream[r][p].type = "approval_required" =>
            /\ p + 1 = Len(stream[r])
            /\ stream[r][p + 1].type = "done"

\* The client gets exactly one 'done' or 'error', at the end, whatever fails
\* (index.js:768-784): its loading state depends on it.
EndsOnce ==
    \A r \in Requests : \A p \in DOMAIN stream[r] :
        stream[r][p].type \in {"done", "error"} <=>
            phase[r] = "ended" /\ p = Len(stream[r])

\* A request that had the server to itself reports the tools it has run, all
\* of them and nothing else, although the figures are a global that every
\* request resets (index.js:618-623, 769-777).
StatsOwn ==
    \A r \in Requests : \A p \in DOMAIN stream[r] :
        stream[r][p].type = "done" /\ ~overlapped[r] => stream[r][p].stats = ran[r]
=============================================================================
