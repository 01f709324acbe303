--------------------------- MODULE AgentLoopProofs ---------------------------
(***************************************************************************)
(* Proofs about AgentLoop, for any sets of runs, arrays and ids and any    *)
(* bounds: type correctness first, then what each step does to it.         *)
(***************************************************************************)
EXTENDS AgentLoop, SequenceTheorems, TLAPS

Posted == {"done", "error", "reset"}

USE BoundsAssumption, NamesAssumption

-----------------------------------------------------------------------------
(* The entries a run pushes, and the two operators that push and save.     *)

LEMMA ResultEntriesType ==
    ASSUME TypeOK, NEW r \in Runs, NEW oks \in [1..calls[r] -> BOOLEAN]
    PROVE  ResultEntries(r, oks) \in Seq(Entry)
<1>1. calls[r] \in Nat /\ loop[r] \in Nat
    BY DEF TypeOK
<1>2. \A k \in 1..calls[r] :
        [role |-> "tool", run |-> r, turn |-> loop[r], call |-> k, ok |-> oks[k]]
            \in Entry
    BY <1>1 DEF Entry
<1>3. ResultEntries(r, oks) \in [1..calls[r] -> Entry]
    BY <1>2 DEF ResultEntries
<1> QED
    BY <1>1, <1>3

LEMMA AnswerType ==
    ASSUME TypeOK, NEW r \in Runs, NEW n \in 0..MaxCalls
    PROVE  /\ <<AnswerEntry(r, n)>> \in Seq(Entry)
           /\ <<AnswerEntry(r, 0), WarningEntry(r)>> \in Seq(Entry)
           /\ <<UserEntry(r)>> \in Seq(Entry)
<1>1. loop[r] \in Nat /\ n \in Nat
    BY DEF TypeOK
<1>2. AnswerEntry(r, n) \in Entry /\ AnswerEntry(r, 0) \in Entry
    BY <1>1 DEF AnswerEntry, Entry
<1>3. WarningEntry(r) \in Entry /\ UserEntry(r) \in Entry
    BY DEF WarningEntry, UserEntry, Entry
<1> QED
    BY <1>2, <1>3

LEMMA PushType ==
    ASSUME TypeOK, NEW c \in Chats, NEW e \in Seq(Entry), Push(c, e)
    PROVE  /\ transcript' \in [Chats -> Seq(Entry)]
           /\ \A d \in Chats : Len(transcript'[d]) >= Len(transcript[d])
           /\ e # <<>> => transcript'[c] # <<>>
<1>1. transcript[c] \o e \in Seq(Entry) /\ Len(transcript[c] \o e) = Len(transcript[c]) + Len(e)
    BY ConcatProperties DEF TypeOK
<1>2. transcript' = [transcript EXCEPT ![c] = transcript[c] \o e]
    BY DEF Push
<1>3. transcript[c] \in Seq(Entry)
    BY DEF TypeOK
<1>4. transcript' \in [Chats -> Seq(Entry)] /\ transcript'[c] = transcript[c] \o e
    BY <1>1, <1>2 DEF TypeOK
<1>5. e # <<>> => transcript[c] \o e # <<>>
    BY <1>3, ConcatEqualIffEmpty
<1>6. ASSUME NEW d \in Chats PROVE Len(transcript'[d]) >= Len(transcript[d])
  <2>1. Len(transcript[d]) \in Nat /\ Len(e) \in Nat
      BY LenProperties DEF TypeOK
  <2> QED
      BY <1>1, <1>2, <1>4, <2>1 DEF TypeOK
<1> QED
    BY <1>4, <1>5, <1>6

LEMMA SaveType ==
    ASSUME TypeOK, NEW posts \in Seq(Posted), SaveToHistory(posts),
           transcript' \in [Chats -> Seq(Entry)]
    PROVE  /\ toView' \in Seq(Posted)
           /\ toView # <<>> => toView' # <<>>
           /\ posts # <<>> => toView' # <<>>
           /\ active' \in Ids \cup {None}
           /\ saved' \in [Ids -> Snapshot \cup {None}]
<1>1. toView \in Seq(Posted) /\ <<"error">> \in Seq(Posted)
    BY DEF TypeOK, Posted
<1>2. /\ toView \o posts \in Seq(Posted)
      /\ toView # <<>> => toView \o posts # <<>>
      /\ posts # <<>> => toView \o posts # <<>>
    BY <1>1, ConcatProperties, ConcatEqualIffEmpty
<1>3. toView \o posts \o <<"error">> \in Seq(Posted)
      /\ toView \o posts \o <<"error">> # <<>>
    BY <1>1, <1>2, ConcatProperties, ConcatEqualIffEmpty
<1>4. CASE transcript'[current] = <<>>
    BY <1>3, <1>4 DEF SaveToHistory, storeVars, TypeOK
<1>5. CASE transcript'[current] # <<>>
  <2>1. toView' = toView \o posts /\ active' \in Ids
      BY <1>5 DEF SaveToHistory, TypeOK
  <2>2. Len(transcript'[current]) \in Nat
      BY LenProperties DEF TypeOK
  <2>3. [chat |-> current, len |-> Len(transcript'[current])] \in Snapshot
      BY <2>2 DEF Snapshot, TypeOK
  <2>4. saved' = [saved EXCEPT ![active'] =
                      [chat |-> current, len |-> Len(transcript'[current])]]
      BY <1>5 DEF SaveToHistory
  <2>5. saved' \in [Ids -> Snapshot \cup {None}]
      BY <2>1, <2>3, <2>4 DEF TypeOK
  <2> QED
      BY <1>2, <2>1, <2>5
<1> QED
    BY <1>4, <1>5

-----------------------------------------------------------------------------
(* The queue of the webview's messages.                                    *)

LEMMA MessageTypes ==
    ASSUME NEW m \in HostMessage
    PROVE  /\ m.type = "sendMessage" => m.run \in Runs
           /\ m.type = "newChat" => m.chat \in Chats
BY DEF HostMessage

LEMMA AppendToQueue ==
    ASSUME TypeOK, NEW m \in HostMessage, toHost' = Append(toHost, m)
    PROVE  /\ toHost' \in Seq(HostMessage)
           /\ Len(toHost) \in Nat
           /\ Len(toHost') = Len(toHost) + 1
           /\ \A p \in 1..Len(toHost) : toHost'[p] = toHost[p] /\ toHost[p] \in HostMessage
           /\ toHost'[Len(toHost) + 1] = m
<1>1. toHost \in Seq(HostMessage)
    BY DEF TypeOK
<1> QED
    BY <1>1

LEMMA PopQueue ==
    ASSUME TypeOK, toHost # <<>>, toHost' = Tail(toHost)
    PROVE  /\ toHost' \in Seq(HostMessage)
           /\ Len(toHost) \in Nat \ {0}
           /\ Len(toHost') = Len(toHost) - 1
           /\ Head(toHost) = toHost[1]
           /\ \A p \in 1..Len(toHost) : toHost[p] \in HostMessage
           /\ \A p \in 1..Len(toHost') : p + 1 \in 1..Len(toHost) /\ toHost'[p] = toHost[p + 1]
<1>1. toHost \in Seq(HostMessage)
    BY DEF TypeOK
<1>2. Len(toHost) \in Nat \ {0}
    BY <1>1, EmptySeq
<1>3. Head(toHost) = toHost[1]
    BY <1>1
<1> QED
    BY <1>1, <1>2, <1>3, HeadTailProperties, ElementOfSeq

\* A queued 'sendMessage' belongs to a run that waits for it, and to one only;
\* a queued 'newChat' names an array that nothing refers to yet.
QueuedSends ==
    /\ \A p \in 1..Len(toHost) :
          toHost[p].type = "sendMessage" => pc[toHost[p].run] = "sent"
    /\ \A p, q \in 1..Len(toHost) :
          /\ toHost[p].type = "sendMessage" /\ toHost[q].type = "sendMessage"
          /\ toHost[p].run = toHost[q].run
          => p = q

QueuedChats ==
    /\ \A p \in 1..Len(toHost) :
          toHost[p].type = "newChat" =>
             /\ toHost[p].chat \in allocated
             /\ toHost[p].chat # current
             /\ \A i \in Ids : saved[i] # None => saved[i].chat # toHost[p].chat
    /\ \A p, q \in 1..Len(toHost) :
          /\ toHost[p].type = "newChat" /\ toHost[q].type = "newChat"
          /\ toHost[p].chat = toHost[q].chat
          => p = q

\* A run that has not fetched yet has loopCount 0.
FreshRunsAtZero ==
    \A r \in Runs : pc[r] \in {"unsent", "sent", "context"} => loop[r] = 0

\* What the type of the state depends on from one step to the next.
Sane == TypeOK /\ FreshRunsAtZero /\ QueuedSends

\* A step that leaves the queue alone and moves one run already handled.
LEMMA QueueUntouched ==
    ASSUME Sane, UNCHANGED toHost, NEW r \in Runs, pc[r] # "sent",
           \A s \in Runs \ {r} : pc'[s] = pc[s]
    PROVE  QueuedSends'
<1>1. \A p \in 1..Len(toHost) : toHost[p].type = "sendMessage" => toHost[p].run # r
    BY DEF Sane, QueuedSends
<1>2. \A p \in 1..Len(toHost) : toHost[p].type = "sendMessage" => toHost[p].run \in Runs
    BY MessageTypes, ElementOfSeq DEF Sane, TypeOK
<1> QED
    BY <1>1, <1>2 DEF Sane, QueuedSends, TypeOK

-----------------------------------------------------------------------------
(* Type correctness.                                                       *)

LEMMA SaneInit == Init => Sane
<1> SUFFICES ASSUME Init PROVE Sane
    OBVIOUS
<1>1. /\ toHost \in Seq(HostMessage) /\ Len(toHost) = 0
      /\ toView \in Seq({"done", "error", "reset"})
    BY EmptySeq DEF Init
<1>2. transcript \in [Chats -> Seq(Entry)]
    BY EmptySeq DEF Init
<1>3. /\ busy \in BOOLEAN /\ allocated \subseteq Chats
      /\ controller \in Runs \cup {None} /\ aborted \subseteq Runs
      /\ current \in Chats /\ active \in Ids \cup {None}
      /\ saved \in [Ids -> Snapshot \cup {None}]
    BY DEF Init
<1>4. /\ pc \in [Runs -> Phase] /\ chatOf \in [Runs -> Chats]
      /\ loop \in [Runs -> 0..MaxLoops] /\ signal \in [Runs -> Runs \cup {None}]
      /\ calls \in [Runs -> 0..MaxCalls]
    BY DEF Init, Phase
<1>5. FreshRunsAtZero
    BY DEF Init, FreshRunsAtZero
<1>6. QueuedSends
    BY <1>1 DEF QueuedSends
<1> QED
    BY <1>1, <1>2, <1>3, <1>4, <1>5, <1>6 DEF Sane, TypeOK

LEMMA SaneClickSend ==
    ASSUME Sane, NEW r \in Runs, ClickSend(r)
    PROVE  Sane'
<1> DEFINE m == [type |-> "sendMessage", run |-> r]
<1>1. m \in HostMessage /\ m.type = "sendMessage" /\ m.run = r
    BY DEF HostMessage
<1>2. toHost' = Append(toHost, m) /\ pc' = [pc EXCEPT ![r] = "sent"] /\ pc[r] = "unsent"
    BY DEF ClickSend
<1> HIDE DEF m
<1>3. /\ toHost' \in Seq(HostMessage)
      /\ Len(toHost) \in Nat
      /\ Len(toHost') = Len(toHost) + 1
      /\ \A p \in 1..Len(toHost) : toHost'[p] = toHost[p] /\ toHost[p] \in HostMessage
      /\ toHost'[Len(toHost) + 1] = m
    BY <1>1, <1>2, AppendToQueue DEF Sane
<1>4. \A p \in 1..Len(toHost) :
        toHost[p].type = "sendMessage" => toHost[p].run # r /\ toHost[p].run \in Runs
    BY <1>2, <1>3, MessageTypes DEF Sane, QueuedSends
<1>5. pc'[r] = "sent" /\ \A s \in Runs \ {r} : pc'[s] = pc[s]
    BY <1>2 DEF Sane, TypeOK
<1>6. \A p \in 1..Len(toHost') : p \in 1..Len(toHost) \/ p = Len(toHost) + 1
    BY <1>3
<1>7. QueuedSends'
  <2>1. \A p \in 1..Len(toHost') :
          toHost'[p].type = "sendMessage" => pc'[toHost'[p].run] = "sent"
      BY <1>1, <1>3, <1>4, <1>5, <1>6 DEF Sane, QueuedSends
  <2>2. \A p, q \in 1..Len(toHost') :
          /\ toHost'[p].type = "sendMessage" /\ toHost'[q].type = "sendMessage"
          /\ toHost'[p].run = toHost'[q].run
          => p = q
      BY <1>1, <1>3, <1>4, <1>6 DEF Sane, QueuedSends
  <2> QED
      BY <2>1, <2>2 DEF QueuedSends
<1>8. TypeOK'
    BY <1>2, <1>3 DEF Sane, ClickSend, TypeOK, Phase, abortVars, storeVars
<1>9. FreshRunsAtZero'
    BY <1>2, <1>5 DEF Sane, ClickSend, FreshRunsAtZero
<1> QED
    BY <1>7, <1>8, <1>9 DEF Sane

\* The other two messages of the webview leave the runs alone.
LEMMA SaneOtherClick ==
    ASSUME Sane, NEW m \in HostMessage, m.type # "sendMessage",
           toHost' = Append(toHost, m), allocated' \subseteq Chats,
           UNCHANGED <<busy, toView, abortVars, transcript, current, storeVars, runVars>>
    PROVE  Sane'
<1>1. /\ toHost' \in Seq(HostMessage)
      /\ Len(toHost) \in Nat
      /\ Len(toHost') = Len(toHost) + 1
      /\ \A p \in 1..Len(toHost) : toHost'[p] = toHost[p] /\ toHost[p] \in HostMessage
      /\ toHost'[Len(toHost) + 1] = m
    BY AppendToQueue DEF Sane
<1>2. \A p \in 1..Len(toHost') : p \in 1..Len(toHost) \/ p = Len(toHost) + 1
    BY <1>1
<1>3. QueuedSends'
    BY <1>1, <1>2 DEF Sane, QueuedSends, runVars
<1>4. TypeOK' /\ FreshRunsAtZero'
    BY <1>1 DEF Sane, TypeOK, FreshRunsAtZero, abortVars, storeVars, runVars
<1> QED
    BY <1>3, <1>4 DEF Sane

LEMMA SaneView ==
    ASSUME Sane, ViewReceive
    PROVE  Sane'
<1>1. toView' \in Seq({"done", "error", "reset"})
    BY HeadTailProperties DEF ViewReceive, Sane, TypeOK
<1>2. TypeOK'
    BY <1>1 DEF Sane, ViewReceive, TypeOK, abortVars, storeVars, runVars
<1>3. FreshRunsAtZero' /\ QueuedSends'
    BY DEF Sane, ViewReceive, FreshRunsAtZero, QueuedSends, runVars
<1> QED
    BY <1>2, <1>3 DEF Sane

LEMMA SaneHandleSend ==
    ASSUME Sane, HandleSend
    PROVE  Sane'
<1> DEFINE r == Head(toHost).run
<1>1. /\ toHost # <<>> /\ toHost' = Tail(toHost)
      /\ Head(toHost).type = "sendMessage"
    BY DEF HandleSend
<1>2. /\ toHost' \in Seq(HostMessage)
      /\ Len(toHost) \in Nat \ {0}
      /\ Len(toHost') = Len(toHost) - 1
      /\ Head(toHost) = toHost[1]
      /\ \A p \in 1..Len(toHost) : toHost[p] \in HostMessage
      /\ \A p \in 1..Len(toHost') : p + 1 \in 1..Len(toHost) /\ toHost'[p] = toHost[p + 1]
    BY <1>1, PopQueue DEF Sane
<1>3. r \in Runs /\ pc[r] = "sent"
    BY <1>1, <1>2, MessageTypes DEF Sane, QueuedSends
<1>4. /\ Push(current, <<UserEntry(r)>>)
      /\ chatOf' = [chatOf EXCEPT ![r] = current]
      /\ pc' = [pc EXCEPT ![r] = "context"]
      /\ aborted' = aborted \cup ({controller} \ {None}) /\ controller' = r
    BY DEF HandleSend, AbortPrevious
<1>5. UNCHANGED <<busy, allocated, toView, current, storeVars, loop, signal, calls>>
    BY DEF HandleSend
<1>6. \A p \in 1..Len(toHost') : toHost'[p].type = "sendMessage" => toHost'[p].run # r
    BY <1>1, <1>2 DEF Sane, QueuedSends
<1> HIDE DEF r
<1>7. transcript' \in [Chats -> Seq(Entry)]
    BY <1>3, <1>4, PushType, AnswerType DEF Sane, TypeOK
<1>8. \A p \in 1..Len(toHost') : toHost'[p].type = "sendMessage" => toHost'[p].run \in Runs
    BY <1>2, MessageTypes
<1>9. TypeOK'
    BY <1>2, <1>3, <1>4, <1>5, <1>7 DEF Sane, TypeOK, Phase, storeVars
<1>10. FreshRunsAtZero'
    BY <1>3, <1>4, <1>5 DEF Sane, TypeOK, FreshRunsAtZero
<1>11. QueuedSends'
  <2>1. \A s \in Runs \ {r} : pc'[s] = pc[s]
      BY <1>4 DEF Sane, TypeOK
  <2>2. \A p \in 1..Len(toHost') :
          toHost'[p].type = "sendMessage" => pc'[toHost'[p].run] = "sent"
      BY <1>2, <1>6, <1>8, <2>1 DEF Sane, QueuedSends
  <2>3. \A p, q \in 1..Len(toHost') :
          /\ toHost'[p].type = "sendMessage" /\ toHost'[q].type = "sendMessage"
          /\ toHost'[p].run = toHost'[q].run
          => p = q
    <3> SUFFICES ASSUME NEW p \in 1..Len(toHost'), NEW q \in 1..Len(toHost'),
                        toHost'[p].type = "sendMessage", toHost'[q].type = "sendMessage",
                        toHost'[p].run = toHost'[q].run
                 PROVE  p = q
        OBVIOUS
    <3>1. p + 1 = q + 1
        BY <1>2 DEF Sane, QueuedSends
    <3> QED
        BY <3>1, <1>2
  <2> QED
      BY <2>2, <2>3 DEF QueuedSends
<1> QED
    BY <1>9, <1>10, <1>11 DEF Sane

\* newChat and stopGeneration pop a message and leave the runs alone.
LEMMA SaneOtherHandler ==
    ASSUME Sane, toHost # <<>>, toHost' = Tail(toHost),
           toView' \in Seq({"done", "error", "reset"}),
           controller' \in Runs \cup {None}, aborted' \subseteq Runs,
           current' \in Chats, active' \in Ids \cup {None},
           UNCHANGED <<busy, allocated, transcript, saved, runVars>>
    PROVE  Sane'
<1>1. /\ toHost' \in Seq(HostMessage)
      /\ Len(toHost) \in Nat \ {0}
      /\ Len(toHost') = Len(toHost) - 1
      /\ \A p \in 1..Len(toHost') : p + 1 \in 1..Len(toHost) /\ toHost'[p] = toHost[p + 1]
    BY PopQueue DEF Sane
<1>2. TypeOK' /\ FreshRunsAtZero'
    BY <1>1 DEF Sane, TypeOK, FreshRunsAtZero, runVars
<1>3. pc' = pc
    BY DEF runVars
<1>4. \A p \in 1..Len(toHost') :
        toHost'[p].type = "sendMessage" => pc'[toHost'[p].run] = "sent"
    BY <1>1, <1>3 DEF Sane, QueuedSends
<1>5. ASSUME NEW p \in 1..Len(toHost'), NEW q \in 1..Len(toHost'),
             toHost'[p].type = "sendMessage", toHost'[q].type = "sendMessage",
             toHost'[p].run = toHost'[q].run
      PROVE  p = q
  <2>1. p + 1 = q + 1
      BY <1>1, <1>5 DEF Sane, QueuedSends
  <2> QED
      BY <2>1, <1>1
<1> QED
    BY <1>2, <1>4, <1>5 DEF Sane, QueuedSends

LEMMA SaneHandle ==
    ASSUME Sane, Handle
    PROVE  Sane'
<1>1. \A x \in {"done", "error", "reset"} : Append(toView, x) \in Seq({"done", "error", "reset"})
    BY DEF Sane, TypeOK
<1>2. CASE HandleSend
    BY <1>2, SaneHandleSend
<1>3. CASE HandleNewChat
  <2>1. Head(toHost).chat \in Chats
      BY <1>3, HeadTailProperties, MessageTypes DEF HandleNewChat, Sane, TypeOK
  <2>2. /\ toView' \in Seq({"done", "error", "reset"})
        /\ controller' \in Runs \cup {None} /\ aborted' \subseteq Runs
        /\ current' \in Chats /\ active' \in Ids \cup {None}
      BY <1>1, <1>3, <2>1 DEF HandleNewChat, ForgetConversation, abortVars, Sane, TypeOK
  <2> QED
      BY <1>3, <2>2, SaneOtherHandler DEF HandleNewChat
<1>4. CASE HandleStop
  <2>1. /\ toView' \in Seq({"done", "error", "reset"})
        /\ controller' \in Runs \cup {None} /\ aborted' \subseteq Runs
      BY <1>1, <1>4 DEF HandleStop, PostDone, abortVars, Sane, TypeOK
  <2>2. current' \in Chats /\ active' \in Ids \cup {None}
      BY <1>4 DEF HandleStop, storeVars, Sane, TypeOK
  <2> QED
      BY <1>4, <2>1, <2>2, SaneOtherHandler DEF HandleStop, storeVars
<1> QED
    BY <1>2, <1>3, <1>4 DEF Handle

\* A step of a run that has been handled.
LEMMA SaneRunStep ==
    ASSUME Sane, NEW r \in Runs, pc[r] \notin {"unsent", "sent"},
           pc' \in [Runs -> Phase], pc'[r] \notin {"unsent", "sent", "context"},
           \A s \in Runs \ {r} : pc'[s] = pc[s],
           loop' \in [Runs -> 0..MaxLoops],
           \A s \in Runs \ {r} : loop'[s] = loop[s],
           signal' \in [Runs -> Runs \cup {None}],
           calls' \in [Runs -> 0..MaxCalls],
           transcript' \in [Chats -> Seq(Entry)],
           toView' \in Seq(Posted),
           active' \in Ids \cup {None},
           saved' \in [Ids -> Snapshot \cup {None}],
           UNCHANGED <<viewVars, abortVars, current, chatOf>>
    PROVE  Sane'
<1>1. QueuedSends'
    BY QueueUntouched DEF viewVars
<1>2. TypeOK'
    BY DEF Sane, TypeOK, viewVars, abortVars, Posted
<1>3. FreshRunsAtZero'
    BY DEF Sane, TypeOK, FreshRunsAtZero
<1> QED
    BY <1>1, <1>2, <1>3 DEF Sane

LEMMA FetchType ==
    ASSUME Sane, NEW r \in Runs, Fetch(r), loop[r] < MaxLoops
    PROVE  /\ loop' \in [Runs -> 0..MaxLoops]
           /\ \A s \in Runs \ {r} : loop'[s] = loop[s]
           /\ signal' \in [Runs -> Runs \cup {None}]
           /\ pc' \in [Runs -> Phase] /\ pc'[r] = "reply"
           /\ \A s \in Runs \ {r} : pc'[s] = pc[s]
<1>1. loop[r] + 1 \in 0..MaxLoops
    BY DEF Sane, TypeOK
<1>2. loop' = [loop EXCEPT ![r] = loop[r] + 1] /\ loop \in [Runs -> 0..MaxLoops]
    BY DEF Fetch, Sane, TypeOK
<1>3. loop' \in [Runs -> 0..MaxLoops] /\ \A s \in Runs \ {r} : loop'[s] = loop[s]
    BY <1>1, <1>2
<1>4. signal' \in [Runs -> Runs \cup {None}]
    BY DEF Fetch, Sane, TypeOK
<1>5. /\ pc' \in [Runs -> Phase] /\ pc'[r] = "reply"
      /\ \A s \in Runs \ {r} : pc'[s] = pc[s]
    BY DEF Fetch, Sane, TypeOK, Phase
<1> QED
    BY <1>3, <1>4, <1>5

LEMMA FinishType ==
    ASSUME Sane, NEW r \in Runs, NEW how \in Ended, Finish(r, how)
    PROVE  /\ loop' \in [Runs -> 0..MaxLoops]
           /\ \A s \in Runs \ {r} : loop'[s] = loop[s]
           /\ signal' \in [Runs -> Runs \cup {None}]
           /\ pc' \in [Runs -> Phase] /\ pc'[r] \notin {"unsent", "sent", "context"}
           /\ \A s \in Runs \ {r} : pc'[s] = pc[s]
<1>1. pc' = [pc EXCEPT ![r] = how] /\ UNCHANGED <<loop, signal>>
    BY DEF Finish
<1>2. loop \in [Runs -> 0..MaxLoops] /\ signal \in [Runs -> Runs \cup {None}]
    BY DEF Sane, TypeOK
<1>3. how \in Phase /\ how \notin {"unsent", "sent", "context"}
    BY DEF Phase, Ended
<1>4. /\ pc' \in [Runs -> Phase] /\ pc'[r] = how
      /\ \A s \in Runs \ {r} : pc'[s] = pc[s]
    BY <1>1, <1>3 DEF Sane, TypeOK
<1> QED
    BY <1>1, <1>2, <1>3, <1>4

\* What the parts of the state that a run does not always touch keep.
LEMMA Kept ==
    ASSUME Sane
    PROVE  /\ UNCHANGED transcript => transcript' \in [Chats -> Seq(Entry)]
           /\ UNCHANGED toView => toView' \in Seq(Posted)
           /\ UNCHANGED storeVars => /\ active' \in Ids \cup {None}
                                     /\ saved' \in [Ids -> Snapshot \cup {None}]
           /\ UNCHANGED calls => calls' \in [Runs -> 0..MaxCalls]
           /\ \A x \in Posted : Append(toView, x) \in Seq(Posted)
BY DEF Sane, TypeOK, Posted, storeVars

LEMMA SaneAdvance ==
    ASSUME Sane, NEW r \in Runs, Advance(r)
    PROVE  Sane'
<1>1. chatOf[r] \in Chats /\ current \in Chats /\ loop[r] \in 0..MaxLoops
      /\ <<"done">> \in Seq(Posted) /\ <<>> \in Seq(Posted)
      /\ TypeOK
    BY DEF Sane, TypeOK, Posted
<1>9. /\ <<AnswerEntry(r, 0)>> \in Seq(Entry)
      /\ <<AnswerEntry(r, 0), WarningEntry(r)>> \in Seq(Entry)
  <2>1. 0 \in 0..MaxCalls
      OBVIOUS
  <2> QED
      BY <1>1, <2>1, AnswerType
<1>2. CASE ContextReady(r)
  <2>1. Fetch(r) /\ loop[r] < MaxLoops /\ pc[r] = "context"
      BY <1>2 DEF ContextReady, Sane, FreshRunsAtZero
  <2> QED
      BY <1>2, <2>1, FetchType, Kept, SaneRunStep DEF ContextReady
<1>3. CASE Fails(r)
  <2>1. Finish(r, "failed") /\ "failed" \in Ended /\ pc[r] \in {"context", "reply"}
      BY <1>3 DEF Fails, Ended
  <2>2. toView' \in Seq(Posted)
      BY <1>3, Kept DEF Fails, ReportError, Posted
  <2> QED
      BY <1>3, <2>1, <2>2, FinishType, Kept, SaneRunStep DEF Fails
<1>4. CASE Aborts(r)
  <2>1. Finish(r, "aborted") /\ "aborted" \in Ended /\ pc[r] = "reply"
      BY <1>4 DEF Aborts, Ended
  <2>2. transcript' \in [Chats -> Seq(Entry)]
      BY <1>4, Kept DEF Aborts
  <2>3. /\ toView' \in Seq(Posted) /\ active' \in Ids \cup {None}
        /\ saved' \in [Ids -> Snapshot \cup {None}]
      BY <1>1, <1>4, <2>2, SaveType DEF Aborts, Sane
  <2> QED
      BY <1>4, <2>1, <2>2, <2>3, FinishType, Kept, SaneRunStep DEF Aborts
<1>5. CASE AnswerWithCalls(r)
  <2>1. PICK n \in 1..MaxCalls :
          /\ Answered(r, n)
          /\ Push(chatOf[r], <<AnswerEntry(r, n)>>)
          /\ pc' = [pc EXCEPT ![r] = "tools"]
          /\ UNCHANGED <<viewVars, toView, abortVars, current, storeVars,
                         chatOf, loop, signal>>
      BY <1>5 DEF AnswerWithCalls
  <2>2. transcript' \in [Chats -> Seq(Entry)]
    <3>1. <<AnswerEntry(r, n)>> \in Seq(Entry)
        BY <1>1, AnswerType
    <3> QED
        BY <1>1, <2>1, <3>1, PushType, Zenon
  <2>3. pc[r] = "reply" /\ calls' \in [Runs -> 0..MaxCalls]
      BY <2>1 DEF Answered, Sane, TypeOK
  <2>4. /\ pc' \in [Runs -> Phase] /\ pc'[r] = "tools"
        /\ \A s \in Runs \ {r} : pc'[s] = pc[s]
      BY <2>1 DEF Phase, Sane, TypeOK
  <2>5. /\ loop' \in [Runs -> 0..MaxLoops] /\ \A s \in Runs \ {r} : loop'[s] = loop[s]
        /\ signal' \in [Runs -> Runs \cup {None}]
      BY <2>1 DEF Sane, TypeOK
  <2> QED
      BY <2>1, <2>2, <2>3, <2>4, <2>5, Kept, SaneRunStep
<1>6. CASE AnswerRetried(r)
  <2>1. Fetch(r) /\ loop[r] < MaxLoops /\ pc[r] = "reply"
      BY <1>1, <1>6 DEF AnswerRetried, Answered
  <2>2. transcript' \in [Chats -> Seq(Entry)]
      BY <1>9, <1>1, <1>6, PushType DEF AnswerRetried
  <2>3. calls' \in [Runs -> 0..MaxCalls]
      BY <1>6 DEF AnswerRetried, Answered, Sane, TypeOK
  <2> QED
      BY <1>6, <2>1, <2>2, <2>3, FetchType, Kept, SaneRunStep DEF AnswerRetried
<1>7. CASE AnswerFinal(r)
  <2>1. Finish(r, "finished") /\ "finished" \in Ended /\ pc[r] = "reply"
      BY <1>7 DEF AnswerFinal, Answered, Ended
  <2>2. transcript' \in [Chats -> Seq(Entry)]
      BY <1>9, <1>1, <1>7, PushType DEF AnswerFinal
  <2>3. calls' \in [Runs -> 0..MaxCalls]
      BY <1>7 DEF AnswerFinal, Answered, Sane, TypeOK
  <2>4. /\ toView' \in Seq(Posted) /\ active' \in Ids \cup {None}
        /\ saved' \in [Ids -> Snapshot \cup {None}]
    <3>1. SaveToHistory(<<"done">>)
        BY <1>7 DEF AnswerFinal
    <3> QED
        BY <1>1, <2>2, <3>1, SaveType, Zenon
  <2> QED
      BY <1>7, <2>1, <2>2, <2>3, <2>4, FinishType, SaneRunStep DEF AnswerFinal
<1>8. CASE ToolsFinish(r)
  <2>1. transcript' \in [Chats -> Seq(Entry)]
    <3>1. PICK oks \in [1..calls[r] -> BOOLEAN] : Push(chatOf[r], ResultEntries(r, oks))
        BY <1>8 DEF ToolsFinish
    <3>2. ResultEntries(r, oks) \in Seq(Entry)
        BY <1>1, ResultEntriesType
    <3> QED
        BY <1>1, <3>1, <3>2, PushType, Zenon
  <2>2. pc[r] = "tools" /\ UNCHANGED <<viewVars, abortVars, current, chatOf, calls>>
      BY <1>8 DEF ToolsFinish
  <2>3. CASE MoreRounds(r) /\ Fetch(r) /\ PostDone /\ UNCHANGED storeVars
    <3>1. loop[r] < MaxLoops /\ toView' \in Seq(Posted)
        BY <2>3, Kept DEF MoreRounds, PostDone, Posted
    <3> QED
        BY <2>1, <2>2, <2>3, <3>1, FetchType, Kept, SaneRunStep
  <2>4. CASE Finish(r, "finished") /\ SaveToHistory(<<"done">>)
    <3>1. "finished" \in Ended
        BY DEF Ended
    <3>2. /\ toView' \in Seq(Posted) /\ active' \in Ids \cup {None}
          /\ saved' \in [Ids -> Snapshot \cup {None}]
        BY <1>1, <2>1, <2>4, SaveType, Zenon
    <3> QED
        BY <2>1, <2>2, <2>4, <3>1, <3>2, FinishType, Kept, SaneRunStep
  <2> QED
      BY <1>8, <2>3, <2>4 DEF ToolsFinish
<1> QED
    BY <1>2, <1>3, <1>4, <1>5, <1>6, <1>7, <1>8 DEF Advance, Proceed

LEMMA SaneStep ==
    ASSUME Sane, [Next]_vars
    PROVE  Sane'
<1>1. ASSUME NEW r \in Runs, ClickSend(r) \/ Advance(r) PROVE Sane'
    BY <1>1, SaneClickSend, SaneAdvance
<1>2. ASSUME NEW c \in Chats, ClickNewChat(c) PROVE Sane'
  <2>1. [type |-> "newChat", chat |-> c] \in HostMessage
      BY DEF HostMessage
  <2> QED
      BY <1>2, <2>1, SaneOtherClick DEF ClickNewChat, Sane, TypeOK
<1>3. CASE ClickStop
  <2>1. [type |-> "stopGeneration"] \in HostMessage
      BY DEF HostMessage
  <2>2. allocated' \subseteq Chats
      BY <1>3 DEF ClickStop, Sane, TypeOK
  <2> QED
      BY <1>3, <2>1, <2>2, SaneOtherClick DEF ClickStop
<1>4. CASE ViewReceive
    BY <1>4, SaneView
<1>5. CASE Handle
    BY <1>5, SaneHandle
<1>6. CASE UNCHANGED vars
    BY <1>6 DEF Sane, TypeOK, FreshRunsAtZero, QueuedSends, vars, viewVars,
                abortVars, storeVars, runVars
<1> QED
    BY <1>1, <1>2, <1>3, <1>4, <1>5, <1>6 DEF Next

\* Every variable keeps its type, whatever the instance: in particular no run
\* ever exceeds MaxLoops rounds (the while condition, extension.ts:460, and the
\* retry limit, 613, together).
THEOREM TypeCorrect == Spec => []TypeOK
<1>1. Init => Sane
    BY SaneInit
<1>2. Sane /\ [Next]_vars => Sane'
    BY SaneStep
<1>3. Sane => TypeOK
    BY DEF Sane
<1> QED
    BY <1>1, <1>2, <1>3, PTL DEF Spec

-----------------------------------------------------------------------------
(* Controllers.                                                            *)

\* Only handled runs have had their controller created, and the provider
\* never holds on to a controller it has aborted.
Control ==
    /\ \A r \in Runs : r \in aborted \/ r = controller => pc[r] \notin {"unsent", "sent"}
    /\ controller \notin aborted

\* The run of the message at the head of the queue has not been handled yet.
LEMMA SentRun ==
    ASSUME Sane, HandleSend
    PROVE  Head(toHost).run \in Runs /\ pc[Head(toHost).run] = "sent"
<1>1. toHost # <<>> /\ toHost' = Tail(toHost) /\ Head(toHost).type = "sendMessage"
    BY DEF HandleSend
<1>2. Len(toHost) \in Nat \ {0} /\ Head(toHost) = toHost[1] /\ toHost[1] \in HostMessage
    BY <1>1, PopQueue DEF Sane
<1> QED
    BY <1>1, <1>2, MessageTypes DEF Sane, QueuedSends

\* What every step of a handled run has in common.
LEMMA AdvanceFrame ==
    ASSUME Sane, NEW r \in Runs, Advance(r)
    PROVE  /\ pc[r] \in {"context", "reply", "tools"}
           /\ pc'[r] \in Phase \ {"unsent", "sent", "context"}
           /\ \A s \in Runs \ {r} : pc'[s] = pc[s] /\ signal'[s] = signal[s]
           /\ signal'[r] = signal[r] \/ signal'[r] = controller
           /\ UNCHANGED <<viewVars, abortVars, current, chatOf>>
<1>1. CASE ContextReady(r)
    BY <1>1 DEF ContextReady, Fetch, Sane, TypeOK, Phase
<1>2. CASE Fails(r)
    BY <1>2 DEF Fails, Finish, Sane, TypeOK, Phase, Ended
<1>3. CASE Aborts(r)
    BY <1>3 DEF Aborts, Finish, Sane, TypeOK, Phase, Ended
<1>4. CASE AnswerWithCalls(r)
    BY <1>4 DEF AnswerWithCalls, Answered, Sane, TypeOK, Phase
<1>5. CASE AnswerRetried(r)
    BY <1>5 DEF AnswerRetried, Answered, Fetch, Sane, TypeOK, Phase
<1>6. CASE AnswerFinal(r)
    BY <1>6 DEF AnswerFinal, Answered, Finish, Sane, TypeOK, Phase, Ended
<1>7. CASE ToolsFinish(r)
    BY <1>7 DEF ToolsFinish, Fetch, Finish, Sane, TypeOK, Phase, Ended
<1> QED
    BY <1>1, <1>2, <1>3, <1>4, <1>5, <1>6, <1>7 DEF Advance, Proceed

LEMMA ControlInit == Init => Control
BY DEF Init, Control

LEMMA ControlStep ==
    ASSUME Sane, Control, [Next]_vars
    PROVE  Control'
<1>1. ASSUME NEW r \in Runs, ClickSend(r) PROVE Control'
    BY <1>1 DEF ClickSend, Control, abortVars, Sane, TypeOK
<1>2. ASSUME NEW r \in Runs, Advance(r) PROVE Control'
  <2>1. /\ pc[r] \notin {"unsent", "sent"} /\ pc'[r] \notin {"unsent", "sent"}
        /\ \A s \in Runs \ {r} : pc'[s] = pc[s]
        /\ UNCHANGED abortVars
      BY <1>2, AdvanceFrame
  <2> QED
      BY <2>1 DEF Control, abortVars
<1>3. ASSUME NEW c \in Chats, ClickNewChat(c) PROVE Control'
    BY <1>3 DEF ClickNewChat, Control, abortVars, runVars
<1>4. CASE ClickStop \/ ViewReceive \/ HandleNewChat \/ UNCHANGED vars
    BY <1>4 DEF ClickStop, ViewReceive, HandleNewChat, vars, Control, abortVars, runVars
<1>5. CASE HandleSend
  <2> DEFINE r == Head(toHost).run
  <2>1. r \in Runs /\ pc[r] = "sent"
      BY <1>5, SentRun
  <2>2. /\ pc' = [pc EXCEPT ![r] = "context"] /\ controller' = r
        /\ aborted' = aborted \cup ({controller} \ {None})
      BY <1>5 DEF HandleSend, AbortPrevious
  <2> HIDE DEF r
  <2>3. pc'[r] = "context" /\ \A s \in Runs \ {r} : pc'[s] = pc[s]
      BY <2>1, <2>2 DEF Sane, TypeOK
  <2>4. r \notin aborted /\ r # controller
      BY <2>1 DEF Control
  <2> QED
      BY <2>1, <2>2, <2>3, <2>4 DEF Control, Sane, TypeOK
<1>6. CASE HandleStop
  <2>1. CASE controller # None
      BY <1>6, <2>1 DEF HandleStop, Control, runVars, Sane, TypeOK
  <2>2. CASE controller = None
      BY <1>6, <2>2 DEF HandleStop, Control, abortVars, runVars
  <2> QED
      BY <2>1, <2>2
<1> QED
    BY <1>1, <1>2, <1>3, <1>4, <1>5, <1>6 DEF Next, Handle

-----------------------------------------------------------------------------
(* The busy flag.                                                          *)

LEMMA Nonempty ==
    ASSUME Sane
    PROVE  /\ \A x \in Posted : Append(toView, x) # <<>>
           /\ toView \in Seq(Posted)
BY DEF Sane, TypeOK, Posted

\* What a step of one run does to the messages posted to the webview.
LEMMA AdvancePosts ==
    ASSUME Sane, Control, NEW r \in Runs, Advance(r)
    PROVE  /\ toView # <<>> => toView' # <<>>
           /\ Posts(r) => toView' # <<>> \/ Posts(r)'
<1>1. controller \notin aborted /\ aborted' = aborted
      /\ current \in Chats /\ <<"done">> \in Seq(Posted) /\ <<>> \in Seq(Posted)
      /\ chatOf[r] \in Chats /\ TypeOK /\ <<"done">> # <<>>
    BY AdvanceFrame DEF Control, abortVars, Sane, TypeOK, Posted
<1>2. CASE ContextReady(r)
    BY <1>1, <1>2 DEF ContextReady, Fetch, Posts, Sane, TypeOK
<1>3. CASE Fails(r)
    BY <1>3, Nonempty DEF Fails, ReportError, Posted
<1>4. CASE Aborts(r)
  <2>1. ~Posts(r) /\ SaveToHistory(<<>>) /\ transcript' \in [Chats -> Seq(Entry)]
      BY <1>4 DEF Aborts, Posts, Sane, TypeOK
  <2> QED
      BY <1>1, <2>1, SaveType, Zenon
<1>5. CASE AnswerWithCalls(r)
    BY <1>5 DEF AnswerWithCalls, Posts, Sane, TypeOK
<1>6. CASE AnswerRetried(r)
    BY <1>1, <1>6 DEF AnswerRetried, Fetch, Posts, Sane, TypeOK
<1>7. ASSUME SaveToHistory(<<"done">>) PROVE toView' # <<>>
  <2>1. transcript' \in [Chats -> Seq(Entry)]
      BY SaneAdvance DEF Sane, TypeOK
  <2> QED
      BY <1>1, <1>7, <2>1, SaveType, Zenon
<1>8. CASE AnswerFinal(r)
    BY <1>7, <1>8 DEF AnswerFinal
<1>9. CASE ToolsFinish(r)
    BY <1>7, <1>9, Nonempty DEF ToolsFinish, PostDone, Posted
<1> QED
    BY <1>2, <1>3, <1>4, <1>5, <1>6, <1>8, <1>9 DEF Advance, Proceed

LEMMA BusyStep ==
    ASSUME Sane, Control, BusyImpliesPending, [Next]_vars
    PROVE  BusyImpliesPending'
<1>1. ASSUME NEW r \in Runs, ClickSend(r) PROVE BusyImpliesPending'
    BY <1>1 DEF ClickSend, BusyImpliesPending, Posts, Sane, TypeOK
<1>2. ASSUME NEW r \in Runs, Advance(r) PROVE BusyImpliesPending'
  <2> SUFFICES ASSUME busy', toView' = <<>>
               PROVE  \E s \in Runs : Posts(s)'
      BY DEF BusyImpliesPending
  <2>1. /\ \A s \in Runs \ {r} : pc'[s] = pc[s] /\ signal'[s] = signal[s]
        /\ busy' = busy /\ aborted' = aborted
      BY <1>2, AdvanceFrame DEF viewVars, abortVars
  <2>2. PICK s \in Runs : Posts(s)
      BY <1>2, <2>1, AdvancePosts DEF BusyImpliesPending
  <2>3. CASE s = r
      BY <1>2, <2>2, <2>3, AdvancePosts
  <2>4. CASE s # r
      BY <2>1, <2>2, <2>4 DEF Posts
  <2> QED
      BY <2>3, <2>4
<1>3. ASSUME NEW c \in Chats, ClickNewChat(c) PROVE BusyImpliesPending'
    BY <1>3 DEF ClickNewChat, BusyImpliesPending, Posts, abortVars, runVars
<1>4. CASE ClickStop \/ UNCHANGED vars
    BY <1>4 DEF ClickStop, vars, viewVars, BusyImpliesPending, Posts, abortVars, runVars
<1>5. CASE ViewReceive
    BY <1>5 DEF ViewReceive, BusyImpliesPending
<1>6. CASE HandleSend
  <2>1. Head(toHost).run \in Runs
      BY <1>6, SentRun
  <2>2. pc'[Head(toHost).run] = "context"
      BY <1>6, <2>1 DEF HandleSend, Sane, TypeOK
  <2> QED
      BY <2>1, <2>2 DEF BusyImpliesPending, Posts
<1>7. CASE HandleNewChat
    BY <1>7, Nonempty DEF HandleNewChat, BusyImpliesPending, Posted
<1>8. CASE HandleStop
  <2>1. CASE controller # None
      BY <1>8, <2>1, Nonempty DEF HandleStop, PostDone, BusyImpliesPending, Posted
  <2>2. CASE controller = None
      BY <1>8, <2>2 DEF HandleStop, BusyImpliesPending, Posts, abortVars, runVars
  <2> QED
      BY <2>1, <2>2
<1> QED
    BY <1>1, <1>2, <1>3, <1>4, <1>5, <1>6, <1>7, <1>8 DEF Next, Handle

\* The input is never disabled with nothing under way to enable it again,
\* although an aborted run ends without a word (extension.ts:622-626): the run
\* that aborted it, or the stop, always has something left to post.
THEOREM BusyIsJustified == Spec => []BusyImpliesPending
<1>1. Init => Sane /\ Control /\ BusyImpliesPending
    BY SaneInit, ControlInit DEF Init, BusyImpliesPending
<1>2. Sane /\ Control /\ BusyImpliesPending /\ [Next]_vars
        => (Sane /\ Control /\ BusyImpliesPending)'
    BY SaneStep, ControlStep, BusyStep
<1> QED
    BY <1>1, <1>2, PTL DEF Spec

-----------------------------------------------------------------------------
(* Requests and controllers, for a webview that cannot stop a run.         *)

NoStops == \A p \in 1..Len(toHost) : toHost[p].type # "stopGeneration"

Covered ==
    /\ NoStops
    /\ \A r \in Runs : pc[r] \in {"context", "reply", "tools"} => controller # None
    /\ LiveRequestsAbortable

LEMMA CoveredStep ==
    ASSUME "stopGeneration" \notin Offered, Sane, Control, Covered, [Next]_vars
    PROVE  Covered'
<1>0. toHost \in Seq(HostMessage)
    BY DEF Sane, TypeOK
<1>1. ASSUME NEW r \in Runs, ClickSend(r) PROVE Covered'
  <2>1. toHost' = Append(toHost, [type |-> "sendMessage", run |-> r])
      BY <1>1 DEF ClickSend
  <2>2. NoStops'
      BY <1>0, <2>1 DEF Covered, NoStops
  <2> QED
      BY <1>1, <2>2 DEF ClickSend, Covered, LiveRequestsAbortable, abortVars, Sane, TypeOK
<1>2. ASSUME NEW r \in Runs, Advance(r) PROVE Covered'
  <2>1. /\ pc[r] \in {"context", "reply", "tools"}
        /\ \A s \in Runs \ {r} : pc'[s] = pc[s] /\ signal'[s] = signal[s]
        /\ toHost' = toHost /\ aborted' = aborted /\ controller' = controller
      BY <1>2, AdvanceFrame DEF viewVars, abortVars
  <2>2. pc'[r] = "reply" => signal'[r] = controller
    <3>1. CASE pc[r] = "reply" /\ signal'[r] # controller
        BY <1>2, <3>1 DEF Advance, Proceed, ContextReady, Fails, Aborts, AnswerWithCalls, Answered,
                          AnswerRetried, AnswerFinal, ToolsFinish, Fetch, Finish, Sane, TypeOK
    <3>2. CASE pc[r] # "reply"
        BY <1>2, <3>2 DEF Advance, Proceed, ContextReady, Fails, Aborts, AnswerWithCalls, Answered,
                          AnswerRetried, AnswerFinal, ToolsFinish, Fetch, Finish, Sane, TypeOK
    <3> QED
        BY <3>1, <3>2
  <2> QED
      BY <2>1, <2>2 DEF Covered, NoStops, LiveRequestsAbortable
<1>3. ASSUME NEW c \in Chats, ClickNewChat(c) PROVE Covered'
  <2>1. toHost' = Append(toHost, [type |-> "newChat", chat |-> c])
      BY <1>3 DEF ClickNewChat
  <2>2. NoStops'
      BY <1>0, <2>1 DEF Covered, NoStops
  <2> QED
      BY <1>3, <2>2 DEF ClickNewChat, Covered, LiveRequestsAbortable, abortVars, runVars
<1>4. CASE ViewReceive \/ UNCHANGED vars
    BY <1>4 DEF ViewReceive, vars, viewVars, Covered, NoStops, LiveRequestsAbortable,
                abortVars, runVars
<1>5. ASSUME toHost # <<>>, toHost' = Tail(toHost) PROVE NoStops'
    BY <1>5, PopQueue DEF Sane, Covered, NoStops
<1>6. CASE HandleSend
  <2> DEFINE r == Head(toHost).run
  <2>1. r \in Runs /\ NoStops'
      BY <1>5, <1>6, SentRun DEF HandleSend
  <2>2. /\ pc' = [pc EXCEPT ![r] = "context"] /\ controller' = r
        /\ aborted' = aborted \cup ({controller} \ {None}) /\ signal' = signal
      BY <1>6 DEF HandleSend, AbortPrevious
  <2> HIDE DEF r
  <2>3. pc'[r] = "context" /\ \A s \in Runs \ {r} : pc'[s] = pc[s]
      BY <2>1, <2>2 DEF Sane, TypeOK
  <2> QED
      BY <2>1, <2>2, <2>3 DEF Covered, LiveRequestsAbortable
<1>7. CASE HandleNewChat
    BY <1>5, <1>7 DEF HandleNewChat, Covered, LiveRequestsAbortable, abortVars, runVars
<1>8. ~HandleStop /\ ~ClickStop
  <2>1. ~ClickStop
      BY DEF ClickStop, Click
  <2>2. toHost # <<>> => Len(toHost) \in Nat \ {0} /\ Head(toHost) = toHost[1]
      BY <1>0, EmptySeq
  <2> QED
      BY <2>1, <2>2 DEF HandleStop, Covered, NoStops
<1> QED
    BY <1>1, <1>2, <1>3, <1>4, <1>6, <1>7, <1>8 DEF Next, Handle

\* As long as the webview posts no 'stopGeneration' (the shipped one does
\* not), every request in flight that was not aborted can still be aborted by
\* the user's next message: no run escapes with a signal nobody holds.
THEOREM EveryRequestAbortable ==
    ASSUME "stopGeneration" \notin Offered
    PROVE  Spec => []LiveRequestsAbortable
<1>1. Init => Sane /\ Control /\ Covered
  <2>1. Init => Covered
      BY DEF Init, Covered, NoStops, LiveRequestsAbortable
  <2> QED
      BY <2>1, SaneInit, ControlInit
<1>2. Sane /\ Control /\ Covered /\ [Next]_vars => (Sane /\ Control /\ Covered)'
    BY SaneStep, ControlStep, CoveredStep
<1>3. Covered => LiveRequestsAbortable
    BY DEF Covered
<1> QED
    BY <1>1, <1>2, <1>3, PTL DEF Spec

-----------------------------------------------------------------------------
(* Stored conversations.                                                   *)

\* A stored copy is a prefix of its array.
SavedPrefix ==
    \A i \in Ids : saved[i] # None => saved[i].len <= Len(transcript[saved[i].chat])

\* While no id is active the array on the screen is not stored, and neither
\* are the arrays that queued 'newChat' messages will bring.
Store ==
    /\ current \in allocated
    /\ \A i \in Ids : saved[i] # None => saved[i].chat \in allocated
    /\ QueuedChats
    /\ ConversationsStaySeparate
    /\ active = None => \A i \in Ids : saved[i] # None => saved[i].chat # current
    /\ SavedPrefix

\* The step SavedOnlyGrows speaks of.
Grows ==
    \A i \in Ids : saved[i] # None =>
        /\ saved'[i] # None
        /\ saved'[i].chat = saved[i].chat
        /\ saved'[i].len >= saved[i].len

LEMMA Lengths ==
    ASSUME Sane
    PROVE  /\ \A c \in Chats : Len(transcript[c]) \in Nat
           /\ \A i \in Ids : saved[i] # None => saved[i] \in Snapshot
           /\ \A i \in Ids : saved[i] # None => saved[i].chat \in Chats /\ saved[i].len \in Nat
BY LenProperties DEF Sane, TypeOK, Snapshot

LEMMA StoreUntouched ==
    ASSUME Sane, Store, transcript' \in [Chats -> Seq(Entry)],
           \A c \in Chats : Len(transcript'[c]) >= Len(transcript[c]),
           UNCHANGED <<storeVars, current, toHost, allocated>>
    PROVE  Store' /\ Grows
<1>1. SavedPrefix'
  <2> SUFFICES ASSUME NEW i \in Ids, saved[i] # None
               PROVE  saved[i].len <= Len(transcript'[saved[i].chat])
      BY DEF SavedPrefix, storeVars
  <2>1. /\ saved[i].chat \in Chats /\ saved[i].len \in Nat
        /\ saved[i].len <= Len(transcript[saved[i].chat])
      BY Lengths DEF Store, SavedPrefix
  <2>2. Len(transcript'[saved[i].chat]) \in Nat /\ Len(transcript[saved[i].chat]) \in Nat
      BY <2>1, LenProperties DEF Sane, TypeOK
  <2> QED
      BY <2>1, <2>2
<1>2. Store'
    BY <1>1 DEF Store, QueuedChats, ConversationsStaySeparate, ActiveIsCurrent,
                OneEntryPerChat, storeVars
<1>3. Grows
    BY Lengths DEF Grows, storeVars
<1> QED
    BY <1>2, <1>3

LEMMA StoreSaved ==
    ASSUME Sane, Store, transcript' \in [Chats -> Seq(Entry)],
           \A c \in Chats : Len(transcript'[c]) >= Len(transcript[c]),
           NEW posts, SaveToHistory(posts),
           UNCHANGED <<current, toHost, allocated>>
    PROVE  Store' /\ Grows
<1>1. CASE transcript'[current] = <<>>
    BY <1>1, StoreUntouched DEF SaveToHistory
<1>2. CASE transcript'[current] # <<>>
  <2> DEFINE snap == [chat |-> current, len |-> Len(transcript'[current])]
  <2>1. /\ active' \in Ids
        /\ active # None => active' = active
        /\ active = None => saved[active'] = None
        /\ saved' = [saved EXCEPT ![active'] = snap]
      BY <1>2 DEF SaveToHistory, Sane, TypeOK
  <2>2. /\ snap.chat = current /\ snap.len = Len(transcript'[current])
        /\ snap.len \in Nat /\ current \in Chats /\ snap \in Snapshot
      BY LenProperties DEF Sane, TypeOK, Snapshot
  <2>3. snap # None /\ active' # None
      BY <2>1, <2>2 DEF Snapshot
  <2> HIDE DEF snap
  <2>4. /\ saved'[active'] = snap
        /\ \A i \in Ids \ {active'} : saved'[i] = saved[i]
      BY <2>1 DEF Sane, TypeOK
  <2>5. ASSUME NEW i \in Ids \ {active'}, saved[i] # None
        PROVE  saved[i].chat # current
    <3>1. CASE active = None
        BY <2>5, <3>1 DEF Store
    <3>2. CASE active # None
        BY <2>1, <2>5, <3>2 DEF Store, ConversationsStaySeparate, ActiveIsCurrent,
                                OneEntryPerChat
    <3> QED
        BY <3>1, <3>2
  <2>6. saved[active'] # None => saved[active'].chat = current
      BY <2>1 DEF Store, ConversationsStaySeparate, ActiveIsCurrent
  <2>7. Grows
    <3> SUFFICES ASSUME NEW i \in Ids, saved[i] # None
                 PROVE  /\ saved'[i] # None
                        /\ saved'[i].chat = saved[i].chat
                        /\ saved'[i].len >= saved[i].len
        BY DEF Grows
    <3>1. CASE i # active'
        BY <2>4, <3>1, Lengths
    <3>2. CASE i = active'
      <4>1. saved[i].chat = current
          BY <2>6, <3>2
      <4>2. saved[i].len <= Len(transcript[current]) /\ saved[i].len \in Nat
          BY <4>1, Lengths DEF Store, SavedPrefix
      <4>3. Len(transcript[current]) <= Len(transcript'[current])
            /\ Len(transcript[current]) \in Nat
          BY <2>2, Lengths
      <4> QED
          BY <2>2, <2>3, <2>4, <3>2, <4>1, <4>2, <4>3
    <3> QED
        BY <3>1, <3>2
  <2>8. SavedPrefix'
    <3> SUFFICES ASSUME NEW i \in Ids, saved'[i] # None
                 PROVE  saved'[i].len <= Len(transcript'[saved'[i].chat])
        BY DEF SavedPrefix
    <3>1. CASE i = active'
        BY <2>2, <2>4, <3>1
    <3>2. CASE i # active'
      <4>1. /\ saved'[i] = saved[i] /\ saved[i].chat \in Chats /\ saved[i].len \in Nat
            /\ saved[i].len <= Len(transcript[saved[i].chat])
          BY <2>4, <3>2, Lengths DEF Store, SavedPrefix
      <4>2. Len(transcript'[saved[i].chat]) \in Nat /\ Len(transcript[saved[i].chat]) \in Nat
            /\ Len(transcript'[saved[i].chat]) >= Len(transcript[saved[i].chat])
          BY <4>1, LenProperties, Lengths
      <4> QED
          BY <4>1, <4>2
    <3> QED
        BY <3>1, <3>2
  <2>9. ConversationsStaySeparate'
      BY <2>1, <2>2, <2>3, <2>4, <2>5 DEF Store, ConversationsStaySeparate,
                                          ActiveIsCurrent, OneEntryPerChat
  <2>10. QueuedChats'
    <3>1. \A p \in 1..Len(toHost) : toHost[p].type = "newChat" =>
             /\ toHost[p].chat \in allocated /\ toHost[p].chat # current
             /\ \A i \in Ids : saved'[i] # None => saved'[i].chat # toHost[p].chat
        BY <2>2, <2>4 DEF Store, QueuedChats
    <3> QED
        BY <3>1 DEF Store, QueuedChats
  <2>11. \A i \in Ids : saved'[i] # None => saved'[i].chat \in allocated
      BY <2>2, <2>4 DEF Store
  <2> QED
      BY <2>3, <2>7, <2>8, <2>9, <2>10, <2>11 DEF Store
<1> QED
    BY <1>1, <1>2

\* What a run's step does to the arrays and to the stored conversations.
LEMMA AdvanceStores ==
    ASSUME Sane, NEW r \in Runs, Advance(r)
    PROVE  /\ transcript' \in [Chats -> Seq(Entry)]
           /\ \A c \in Chats : Len(transcript'[c]) >= Len(transcript[c])
           /\ UNCHANGED storeVars \/ \E posts \in {<<>>, <<"done">>} : SaveToHistory(posts)
<1>1. transcript' \in [Chats -> Seq(Entry)]
    BY SaneAdvance DEF Sane, TypeOK
<1>2. \A c \in Chats : Len(transcript[c]) \in Nat
    BY Lengths
<1>3. TypeOK /\ chatOf[r] \in Chats /\ 0 \in 0..MaxCalls
    BY DEF Sane, TypeOK
<1>4. \/ UNCHANGED transcript
      \/ \E e \in Seq(Entry) : Push(chatOf[r], e)
  <2>1. CASE ContextReady(r) \/ Fails(r) \/ Aborts(r)
      BY <2>1 DEF ContextReady, Fails, Aborts
  <2>2. CASE AnswerWithCalls(r)
    <3>1. PICK n \in 1..MaxCalls : Push(chatOf[r], <<AnswerEntry(r, n)>>)
        BY <2>2 DEF AnswerWithCalls
    <3>2. <<AnswerEntry(r, n)>> \in Seq(Entry)
        BY <1>3, AnswerType
    <3> QED
        BY <3>1, <3>2, Zenon
  <2>3. CASE AnswerRetried(r) \/ AnswerFinal(r)
    <3>1. /\ <<AnswerEntry(r, 0)>> \in Seq(Entry)
          /\ <<AnswerEntry(r, 0), WarningEntry(r)>> \in Seq(Entry)
        BY <1>3, AnswerType
    <3>2. \/ Push(chatOf[r], <<AnswerEntry(r, 0)>>)
          \/ Push(chatOf[r], <<AnswerEntry(r, 0), WarningEntry(r)>>)
        BY <2>3 DEF AnswerRetried, AnswerFinal
    <3> QED
        BY <3>1, <3>2, Zenon
  <2>4. CASE ToolsFinish(r)
    <3>1. PICK oks \in [1..calls[r] -> BOOLEAN] : Push(chatOf[r], ResultEntries(r, oks))
        BY <2>4 DEF ToolsFinish
    <3>2. ResultEntries(r, oks) \in Seq(Entry)
        BY <1>3, ResultEntriesType
    <3> QED
        BY <3>1, <3>2, Zenon
  <2> QED
      BY <2>1, <2>2, <2>3, <2>4 DEF Advance, Proceed
<1>5. \A c \in Chats : Len(transcript'[c]) >= Len(transcript[c])
  <2>1. CASE UNCHANGED transcript
      BY <1>2, <2>1
  <2>2. CASE \E e \in Seq(Entry) : Push(chatOf[r], e)
      BY <1>3, <2>2, PushType, Zenon
  <2> QED
      BY <1>4, <2>1, <2>2
<1>6. UNCHANGED storeVars \/ SaveToHistory(<<>>) \/ SaveToHistory(<<"done">>)
    BY DEF Advance, Proceed, ContextReady, Fails, Aborts, AnswerWithCalls, AnswerRetried,
           AnswerFinal, ToolsFinish
<1> QED
    BY <1>1, <1>5, <1>6, Zenon

LEMMA StoreInit == Init => Store
<1> SUFFICES ASSUME Init PROVE Store
    OBVIOUS
<1>1. toHost = <<>> /\ Len(toHost) = 0 /\ \A i \in Ids : saved[i] = None
    BY EmptySeq DEF Init
<1> QED
    BY <1>1 DEF Init, Store, QueuedChats, ConversationsStaySeparate, ActiveIsCurrent,
                OneEntryPerChat, SavedPrefix

LEMMA StoreStep ==
    ASSUME Sane, Store, [Next]_vars
    PROVE  Store' /\ Grows
<1>0. /\ \A c \in Chats : Len(transcript[c]) \in Nat
      /\ transcript \in [Chats -> Seq(Entry)]
      /\ toHost \in Seq(HostMessage)
    BY Lengths DEF Sane, TypeOK
<1>1. ASSUME NEW r \in Runs, Advance(r) PROVE Store' /\ Grows
  <2>1. UNCHANGED <<current, toHost, allocated>>
      BY <1>1, AdvanceFrame DEF viewVars
  <2>2. /\ transcript' \in [Chats -> Seq(Entry)]
        /\ \A c \in Chats : Len(transcript'[c]) >= Len(transcript[c])
        /\ UNCHANGED storeVars \/ \E posts \in {<<>>, <<"done">>} : SaveToHistory(posts)
      BY <1>1, AdvanceStores
  <2>3. CASE UNCHANGED storeVars
      BY <2>1, <2>2, <2>3, StoreUntouched
  <2>4. CASE \E posts \in {<<>>, <<"done">>} : SaveToHistory(posts)
      BY <2>1, <2>2, <2>4, StoreSaved, Zenon
  <2> QED
      BY <2>2, <2>3, <2>4
<1>2. ASSUME UNCHANGED storeVars PROVE Grows
    BY <1>2, Lengths DEF Grows, storeVars
<1>3. ASSUME NEW m \in HostMessage, toHost' = Append(toHost, m), m.type # "newChat",
             UNCHANGED <<storeVars, current, transcript, allocated>>
      PROVE  Store'
  <2>1. /\ Len(toHost) \in Nat /\ Len(toHost') = Len(toHost) + 1
        /\ \A p \in 1..Len(toHost) : toHost'[p] = toHost[p]
        /\ toHost'[Len(toHost) + 1] = m
      BY <1>3, AppendToQueue DEF Sane
  <2>2. \A p \in 1..Len(toHost') : p \in 1..Len(toHost) \/ p = Len(toHost) + 1
      BY <2>1
  <2>3. QueuedChats'
      BY <1>3, <2>1, <2>2 DEF Store, QueuedChats, storeVars
  <2> QED
      BY <1>3, <2>3 DEF Store, ConversationsStaySeparate, ActiveIsCurrent,
                        OneEntryPerChat, SavedPrefix, storeVars
<1>4. ASSUME NEW r \in Runs, ClickSend(r) PROVE Store' /\ Grows
  <2>1. [type |-> "sendMessage", run |-> r] \in HostMessage
      BY DEF HostMessage
  <2> QED
      BY <1>2, <1>3, <1>4, <2>1 DEF ClickSend
<1>5. CASE ClickStop
  <2>1. [type |-> "stopGeneration"] \in HostMessage
      BY DEF HostMessage
  <2> QED
      BY <1>2, <1>3, <1>5, <2>1 DEF ClickStop
<1>6. ASSUME NEW c \in Chats, ClickNewChat(c) PROVE Store' /\ Grows
  <2> DEFINE m == [type |-> "newChat", chat |-> c]
  <2>1. m \in HostMessage /\ m.type = "newChat" /\ m.chat = c
      BY DEF HostMessage
  <2>2. /\ toHost' = Append(toHost, m) /\ c \notin allocated
        /\ allocated' = allocated \cup {c}
        /\ UNCHANGED <<storeVars, current, transcript>>
      BY <1>6 DEF ClickNewChat
  <2> HIDE DEF m
  <2>3. /\ Len(toHost) \in Nat /\ Len(toHost') = Len(toHost) + 1
        /\ \A p \in 1..Len(toHost) : toHost'[p] = toHost[p]
        /\ toHost'[Len(toHost) + 1] = m
      BY <2>1, <2>2, AppendToQueue DEF Sane
  <2>4. \A p \in 1..Len(toHost') : p \in 1..Len(toHost) \/ p = Len(toHost) + 1
      BY <2>3
  <2>5. \A p \in 1..Len(toHost) : toHost[p].type = "newChat" => toHost[p].chat # c
      BY <2>2 DEF Store, QueuedChats
  <2>6. c # current /\ \A i \in Ids : saved[i] # None => saved[i].chat # c
      BY <2>2 DEF Store
  <2>7. QueuedChats'
    <3>1. \A p \in 1..Len(toHost') :
             toHost'[p].type = "newChat" =>
                /\ toHost'[p].chat \in allocated'
                /\ toHost'[p].chat # current'
                /\ \A i \in Ids : saved'[i] # None => saved'[i].chat # toHost'[p].chat
        BY <2>1, <2>2, <2>3, <2>4, <2>6 DEF Store, QueuedChats, storeVars
    <3>2. \A p, q \in 1..Len(toHost') :
             /\ toHost'[p].type = "newChat" /\ toHost'[q].type = "newChat"
             /\ toHost'[p].chat = toHost'[q].chat
             => p = q
        BY <2>1, <2>3, <2>4, <2>5 DEF Store, QueuedChats
    <3> QED
        BY <3>1, <3>2 DEF QueuedChats
  <2>8. Store'
      BY <2>2, <2>7 DEF Store, ConversationsStaySeparate, ActiveIsCurrent,
                        OneEntryPerChat, SavedPrefix, storeVars
  <2> QED
      BY <1>2, <2>2, <2>8
<1>7. ASSUME toHost # <<>>, toHost' = Tail(toHost), current' = current,
             UNCHANGED <<storeVars, allocated>>
      PROVE  QueuedChats'
  <2>1. /\ Len(toHost) \in Nat \ {0} /\ Len(toHost') = Len(toHost) - 1
        /\ \A p \in 1..Len(toHost') : p + 1 \in 1..Len(toHost) /\ toHost'[p] = toHost[p + 1]
      BY <1>7, PopQueue DEF Sane
  <2>2. ASSUME NEW p \in 1..Len(toHost'), NEW q \in 1..Len(toHost'),
               toHost'[p].type = "newChat", toHost'[q].type = "newChat",
               toHost'[p].chat = toHost'[q].chat
        PROVE  p = q
    <3>1. p + 1 = q + 1
        BY <2>1, <2>2 DEF Store, QueuedChats
    <3> QED
        BY <2>1, <3>1
  <2> QED
      BY <1>7, <2>1, <2>2 DEF Store, QueuedChats, storeVars
<1>8. CASE HandleSend
  <2>1. Head(toHost).run \in Runs /\ current \in Chats /\ TypeOK
      BY <1>8, SentRun DEF Sane, TypeOK
  <2>2. <<UserEntry(Head(toHost).run)>> \in Seq(Entry)
      BY <2>1 DEF UserEntry, Entry
  <2>3. Push(current, <<UserEntry(Head(toHost).run)>>)
      BY <1>8 DEF HandleSend
  <2>4. \A c \in Chats : Len(transcript'[c]) >= Len(transcript[c])
      BY <2>1, <2>2, <2>3, PushType, Zenon
  <2>5. transcript' \in [Chats -> Seq(Entry)]
      BY <2>1, <2>2, <2>3, PushType, Zenon
  <2>6. UNCHANGED <<storeVars, current, allocated>> /\ QueuedChats'
      BY <1>7, <1>8 DEF HandleSend
  <2>7. SavedPrefix'
    <3> SUFFICES ASSUME NEW i \in Ids, saved[i] # None
                 PROVE  saved[i].len <= Len(transcript'[saved[i].chat])
        BY <2>6 DEF SavedPrefix, storeVars
    <3>1. /\ saved[i].chat \in Chats /\ saved[i].len \in Nat
          /\ saved[i].len <= Len(transcript[saved[i].chat])
        BY Lengths DEF Store, SavedPrefix
    <3>2. Len(transcript'[saved[i].chat]) \in Nat /\ Len(transcript[saved[i].chat]) \in Nat
        BY <1>0, <2>5, <3>1, LenProperties
    <3> QED
        BY <2>4, <3>1, <3>2
  <2>8. Store'
      BY <2>6, <2>7 DEF Store, ConversationsStaySeparate, ActiveIsCurrent,
                        OneEntryPerChat, storeVars
  <2> QED
      BY <1>2, <2>6, <2>8
<1>9. CASE HandleStop
  <2>1. UNCHANGED <<storeVars, current, allocated, transcript>> /\ QueuedChats'
      BY <1>7, <1>9 DEF HandleStop
  <2> QED
      BY <1>2, <2>1 DEF Store, ConversationsStaySeparate, ActiveIsCurrent,
                        OneEntryPerChat, SavedPrefix, storeVars
<1>10. CASE HandleNewChat
  <2>1. /\ toHost # <<>> /\ toHost' = Tail(toHost) /\ Head(toHost).type = "newChat"
        /\ current' = Head(toHost).chat /\ active' = None
        /\ UNCHANGED <<allocated, transcript, saved>>
      BY <1>10 DEF HandleNewChat, ForgetConversation
  <2>2. /\ Len(toHost) \in Nat \ {0} /\ Len(toHost') = Len(toHost) - 1
        /\ Head(toHost) = toHost[1]
        /\ \A p \in 1..Len(toHost') : p + 1 \in 1..Len(toHost) /\ toHost'[p] = toHost[p + 1]
      BY <2>1, PopQueue DEF Sane
  <2>3. /\ current' \in allocated
        /\ \A i \in Ids : saved[i] # None => saved[i].chat # current'
      BY <2>1, <2>2 DEF Store, QueuedChats
  <2>4. ASSUME NEW p \in 1..Len(toHost'), toHost'[p].type = "newChat"
        PROVE  /\ toHost'[p].chat \in allocated
               /\ toHost'[p].chat # current'
               /\ \A i \in Ids : saved[i] # None => saved[i].chat # toHost'[p].chat
    <3>1. p + 1 # 1 /\ 1 \in 1..Len(toHost)
        BY <2>2
    <3> QED
        BY <2>1, <2>2, <2>4, <3>1 DEF Store, QueuedChats
  <2>5. ASSUME NEW p \in 1..Len(toHost'), NEW q \in 1..Len(toHost'),
               toHost'[p].type = "newChat", toHost'[q].type = "newChat",
               toHost'[p].chat = toHost'[q].chat
        PROVE  p = q
    <3>1. p + 1 = q + 1
        BY <2>2, <2>5 DEF Store, QueuedChats
    <3> QED
        BY <2>2, <3>1
  <2>6. QueuedChats'
      BY <2>1, <2>4, <2>5 DEF QueuedChats
  <2>7. Store'
      BY <2>1, <2>3, <2>6 DEF Store, ConversationsStaySeparate, ActiveIsCurrent,
                              OneEntryPerChat, SavedPrefix
  <2>8. Grows
      BY <2>1, Lengths DEF Grows
  <2> QED
      BY <2>7, <2>8
<1>11. CASE ViewReceive \/ UNCHANGED vars
  <2>1. UNCHANGED <<storeVars, current, transcript, allocated, toHost>>
      BY <1>11 DEF ViewReceive, vars, viewVars
  <2> QED
      BY <1>2, <2>1 DEF Store, QueuedChats, ConversationsStaySeparate, ActiveIsCurrent,
                        OneEntryPerChat, SavedPrefix, storeVars
<1> QED
    BY <1>1, <1>4, <1>5, <1>6, <1>8, <1>9, <1>10, <1>11 DEF Next, Handle

\* However many runs are under way and whichever of them saves, the active id
\* always belongs to the conversation on the screen and no conversation is
\* stored twice: _saveToHistory writes what the provider's fields hold when a
\* run ends, not what the run was started with (extension.ts:180, 188-213).
THEOREM ConversationsNeverMix == Spec => []ConversationsStaySeparate
<1>1. Init => Sane /\ Store
    BY SaneInit, StoreInit
<1>2. Sane /\ Store /\ [Next]_vars => (Sane /\ Store)'
    BY SaneStep, StoreStep
<1>3. Store => ConversationsStaySeparate
    BY DEF Store
<1> QED
    BY <1>1, <1>2, <1>3, PTL DEF Spec

\* A stored conversation is never replaced by another one and never gets
\* shorter.
THEOREM SavedNeverShrinks == Spec => SavedOnlyGrows
<1>1. Init => Sane /\ Store
    BY SaneInit, StoreInit
<1>2. Sane /\ Store /\ [Next]_vars => (Sane /\ Store)' /\ [Grows]_vars
    BY SaneStep, StoreStep
<1> QED
    BY <1>1, <1>2, PTL DEF Spec, SavedOnlyGrows, Grows

-----------------------------------------------------------------------------
(* The end of a run.                                                       *)

LEMMA AdvanceLowers ==
    ASSUME Sane, NEW r \in Runs, Advance(r)
    PROVE  /\ StepsLeft(r)' \in Nat /\ StepsLeft(r)' < StepsLeft(r)
           /\ \A s \in Runs \ {r} : pc'[s] = pc[s] /\ loop'[s] = loop[s]
<1>1. /\ pc \in [Runs -> Phase] /\ loop \in [Runs -> 0..MaxLoops] /\ MaxLoops \in Nat \ {0}
      /\ loop[r] \in Nat /\ loop[r] <= MaxLoops
    BY DEF Sane, TypeOK
<1>2. ASSUME Fetch(r), loop[r] < MaxLoops,
             \/ pc[r] = "context" /\ loop[r] = 0
             \/ pc[r] \in {"reply", "tools"}
      PROVE  /\ StepsLeft(r)' \in Nat /\ StepsLeft(r)' < StepsLeft(r)
             /\ \A s \in Runs \ {r} : pc'[s] = pc[s] /\ loop'[s] = loop[s]
  <2>1. /\ pc'[r] = "reply" /\ loop'[r] = loop[r] + 1
        /\ \A s \in Runs \ {r} : pc'[s] = pc[s] /\ loop'[s] = loop[s]
      BY <1>1, <1>2 DEF Fetch
  <2>2. StepsLeft(r)' = 2 * (MaxLoops - loop'[r]) + 2
      BY <2>1 DEF StepsLeft
  <2>3. \/ loop[r] = 0 /\ StepsLeft(r) = 2 * MaxLoops + 1
        \/ StepsLeft(r) = 2 * (MaxLoops - loop[r]) + 2
        \/ StepsLeft(r) = 2 * (MaxLoops - loop[r]) + 1
      BY <1>2 DEF StepsLeft
  <2> QED
      BY <1>1, <1>2, <2>1, <2>2, <2>3
<1>3. ASSUME NEW how \in Ended, Finish(r, how), pc[r] \in {"context", "reply", "tools"}
      PROVE  /\ StepsLeft(r)' \in Nat /\ StepsLeft(r)' < StepsLeft(r)
             /\ \A s \in Runs \ {r} : pc'[s] = pc[s] /\ loop'[s] = loop[s]
  <2>1. /\ pc'[r] \in Ended /\ \A s \in Runs \ {r} : pc'[s] = pc[s] /\ loop'[s] = loop[s]
      BY <1>1, <1>3 DEF Finish
  <2>2. StepsLeft(r)' = 0
      BY <2>1 DEF StepsLeft, Ended
  <2>3. \/ StepsLeft(r) = 2 * MaxLoops + 1
        \/ StepsLeft(r) = 2 * (MaxLoops - loop[r]) + 2
        \/ StepsLeft(r) = 2 * (MaxLoops - loop[r]) + 1
      BY <1>3 DEF StepsLeft
  <2> QED
      BY <1>1, <2>1, <2>2, <2>3
<1>4. "finished" \in Ended /\ "aborted" \in Ended /\ "failed" \in Ended
    BY DEF Ended
<1>5. CASE ContextReady(r)
  <2>1. pc[r] = "context" /\ Fetch(r) /\ loop[r] = 0
      BY <1>5 DEF ContextReady, Sane, FreshRunsAtZero
  <2> QED
      BY <1>1, <1>2, <2>1
<1>6. CASE Fails(r) \/ Aborts(r) \/ AnswerFinal(r)
    BY <1>3, <1>4, <1>6 DEF Fails, Aborts, AnswerFinal, Answered
<1>7. CASE AnswerWithCalls(r)
  <2>1. pc[r] = "reply" /\ pc' = [pc EXCEPT ![r] = "tools"] /\ loop' = loop
      BY <1>7 DEF AnswerWithCalls, Answered
  <2>2. StepsLeft(r) = 2 * (MaxLoops - loop[r]) + 2
      BY <2>1 DEF StepsLeft
  <2>3. StepsLeft(r)' = 2 * (MaxLoops - loop[r]) + 1
      BY <1>1, <2>1 DEF StepsLeft
  <2> QED
      BY <1>1, <2>1, <2>2, <2>3
<1>8. CASE AnswerRetried(r)
  <2>1. pc[r] = "reply" /\ Fetch(r) /\ loop[r] < MaxLoops
      BY <1>1, <1>8 DEF AnswerRetried, Answered
  <2> QED
      BY <1>2, <2>1
<1>9. CASE ToolsFinish(r)
    BY <1>2, <1>3, <1>4, <1>9 DEF ToolsFinish, MoreRounds
<1> QED
    BY <1>5, <1>6, <1>7, <1>8, <1>9 DEF Advance, Proceed

LEMMA SetOutLowers ==
    ASSUME Sane, NEW r \in Runs,
           \/ pc[r] = "unsent" /\ pc' = [pc EXCEPT ![r] = "sent"]
           \/ pc[r] = "sent" /\ pc' = [pc EXCEPT ![r] = "context"],
           UNCHANGED loop
    PROVE  /\ StepsLeft(r)' \in Nat /\ StepsLeft(r)' < StepsLeft(r)
           /\ \A s \in Runs \ {r} : pc'[s] = pc[s] /\ loop'[s] = loop[s]
<1>1. pc \in [Runs -> Phase] /\ MaxLoops \in Nat
    BY DEF Sane, TypeOK
<1>2. CASE pc[r] = "unsent" /\ pc' = [pc EXCEPT ![r] = "sent"]
  <2>1. StepsLeft(r) = 2 * MaxLoops + 3 /\ StepsLeft(r)' = 2 * MaxLoops + 2
      BY <1>1, <1>2 DEF StepsLeft
  <2> QED
      BY <1>1, <1>2, <2>1
<1>3. CASE pc[r] = "sent" /\ pc' = [pc EXCEPT ![r] = "context"]
  <2>1. StepsLeft(r) = 2 * MaxLoops + 2 /\ StepsLeft(r)' = 2 * MaxLoops + 1
      BY <1>1, <1>3 DEF StepsLeft
  <2> QED
      BY <1>1, <1>3, <2>1
<1> QED
    BY <1>2, <1>3

\* A run that no step of Next is about stands still.
LEMMA NotItsTurn ==
    ASSUME Sane, NEW s \in Runs, pc'[s] = pc[s], loop'[s] = loop[s]
    PROVE  /\ StepsLeft(s)' \in Nat /\ UNCHANGED <<pc[s], loop[s]>> /\ ~Advance(s)
<1>1. pc[s] \in Phase /\ loop[s] \in 0..MaxLoops /\ MaxLoops \in Nat
    BY DEF Sane, TypeOK
<1>2. StepsLeft(s)' = StepsLeft(s)
    BY DEF StepsLeft
<1>3. StepsLeft(s) \in Nat
    BY <1>1 DEF StepsLeft, Phase, Ended
<1>4. ~Advance(s)
  <2> SUFFICES ASSUME Advance(s) PROVE FALSE
      OBVIOUS
  <2>1. StepsLeft(s)' < StepsLeft(s)
      BY AdvanceLowers
  <2> QED
      BY <1>2, <1>3, <2>1
<1> QED
    BY <1>2, <1>3, <1>4

\* Every step of a run brings it closer to its end and nothing sets it back,
\* whatever the other runs and the user do (extension.ts:460, 613, 620): no
\* run takes more than 2 * MaxLoops + 3 steps.
THEOREM RunsAreBounded == Spec => RunsComeCloser
<1> DEFINE Closer(r) == /\ StepsLeft(r)' \in Nat
                        /\ \/ StepsLeft(r)' < StepsLeft(r)
                           \/ ~Advance(r) /\ UNCHANGED <<pc[r], loop[r]>>
<1>1. Sane /\ [Next]_vars => [\A r \in Runs : Closer(r)]_vars
  <2> SUFFICES ASSUME Sane, Next, NEW r \in Runs PROVE Closer(r)
      OBVIOUS
  <2>1. ASSUME NEW s \in Runs, Advance(s) PROVE Closer(r)
    <3>1. CASE r = s
        BY <2>1, <3>1, AdvanceLowers
    <3>2. CASE r # s
        BY <2>1, <3>2, AdvanceLowers, NotItsTurn
    <3> QED
        BY <3>1, <3>2
  <2>2. ASSUME NEW s \in Runs, ClickSend(s) PROVE Closer(r)
    <3>1. pc[s] = "unsent" /\ pc' = [pc EXCEPT ![s] = "sent"] /\ UNCHANGED loop
        BY <2>2 DEF ClickSend
    <3> QED
        BY <3>1, SetOutLowers, NotItsTurn
  <2>3. CASE HandleSend
    <3>1. PICK s \in Runs : s = Head(toHost).run /\ pc[s] = "sent"
        BY <2>3, SentRun
    <3>2. pc' = [pc EXCEPT ![s] = "context"] /\ UNCHANGED loop
        BY <2>3, <3>1 DEF HandleSend
    <3> QED
        BY <3>1, <3>2, SetOutLowers, NotItsTurn
  <2>4. CASE UNCHANGED runVars
    <3>1. pc'[r] = pc[r] /\ loop'[r] = loop[r]
        BY <2>4 DEF runVars
    <3> QED
        BY <3>1, NotItsTurn
  <2>5. ASSUME NEW c \in Chats, ClickNewChat(c) PROVE UNCHANGED runVars
      BY <2>5 DEF ClickNewChat
  <2>6. ClickStop \/ ViewReceive \/ HandleNewChat \/ HandleStop => UNCHANGED runVars
      BY DEF ClickStop, ViewReceive, HandleNewChat, HandleStop
  <2> QED
      BY <2>1, <2>2, <2>3, <2>4, <2>5, <2>6 DEF Next, Handle
<1>2. Init => Sane
    BY SaneInit
<1>3. Sane /\ [Next]_vars => Sane'
    BY SaneStep
<1> QED
    BY <1>1, <1>2, <1>3, PTL DEF Spec, RunsComeCloser
=============================================================================
