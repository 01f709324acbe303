------------------------- MODULE AgentTranscriptProofs -------------------------
(***************************************************************************)
(* Proofs about the transcripts of AgentLoop, for any number of runs,      *)
(* chats, rounds and calls: every call gets its result, every result has   *)
(* its call.                                                               *)
(***************************************************************************)
EXTENDS AgentLoopProofs

Early == {"unsent", "sent", "context"}

\* What an entry in an array says of its run: the run was given that array and has
\* reached that round; it is past it unless it executes the calls of that answer.
Fits(e, c) ==
    /\ pc[e.run] \notin Early /\ chatOf[e.run] = c
    /\ e.turn <= loop[e.run]
    /\ pc[e.run] = "reply" => e.turn # loop[e.run]
    /\ pc[e.run] = "tools" /\ e.turn = loop[e.run] =>
          e.role = "assistant" /\ e.calls = calls[e.run]

OfLoop(e) == e.role \in {"assistant", "tool"}

Placed == \A c \in Chats : \A p \in 1..Len(transcript[c]) :
             OfLoop(transcript[c][p]) => Fits(transcript[c][p], c)

Asks(e, r) == e.role = "assistant" /\ e.run = r /\ e.turn = loop[r] /\ e.calls = calls[r]

AskedNow == \A r \in Runs : pc[r] = "tools" =>
    \E p \in 1..Len(transcript[chatOf[r]]) : Asks(transcript[chatOf[r]][p], r)

Log == Placed /\ AskedNow /\ CallsAnswered /\ ResultsAnswerCalls

LEMMA LogInit == Init => Log
<1> SUFFICES ASSUME Init PROVE Log
  OBVIOUS
<1>1. \A c \in Chats : transcript[c] = <<>>
  BY DEF Init
<1>2. \A c \in Chats : 1..Len(transcript[c]) = {}
  BY <1>1
<1>3. \A r \in Runs : pc[r] # "tools"
  BY DEF Init
<1>4. QED
  BY <1>2, <1>3 DEF Log, Placed, AskedNow, CallsAnswered, ResultsAnswerCalls

-----------------------------------------------------------------------------
(* Arrays only grow, at the end.                                           *)

Appended(d, es) ==
    /\ \A c \in Chats : \A p \in 1..Len(transcript[c]) :
          p \in 1..Len(transcript'[c]) /\ transcript'[c][p] = transcript[c][p]
    /\ \A c \in Chats : \A p \in 1..Len(transcript'[c]) :
          \/ p \in 1..Len(transcript[c])
          \/ c = d /\ \E k \in 1..Len(es) :
                p = Len(transcript[d]) + k /\ transcript'[d][p] = es[k]
    /\ \A k \in 1..Len(es) :
          /\ Len(transcript[d]) + k \in 1..Len(transcript'[d])
          /\ transcript'[d][Len(transcript[d]) + k] = es[k]

LEMMA PushAppends ==
    ASSUME Sane, NEW d \in Chats, NEW es \in Seq(Entry), Push(d, es)
    PROVE  Appended(d, es)
<1>1. /\ transcript[d] \in Seq(Entry) /\ \A c \in Chats : transcript[c] \in Seq(Entry)
      /\ transcript'[d] = transcript[d] \o es
      /\ \A c \in Chats \ {d} : transcript'[c] = transcript[c]
  BY DEF Push, Sane, TypeOK
<1>2. /\ Len(transcript'[d]) = Len(transcript[d]) + Len(es)
      /\ Len(transcript[d]) \in Nat /\ Len(es) \in Nat
      /\ \A p \in 1..Len(transcript[d]) : transcript'[d][p] = transcript[d][p]
      /\ \A k \in 1..Len(es) : transcript'[d][Len(transcript[d]) + k] = es[k]
  BY <1>1
<1>3. ASSUME NEW p \in 1..Len(transcript'[d]), p \notin 1..Len(transcript[d])
      PROVE  \E k \in 1..Len(es) : p = Len(transcript[d]) + k /\ transcript'[d][p] = es[k]
  <2>1. PICK k \in 1..Len(es) : p = Len(transcript[d]) + k
    <3>1. p - Len(transcript[d]) \in 1..Len(es) /\ p = Len(transcript[d]) + (p - Len(transcript[d]))
      BY <1>2, <1>3
    <3>2. QED
      BY <3>1
  <2>2. QED
    BY <1>2, <2>1
<1>4. \A p \in 1..Len(transcript[d]) : p \in 1..Len(transcript'[d])
  BY <1>2
<1>5. \A k \in 1..Len(es) : Len(transcript[d]) + k \in 1..Len(transcript'[d])
  BY <1>2
<1>6. \A c \in Chats : \A p \in 1..Len(transcript[c]) :
         p \in 1..Len(transcript'[c]) /\ transcript'[c][p] = transcript[c][p]
  BY <1>1, <1>2, <1>4
<1>7. \A c \in Chats : \A p \in 1..Len(transcript'[c]) :
          \/ p \in 1..Len(transcript[c])
          \/ c = d /\ \E k \in 1..Len(es) :
                p = Len(transcript[d]) + k /\ transcript'[d][p] = es[k]
  BY <1>1, <1>3
<1>8. QED
  BY <1>2, <1>5, <1>6, <1>7 DEF Appended

LEMMA NothingAppended ==
    ASSUME Sane, NEW d \in Chats, UNCHANGED transcript
    PROVE  Appended(d, <<>>)
  BY DEF Appended

\* A step of run r that pushes es to its array d.
Wrote(r, d, es) ==
    /\ es \in Seq(Entry) /\ \A k \in 1..Len(es) : es[k].run = r
    /\ Appended(d, es)
    /\ chatOf'[r] = d /\ (pc[r] \notin Early => chatOf[r] = d)
    /\ \A s \in Runs \ {r} : /\ pc'[s] = pc[s] /\ loop'[s] = loop[s]
                             /\ chatOf'[s] = chatOf[s] /\ calls'[s] = calls[s]

LEMMA NewEntry ==
    ASSUME NEW r, NEW d, NEW es, Wrote(r, d, es), NEW c \in Chats,
           NEW p \in 1..Len(transcript'[c]), p \notin 1..Len(transcript[c])
    PROVE  c = d /\ \E k \in 1..Len(es) :
              p = Len(transcript[d]) + k /\ transcript'[c][p] = es[k]
<1>1. \A b \in Chats : \A o \in 1..Len(transcript'[b]) :
          \/ o \in 1..Len(transcript[b])
          \/ b = d /\ \E k \in 1..Len(es) :
                o = Len(transcript[d]) + k /\ transcript'[d][o] = es[k]
  BY DEF Wrote, Appended
<1>2. c = d /\ \E k \in 1..Len(es) : p = Len(transcript[d]) + k /\ transcript'[d][p] = es[k]
  BY <1>1
<1>3. QED
  BY <1>2

LEMMA OldEntry ==
    ASSUME NEW r, NEW d, NEW es, Wrote(r, d, es), NEW c \in Chats, NEW p \in 1..Len(transcript[c])
    PROVE  p \in 1..Len(transcript'[c]) /\ transcript'[c][p] = transcript[c][p]
  BY DEF Wrote, Appended

LEMMA Fields ==
    ASSUME Sane, NEW c \in Chats, NEW p \in 1..Len(transcript[c])
    PROVE  /\ transcript[c][p] \in Entry /\ transcript[c][p].run \in Runs
           /\ OfLoop(transcript[c][p]) => transcript[c][p].turn \in Nat
           /\ transcript[c][p].role = "assistant" => transcript[c][p].calls \in Nat
           /\ transcript[c][p].role = "tool" => transcript[c][p].call \in Nat
<1>1. transcript[c][p] \in Entry
  BY DEF Sane, TypeOK
<1>2. QED
  BY <1>1 DEF Entry, OfLoop

LEMMA StillPlaced ==
    ASSUME Sane, Log, NEW r \in Runs, NEW d \in Chats, NEW es, Wrote(r, d, es),
           \A e \in Entry : OfLoop(e) /\ e.run = r /\ Fits(e, d) => Fits(e, d)',
           \A k \in 1..Len(es) : OfLoop(es[k]) => Fits(es[k], d)'
    PROVE  Placed'
<1> SUFFICES ASSUME NEW c \in Chats, NEW p \in 1..Len(transcript'[c]), OfLoop(transcript'[c][p])
             PROVE  Fits(transcript[c][p], c)'
  BY DEF Placed, OfLoop
<1>1. CASE p \in 1..Len(transcript[c])
  <2>1. PICK e \in Entry : e = transcript[c][p] /\ e = transcript'[c][p] /\ e.run \in Runs
    BY <1>1, Fields DEF Wrote, Appended
  <2>2. Fits(e, c)
    BY <1>1, <2>1 DEF Log, Placed
  <2>3. CASE e.run = r
    BY <2>1, <2>2, <2>3 DEF Wrote, Fits
  <2>4. CASE e.run # r
    BY <2>1, <2>2, <2>4 DEF Wrote, Fits
  <2>5. QED
    BY <2>3, <2>4
<1>2. CASE p \notin 1..Len(transcript[c])
  <2>1. PICK k \in 1..Len(es) : c = d /\ transcript'[c][p] = es[k]
    BY <1>2, NewEntry
  <2>2. Fits(es[k], d)'
    BY <2>1
  <2>3. QED
    BY <2>1, <2>2 DEF Fits
<1>3. QED
  BY <1>1, <1>2

LEMMA StillAsked ==
    ASSUME Sane, Log, NEW r \in Runs, NEW d \in Chats, NEW es, Wrote(r, d, es),
           pc'[r] = "tools" => \E k \in 1..Len(es) : Asks(es[k], r)'
    PROVE  AskedNow'
<1> SUFFICES ASSUME NEW s \in Runs, pc'[s] = "tools"
             PROVE  \E p \in 1..Len(transcript'[chatOf'[s]]) : Asks(transcript[chatOf[s]][p], s)'
  BY DEF AskedNow
<1>1. CASE s = r
  <2>1. PICK k \in 1..Len(es) : Asks(es[k], r)'
    BY <1>1
  <2>2. chatOf'[s] = d /\ Len(transcript[d]) + k \in 1..Len(transcript'[d])
        /\ transcript'[d][Len(transcript[d]) + k] = es[k]
    BY <1>1 DEF Wrote, Appended
  <2>3. PICK p \in 1..Len(transcript'[d]) : transcript'[d][p] = es[k]
    BY <2>2
  <2>4. QED
    BY <1>1, <2>1, <2>2, <2>3 DEF Asks
<1>2. CASE s # r
  <2>1. pc[s] = "tools" /\ chatOf'[s] = chatOf[s] /\ chatOf[s] \in Chats
    BY <1>2 DEF Wrote, Sane, TypeOK
  <2>2. PICK p \in 1..Len(transcript[chatOf[s]]) : Asks(transcript[chatOf[s]][p], s)
    BY <2>1 DEF Log, AskedNow
  <2>3. p \in 1..Len(transcript'[chatOf[s]]) /\ transcript'[chatOf[s]][p] = transcript[chatOf[s]][p]
    BY <2>1, OldEntry
  <2>4. loop'[s] = loop[s] /\ calls'[s] = calls[s]
    BY <1>2 DEF Wrote
  <2>5. QED
    BY <2>1, <2>2, <2>3, <2>4 DEF Asks
<1>3. QED
  BY <1>1, <1>2

\* A result, and its call, stay where they are.
LEMMA StillAnswers ==
    ASSUME Sane, NEW r, NEW d \in Chats, NEW es, Wrote(r, d, es), NEW c \in Chats,
           NEW p \in 1..Len(transcript[c]), NEW q \in 1..Len(transcript[c]), NEW k,
           Answers(c, q, p, k)
    PROVE  Answers(c, q, p, k)'
  BY DEF Wrote, Appended, Answers

\* The calls that were answered, or are being executed by another run.
LEMMA StillSettled ==
    ASSUME Sane, Log, NEW r \in Runs, NEW d \in Chats, NEW es, Wrote(r, d, es),
           NEW c \in Chats, NEW p \in 1..Len(transcript[c]), transcript[c][p].role = "assistant",
           \/ transcript[c][p].run # r
           \/ pc[r] # "tools"
           \/ transcript[c][p].turn # loop[r]
    PROVE  \/ \A k \in 1..transcript[c][p].calls :
                 \E q \in (p + 1)..Len(transcript'[c]) : Answers(c, q, p, k)'
           \/ /\ pc'[transcript[c][p].run] = "tools" /\ chatOf'[transcript[c][p].run] = c
              /\ loop'[transcript[c][p].run] = transcript[c][p].turn
<1>1. PICK e \in Entry : e = transcript[c][p] /\ e.run \in Runs
  BY Fields
<1>2. CASE \A k \in 1..e.calls : \E q \in (p + 1)..Len(transcript[c]) : Answers(c, q, p, k)
  <2>1. ASSUME NEW k \in 1..e.calls
        PROVE  \E q \in (p + 1)..Len(transcript'[c]) : Answers(c, q, p, k)'
    <3>1. PICK q \in (p + 1)..Len(transcript[c]) : Answers(c, q, p, k)
      BY <1>2, <2>1
    <3>2. Len(transcript[c]) \in Nat /\ q \in 1..Len(transcript[c]) /\ q > p
      BY DEF Sane, TypeOK
    <3>3. Answers(c, q, p, k)'
      BY <3>1, <3>2, StillAnswers
    <3>4. q \in (p + 1)..Len(transcript'[c])
      <4>1. q \in 1..Len(transcript'[c])
        BY <3>2 DEF Wrote, Appended
      <4>2. QED
        BY <3>2, <4>1
    <3>5. QED
      BY <3>3, <3>4
  <2>2. QED
    BY <1>1, <2>1
<1>3. CASE pc[e.run] = "tools" /\ chatOf[e.run] = c /\ loop[e.run] = e.turn
  BY <1>1, <1>3 DEF Wrote
<1>4. QED
  BY <1>1, <1>2, <1>3 DEF Log, CallsAnswered

\* The results that were there.
LEMMA StillCalled ==
    ASSUME Sane, Log, NEW r, NEW d, NEW es, Wrote(r, d, es),
           \A k \in 1..Len(es) : es[k].role = "tool" => pc[r] = "tools" /\ es[k].turn = loop[r],
           NEW c \in Chats, NEW q \in 1..Len(transcript[c]), transcript[c][q].role = "tool"
    PROVE  /\ \E p \in 1..(q - 1) :
                 /\ transcript'[c][p].role = "assistant"
                 /\ transcript'[c][p].calls >= transcript'[c][q].call
                 /\ Answers(c, q, p, transcript[c][q].call)'
           /\ \A o \in 1..Len(transcript'[c]) :
                 Answers(c, o, q, transcript[c][q].call)' => o = q
<1>0. ASSUME NEW o \in 1..Len(transcript'[c]), o \notin 1..Len(transcript[c])
      PROVE  \E k \in 1..Len(es) : transcript'[c][o] = es[k]
  <2>1. \A b \in Chats : \A x \in 1..Len(transcript'[b]) :
           x \in 1..Len(transcript[b]) \/ \E k \in 1..Len(es) : transcript'[b][x] = es[k]
    BY NewEntry
  <2>2. QED
    BY <1>0, <2>1
<1>1. transcript'[c][q] = transcript[c][q]
  BY OldEntry
<1>2. Len(transcript[c]) \in Nat
  BY DEF Sane, TypeOK
<1>3. PICK p \in 1..(q - 1) :
         /\ transcript[c][p].role = "assistant"
         /\ transcript[c][p].calls >= transcript[c][q].call
         /\ Answers(c, q, p, transcript[c][q].call)
  BY DEF Log, ResultsAnswerCalls
<1>4. p \in 1..Len(transcript[c])
  BY <1>2
<1>5. transcript'[c][p] = transcript[c][p]
  BY <1>4 DEF Wrote, Appended
<1>6. Answers(c, q, p, transcript[c][q].call)'
  BY <1>1, <1>3, <1>5 DEF Answers
<1>7. ASSUME NEW o \in 1..Len(transcript'[c]), Answers(c, o, q, transcript[c][q].call)'
      PROVE  o = q
  <2>1. CASE o \in 1..Len(transcript[c])
    <3>1. transcript'[c][o] = transcript[c][o]
      BY <2>1, OldEntry
    <3>2. Answers(c, o, q, transcript[c][q].call)
      BY <1>1, <1>7, <3>1 DEF Answers
    <3>3. QED
      BY <2>1, <3>2 DEF Log, ResultsAnswerCalls
  <2>2. CASE o \notin 1..Len(transcript[c])
    <3>1. PICK k \in 1..Len(es) : transcript'[c][o] = es[k]
      BY <1>0, <2>2
    <3>2. es[k].role = "tool" /\ es[k].run = r
          /\ transcript[c][q].run = es[k].run /\ transcript[c][q].turn = es[k].turn
      BY <1>1, <1>7, <3>1 DEF Answers, Wrote
    <3>3. transcript[c][q].run = r /\ pc[r] = "tools" /\ transcript[c][q].turn = loop[r]
      BY <3>2
    <3>4. Fits(transcript[c][q], c)
      BY DEF Log, Placed, OfLoop
    <3>5. QED
      BY <3>3, <3>4 DEF Fits
  <2>3. QED
    BY <2>1, <2>2
<1>8. QED
  BY <1>1, <1>3, <1>5, <1>6, <1>7

\* A step that writes no results.
LEMMA LogQuiet ==
    ASSUME Sane, Log, NEW r \in Runs, NEW d \in Chats, NEW es, Wrote(r, d, es), pc[r] # "tools",
           Placed', AskedNow', \A k \in 1..Len(es) : es[k].role # "tool",
           \A k \in 1..Len(es) : es[k].role = "assistant" =>
              es[k].calls = 0 \/ (pc'[r] = "tools" /\ loop'[r] = es[k].turn)
    PROVE  Log'
<1>1. CallsAnswered'
  <2> SUFFICES ASSUME NEW c \in Chats, NEW p \in 1..Len(transcript'[c]),
                      transcript'[c][p].role = "assistant"
               PROVE  \/ \A k \in 1..transcript'[c][p].calls :
                            \E q \in (p + 1)..Len(transcript'[c]) : Answers(c, q, p, k)'
                      \/ /\ pc'[transcript'[c][p].run] = "tools"
                         /\ chatOf'[transcript'[c][p].run] = c
                         /\ loop'[transcript'[c][p].run] = transcript'[c][p].turn
    BY DEF CallsAnswered
  <2>1. CASE p \in 1..Len(transcript[c])
    <3>1. transcript'[c][p] = transcript[c][p]
      BY <2>1 DEF Wrote, Appended
    <3>2. QED
      BY <2>1, <3>1, StillSettled
  <2>2. CASE p \notin 1..Len(transcript[c])
    <3>1. PICK k \in 1..Len(es) : c = d /\ transcript'[c][p] = es[k]
      BY <2>2 DEF Wrote, Appended
    <3>2. es[k].run = r /\ chatOf'[r] = d
      BY DEF Wrote
    <3>3. QED
      BY <3>1, <3>2
  <2>3. QED
    BY <2>1, <2>2
<1>2. ResultsAnswerCalls'
  <2> SUFFICES ASSUME NEW c \in Chats, NEW q \in 1..Len(transcript'[c]),
                      transcript'[c][q].role = "tool"
               PROVE  /\ \E p \in 1..(q - 1) :
                            /\ transcript'[c][p].role = "assistant"
                            /\ transcript'[c][p].calls >= transcript'[c][q].call
                            /\ Answers(c, q, p, transcript[c][q].call)'
                      /\ \A o \in 1..Len(transcript'[c]) :
                            Answers(c, o, q, transcript[c][q].call)' => o = q
    BY DEF ResultsAnswerCalls
  <2>1. q \in 1..Len(transcript[c])
    <3>1. \A k \in 1..Len(es) : transcript'[c][q] # es[k]
      OBVIOUS
    <3>2. QED
      BY <3>1 DEF Wrote, Appended
  <2>2. transcript'[c][q] = transcript[c][q]
    BY <2>1 DEF Wrote, Appended
  <2>3. /\ \E p \in 1..(q - 1) :
              /\ transcript'[c][p].role = "assistant"
              /\ transcript'[c][p].calls >= transcript'[c][q].call
              /\ Answers(c, q, p, transcript[c][q].call)'
        /\ \A o \in 1..Len(transcript'[c]) : Answers(c, o, q, transcript[c][q].call)' => o = q
    BY <2>1, <2>2, StillCalled
  <2>4. QED
    BY <2>3
<1>3. QED
  BY <1>1, <1>2 DEF Log

LEMMA ResultsShape ==
    ASSUME Sane, NEW r \in Runs, NEW oks \in [1..calls[r] -> BOOLEAN]
    PROVE  /\ ResultEntries(r, oks) \in Seq(Entry)
           /\ calls[r] \in Nat /\ Len(ResultEntries(r, oks)) = calls[r]
           /\ \A k \in 1..calls[r] :
                 /\ ResultEntries(r, oks)[k].role = "tool"
                 /\ ResultEntries(r, oks)[k].run = r
                 /\ ResultEntries(r, oks)[k].turn = loop[r]
                 /\ ResultEntries(r, oks)[k].call = k
<1>1. ResultEntries(r, oks) \in Seq(Entry)
  BY ResultEntriesType DEF Sane
<1>2. calls[r] \in Nat
  BY DEF Sane, TypeOK
<1>3. Len(ResultEntries(r, oks)) = calls[r]
  BY <1>2 DEF ResultEntries
<1>4. QED
  BY <1>1, <1>2, <1>3 DEF ResultEntries

\* The results of a round close the round of their run, and no other.
LEMMA LogResults ==
    ASSUME Sane, Log, NEW r \in Runs, NEW d \in Chats, NEW es, Wrote(r, d, es),
           pc[r] = "tools", chatOf[r] = d, calls[r] \in Nat, Len(es) = calls[r],
           \A k \in 1..calls[r] : /\ es[k].role = "tool" /\ es[k].run = r
                                  /\ es[k].turn = loop[r] /\ es[k].call = k,
           Placed', AskedNow'
    PROVE  Log'
<1> DEFINE n == Len(transcript[d])
<1>1. n \in Nat
  BY DEF Sane, TypeOK
<1>2. \A k \in 1..calls[r] : n + k \in 1..Len(transcript'[d]) /\ transcript'[d][n + k] = es[k]
  BY DEF Wrote, Appended
<1>3. ASSUME NEW c \in Chats, NEW p \in 1..Len(transcript'[c]), p \notin 1..Len(transcript[c])
      PROVE  c = d /\ \E k \in 1..calls[r] : p = n + k /\ transcript'[c][p] = es[k]
  <2>1. \A b \in Chats : \A o \in 1..Len(transcript'[b]) :
           \/ o \in 1..Len(transcript[b])
           \/ b = d /\ \E k \in 1..Len(es) :
                 o = Len(transcript[d]) + k /\ transcript'[d][o] = es[k]
    BY DEF Wrote, Appended
  <2>2. QED
    BY <1>3, <2>1
<1> HIDE DEF n
<1>4. CallsAnswered'
  <2> SUFFICES ASSUME NEW c \in Chats, NEW p \in 1..Len(transcript'[c]),
                      transcript'[c][p].role = "assistant"
               PROVE  \/ \A k \in 1..transcript'[c][p].calls :
                            \E q \in (p + 1)..Len(transcript'[c]) : Answers(c, q, p, k)'
                      \/ /\ pc'[transcript'[c][p].run] = "tools"
                         /\ chatOf'[transcript'[c][p].run] = c
                         /\ loop'[transcript'[c][p].run] = transcript'[c][p].turn
    BY DEF CallsAnswered
  <2>1. p \in 1..Len(transcript[c])
    BY <1>3
  <2>2. transcript'[c][p] = transcript[c][p]
    BY <2>1, OldEntry
  <2>3. CASE transcript[c][p].run = r /\ transcript[c][p].turn = loop[r]
    <3>1. Fits(transcript[c][p], c)
      BY <2>1, <2>2 DEF Log, Placed, OfLoop
    <3>2. c = d /\ transcript[c][p].calls = calls[r]
      BY <2>3, <3>1 DEF Fits
    <3>3. ASSUME NEW k \in 1..calls[r]
          PROVE  \E q \in (p + 1)..Len(transcript'[c]) : Answers(c, q, p, k)'
      <4>1. /\ n + k \in 1..Len(transcript'[d]) /\ n + k \in Nat /\ n + k > p
            /\ transcript'[d][n + k] = es[k]
        <5>1. /\ n + k \in 1..Len(transcript'[d]) /\ transcript'[d][n + k] = es[k]
          BY <1>2
        <5>2. p \in 1..n
          BY <2>1, <3>2 DEF n
        <5>3. QED
          BY <1>1, <5>1, <5>2
      <4>2. PICK q : q = n + k
        OBVIOUS
      <4>3. q \in (p + 1)..Len(transcript'[c])
        BY <2>1, <3>2, <4>1, <4>2
      <4>4. Answers(c, q, p, k)'
        BY <2>2, <2>3, <3>2, <4>1, <4>2 DEF Answers
      <4>5. QED
        BY <4>3, <4>4
    <3>4. QED
      BY <2>2, <3>2, <3>3
  <2>4. CASE transcript[c][p].run # r \/ transcript[c][p].turn # loop[r]
    BY <2>1, <2>2, <2>4, StillSettled
  <2>5. QED
    BY <2>3, <2>4
<1>5. ResultsAnswerCalls'
  <2> SUFFICES ASSUME NEW c \in Chats, NEW q \in 1..Len(transcript'[c]),
                      transcript'[c][q].role = "tool"
               PROVE  /\ \E p \in 1..(q - 1) :
                            /\ transcript'[c][p].role = "assistant"
                            /\ transcript'[c][p].calls >= transcript'[c][q].call
                            /\ Answers(c, q, p, transcript[c][q].call)'
                      /\ \A o \in 1..Len(transcript'[c]) :
                            Answers(c, o, q, transcript[c][q].call)' => o = q
    BY DEF ResultsAnswerCalls
  <2>1. CASE q \in 1..Len(transcript[c])
    <3>1. transcript'[c][q] = transcript[c][q]
      BY <2>1, OldEntry
    <3>2. /\ \E p \in 1..(q - 1) :
                /\ transcript'[c][p].role = "assistant"
                /\ transcript'[c][p].calls >= transcript'[c][q].call
                /\ Answers(c, q, p, transcript[c][q].call)'
          /\ \A o \in 1..Len(transcript'[c]) :
                Answers(c, o, q, transcript[c][q].call)' => o = q
      BY <2>1, <3>1, StillCalled
    <3>3. QED
      BY <3>2
  <2>2. CASE q \notin 1..Len(transcript[c])
    <3>1. PICK k \in 1..calls[r] : c = d /\ q = n + k /\ transcript'[c][q] = es[k]
      BY <1>3, <2>2
    <3>2. PICK p \in 1..Len(transcript[d]) : Asks(transcript[d][p], r)
      BY DEF Log, AskedNow
    <3>3. p \in 1..(q - 1) /\ transcript'[d][p] = transcript[d][p]
      BY <1>1, <3>1, <3>2, OldEntry DEF n
    <3>4. /\ transcript'[c][p].role = "assistant"
          /\ transcript'[c][p].calls >= transcript'[c][q].call
          /\ Answers(c, q, p, transcript[c][q].call)'
      BY <3>1, <3>2, <3>3 DEF Asks, Answers
    <3>5. ASSUME NEW o \in 1..Len(transcript'[c]), Answers(c, o, q, transcript[c][q].call)'
          PROVE  o = q
      <4>1. CASE o \in 1..Len(transcript[c])
        <5>1. /\ transcript'[c][o] = transcript[c][o]
              /\ transcript[c][o].role = "tool" /\ transcript[c][o].run = r
              /\ transcript[c][o].turn = loop[r]
          BY <3>1, <3>5, <4>1, OldEntry DEF Answers
        <5>2. Fits(transcript[c][o], c)
          BY <4>1, <5>1 DEF Log, Placed, OfLoop
        <5>3. QED
          BY <5>1, <5>2 DEF Fits
      <4>2. CASE o \notin 1..Len(transcript[c])
        <5>1. PICK j \in 1..calls[r] : o = n + j /\ transcript'[c][o] = es[j]
          BY <1>3, <4>2
        <5>2. j = k
          BY <3>1, <3>5, <5>1 DEF Answers
        <5>3. QED
          BY <3>1, <5>1, <5>2
      <4>3. QED
        BY <4>1, <4>2
    <3>6. QED
      BY <3>3, <3>4, <3>5
  <2>3. QED
    BY <2>1, <2>2
<1>6. QED
  BY <1>4, <1>5 DEF Log

-----------------------------------------------------------------------------
(* The steps.                                                              *)

\* The entries of a run that goes on still fit it.
LEMMA StillFits ==
    ASSUME Sane, NEW r \in Runs, NEW d \in Chats, NEW e \in Entry,
           OfLoop(e), e.run = r, Fits(e, d), chatOf'[r] = chatOf[r],
           \/ loop'[r] = loop[r] /\ pc'[r] \in Ended
           \/ loop'[r] = loop[r] + 1 /\ pc'[r] = "reply"
           \/ loop'[r] = loop[r] /\ pc[r] = "reply" /\ pc'[r] = "tools"
    PROVE  Fits(e, d)'
<1>1. e.turn \in Nat /\ loop[r] \in Nat
  BY DEF Entry, OfLoop, Sane, TypeOK
<1>2. e.turn <= loop[r] /\ (pc[r] = "reply" => e.turn # loop[r]) /\ chatOf[r] = d
  BY DEF Fits
<1>3. CASE loop'[r] = loop[r] /\ pc'[r] \in Ended
  BY <1>2, <1>3 DEF Fits, Early, Ended
<1>4. CASE loop'[r] = loop[r] + 1 /\ pc'[r] = "reply"
  BY <1>1, <1>2, <1>4 DEF Fits, Early
<1>5. CASE loop'[r] = loop[r] /\ pc[r] = "reply" /\ pc'[r] = "tools"
  BY <1>2, <1>5 DEF Fits, Early
<1>6. QED
  BY <1>3, <1>4, <1>5

\* A step that pushes nothing and moves one run that executes no tools.
LEMMA LogNoPush ==
    ASSUME Sane, Log, NEW r \in Runs, UNCHANGED <<transcript, chatOf, calls>>,
           pc[r] # "tools", pc'[r] # "tools",
           \A s \in Runs \ {r} : pc'[s] = pc[s] /\ loop'[s] = loop[s],
           \/ pc[r] \in Early
           \/ loop'[r] = loop[r] /\ pc'[r] \in Ended
    PROVE  Log'
<1>1. chatOf[r] \in Chats /\ <<>> \in Seq(Entry)
  BY DEF Sane, TypeOK
<1>2. PICK d \in Chats : d = chatOf[r]
  BY <1>1
<1>3. Wrote(r, d, <<>>)
  BY <1>1, <1>2, NothingAppended DEF Wrote
<1>4. \A e \in Entry : OfLoop(e) /\ e.run = r /\ Fits(e, d) => Fits(e, d)'
  <2> SUFFICES ASSUME NEW e \in Entry, OfLoop(e), e.run = r, Fits(e, d) PROVE Fits(e, d)'
    OBVIOUS
  <2>1. pc[r] \notin Early
    BY DEF Fits
  <2>2. QED
    BY <2>1, StillFits
<1>5. Placed'
  BY <1>3, <1>4, StillPlaced
<1>6. AskedNow'
  BY <1>3, StillAsked
<1>7. QED
  BY <1>3, <1>5, <1>6, LogQuiet

\* A step that touches neither the transcripts nor the runs.
LEMMA LogUntouched ==
    ASSUME Log, UNCHANGED <<transcript, runVars>>
    PROVE  Log'
<1>1. UNCHANGED <<transcript, pc, chatOf, loop, calls>>
  BY DEF runVars
<1>2. Placed' /\ AskedNow'
  BY <1>1 DEF Log, Placed, AskedNow, Fits, Asks, OfLoop
<1>3. CallsAnswered' /\ ResultsAnswerCalls'
  BY <1>1 DEF Log, CallsAnswered, ResultsAnswerCalls, Answers
<1>4. QED
  BY <1>2, <1>3 DEF Log

LEMMA LogHandleSend ==
    ASSUME Sane, Log, HandleSend
    PROVE  Log'
<1>1. PICK r \in Runs : r = Head(toHost).run /\ pc[r] = "sent"
  BY SentRun
<1>2. /\ Push(current, <<UserEntry(r)>>)
      /\ chatOf' = [chatOf EXCEPT ![r] = current]
      /\ pc' = [pc EXCEPT ![r] = "context"]
      /\ UNCHANGED <<loop, calls>>
  BY <1>1 DEF HandleSend
<1>3. PICK d \in Chats : d = current
  BY DEF Sane, TypeOK
<1>4. PICK es : es = <<UserEntry(r)>>
  OBVIOUS
<1>5. es \in Seq(Entry) /\ Len(es) = 1 /\ es[1].run = r /\ es[1].role = "user"
  <2>1. <<UserEntry(r)>> \in Seq(Entry)
    <3>1. 0 \in 0..MaxCalls
      BY BoundsAssumption
    <3>2. QED
      BY <3>1, AnswerType DEF Sane
  <2>2. QED
    BY <1>4, <2>1 DEF UserEntry
<1>6. Appended(d, es)
  BY <1>2, <1>3, <1>4, <1>5, PushAppends
<1>7. Wrote(r, d, es)
  BY <1>1, <1>2, <1>3, <1>5, <1>6 DEF Wrote, Early, Sane, TypeOK
<1>8. pc'[r] = "context"
  BY <1>2 DEF Sane, TypeOK
<1>9. Placed'
  <2>1. \A e \in Entry : OfLoop(e) /\ e.run = r /\ Fits(e, d) => Fits(e, d)'
    BY <1>1 DEF Fits, Early
  <2>2. \A k \in 1..Len(es) : OfLoop(es[k]) => Fits(es[k], d)'
    BY <1>5 DEF OfLoop
  <2>3. QED
    BY <1>7, <2>1, <2>2, StillPlaced
<1>10. AskedNow'
  BY <1>7, <1>8, StillAsked
<1>11. QED
  BY <1>1, <1>5, <1>7, <1>9, <1>10, LogQuiet

\* What a run pushes goes to the array it was given.
LEMMA RunWrote ==
    ASSUME Sane, NEW r \in Runs, NEW d \in Chats, d = chatOf[r],
           NEW es \in Seq(Entry), \A k \in 1..Len(es) : es[k].run = r,
           Push(d, es), UNCHANGED chatOf, pc[r] \notin Early,
           \A s \in Runs \ {r} : pc'[s] = pc[s] /\ loop'[s] = loop[s] /\ calls'[s] = calls[s]
    PROVE  Wrote(r, d, es)
  BY PushAppends DEF Wrote

LEMMA LogAnswerWithCalls ==
    ASSUME Sane, Log, NEW r \in Runs, AnswerWithCalls(r)
    PROVE  Log'
<1>1. PICK n \in 1..MaxCalls :
         /\ Answered(r, n)
         /\ Push(chatOf[r], <<AnswerEntry(r, n)>>)
         /\ pc' = [pc EXCEPT ![r] = "tools"]
         /\ UNCHANGED <<chatOf, loop>>
  BY DEF AnswerWithCalls
<1>2. PICK d \in Chats : d = chatOf[r]
  BY DEF Sane, TypeOK
<1>3. PICK es : es = <<AnswerEntry(r, n)>>
  OBVIOUS
<1>4. /\ es \in Seq(Entry) /\ Len(es) = 1 /\ es[1].run = r /\ es[1].role = "assistant"
      /\ es[1].turn = loop[r] /\ es[1].calls = n
  <2>1. <<AnswerEntry(r, n)>> \in Seq(Entry)
    BY AnswerType DEF Sane
  <2>2. QED
    BY <1>3, <2>1 DEF AnswerEntry
<1>5. /\ pc[r] = "reply" /\ pc'[r] = "tools" /\ calls'[r] = n /\ loop'[r] = loop[r]
      /\ chatOf'[r] = d /\ loop[r] \in Nat
      /\ \A s \in Runs \ {r} : pc'[s] = pc[s] /\ loop'[s] = loop[s] /\ calls'[s] = calls[s]
  BY <1>1, <1>2 DEF Answered, Sane, TypeOK
<1>6. Wrote(r, d, es)
  <2>1. \A k \in 1..Len(es) : es[k].run = r
    BY <1>4
  <2>2. Push(d, es) /\ UNCHANGED chatOf /\ pc[r] \notin Early
    BY <1>1, <1>2, <1>3, <1>5 DEF Early
  <2>3. QED
    BY <1>2, <1>4, <1>5, <2>1, <2>2, RunWrote
<1>7. Placed'
  <2>1. \A e \in Entry : OfLoop(e) /\ e.run = r /\ Fits(e, d) => Fits(e, d)'
    BY <1>1, <1>5, StillFits
  <2>2. \A k \in 1..Len(es) : OfLoop(es[k]) => Fits(es[k], d)'
    <3>1. Fits(es[1], d)'
      BY <1>4, <1>5 DEF Fits, Early
    <3>2. QED
      BY <1>4, <3>1
  <2>3. QED
    BY <1>6, <2>1, <2>2, StillPlaced
<1>8. AskedNow'
  <2>1. Asks(es[1], r)'
    BY <1>4, <1>5 DEF Asks
  <2>2. \E k \in 1..Len(es) : Asks(es[k], r)'
    BY <1>4, <2>1
  <2>3. QED
    BY <1>6, <2>2, StillAsked
<1>9. QED
  BY <1>4, <1>5, <1>6, <1>7, <1>8, LogQuiet

\* An answer without calls, with or without the warning.
LEMMA LogAnswerAlone ==
    ASSUME Sane, Log, NEW r \in Runs,
           NEW es \in {<<AnswerEntry(r, 0)>>, <<AnswerEntry(r, 0), WarningEntry(r)>>},
           pc[r] = "reply", Push(chatOf[r], es), UNCHANGED chatOf,
           \/ loop'[r] = loop[r] /\ pc'[r] \in Ended
           \/ loop'[r] = loop[r] + 1 /\ pc'[r] = "reply",
           \A s \in Runs \ {r} : pc'[s] = pc[s] /\ loop'[s] = loop[s] /\ calls'[s] = calls[s]
    PROVE  Log'
<1>1. PICK d \in Chats : d = chatOf[r]
  BY DEF Sane, TypeOK
<1>2. es \in Seq(Entry) /\ loop[r] \in Nat
  <2>1. 0 \in 0..MaxCalls
    BY BoundsAssumption
  <2>2. <<AnswerEntry(r, 0)>> \in Seq(Entry) /\ <<AnswerEntry(r, 0), WarningEntry(r)>> \in Seq(Entry)
    BY <2>1, AnswerType DEF Sane
  <2>3. loop[r] \in Nat
    BY DEF Sane, TypeOK
  <2>4. QED
    BY <2>2, <2>3
<1>3. /\ Len(es) \in Nat
      /\ \A k \in 1..Len(es) :
            /\ es[k].run = r /\ es[k].role # "tool"
            /\ es[k].role = "assistant" => es[k].turn = loop[r] /\ es[k].calls = 0
  <2>1. CASE es = <<AnswerEntry(r, 0)>>
    BY <2>1 DEF AnswerEntry
  <2>2. CASE es = <<AnswerEntry(r, 0), WarningEntry(r)>>
    <3>1. Len(es) = 2 /\ es[1] = AnswerEntry(r, 0) /\ es[2] = WarningEntry(r)
      BY <2>2
    <3>2. \A k \in 1..Len(es) : k = 1 \/ k = 2
      BY <3>1
    <3>3. QED
      BY <3>1, <3>2 DEF AnswerEntry, WarningEntry
  <2>3. QED
    BY <2>1, <2>2
<1>4. Wrote(r, d, es)
  BY <1>1, <1>2, <1>3, RunWrote DEF Early
<1>5. Placed'
  <2>1. \A e \in Entry : OfLoop(e) /\ e.run = r /\ Fits(e, d) => Fits(e, d)'
    BY StillFits
  <2>2. ASSUME NEW k \in 1..Len(es), OfLoop(es[k]) PROVE Fits(es[k], d)'
    <3>1. es[k].run = r /\ es[k].turn = loop[r]
      BY <1>3, <2>2 DEF OfLoop
    <3>2. QED
      BY <1>1, <1>2, <3>1 DEF Fits, Early, Ended
  <2>3. QED
    BY <1>4, <2>1, <2>2, StillPlaced
<1>6. pc'[r] # "tools"
  BY DEF Ended
<1>7. AskedNow'
  BY <1>4, <1>6, StillAsked
<1>8. QED
  BY <1>3, <1>4, <1>5, <1>7, LogQuiet

LEMMA LogToolsFinish ==
    ASSUME Sane, Log, NEW r \in Runs, ToolsFinish(r)
    PROVE  Log'
<1>1. PICK oks \in [1..calls[r] -> BOOLEAN] : Push(chatOf[r], ResultEntries(r, oks))
  BY DEF ToolsFinish
<1>2. PICK d \in Chats : d = chatOf[r]
  BY DEF Sane, TypeOK
<1>3. PICK es : es = ResultEntries(r, oks)
  OBVIOUS
<1>4. /\ es \in Seq(Entry) /\ calls[r] \in Nat /\ Len(es) = calls[r]
      /\ \A k \in 1..calls[r] : /\ es[k].role = "tool" /\ es[k].run = r
                                /\ es[k].turn = loop[r] /\ es[k].call = k
  BY <1>3, ResultsShape
<1>5. pc[r] = "tools" /\ UNCHANGED <<chatOf, calls>> /\ loop[r] \in Nat
  BY DEF ToolsFinish, Sane, TypeOK
<1>6. /\ \/ loop'[r] = loop[r] /\ pc'[r] \in Ended
         \/ loop'[r] = loop[r] + 1 /\ pc'[r] = "reply"
      /\ \A s \in Runs \ {r} : pc'[s] = pc[s] /\ loop'[s] = loop[s]
  <2>1. CASE Fetch(r)
    BY <2>1 DEF Fetch, Sane, TypeOK
  <2>2. CASE Finish(r, "finished")
    BY <2>2 DEF Finish, Ended, Sane, TypeOK
  <2>3. QED
    BY <2>1, <2>2 DEF ToolsFinish
<1>7. Wrote(r, d, es)
  BY <1>1, <1>2, <1>3, <1>4, <1>5, <1>6, RunWrote DEF Early
<1>8. Placed'
  <2>1. \A e \in Entry : OfLoop(e) /\ e.run = r /\ Fits(e, d) => Fits(e, d)'
    BY <1>5, <1>6, StillFits
  <2>2. ASSUME NEW k \in 1..Len(es) PROVE Fits(es[k], d)'
    <3>1. es[k].run = r /\ es[k].turn = loop[r]
      BY <1>4
    <3>2. QED
      BY <1>2, <1>5, <1>6, <3>1 DEF Fits, Early, Ended
  <2>3. QED
    BY <1>7, <2>1, <2>2, StillPlaced
<1>9. pc'[r] # "tools"
  BY <1>6 DEF Ended
<1>10. AskedNow'
  BY <1>7, <1>9, StillAsked
<1>11. QED
  BY <1>2, <1>4, <1>5, <1>7, <1>8, <1>10, LogResults

LEMMA LogAdvance ==
    ASSUME Sane, Log, NEW r \in Runs, Advance(r)
    PROVE  Log'
<1>1. CASE ContextReady(r)
  <2>1. /\ UNCHANGED <<transcript, chatOf, calls>> /\ pc[r] = "context" /\ pc'[r] = "reply"
        /\ \A s \in Runs \ {r} : pc'[s] = pc[s] /\ loop'[s] = loop[s]
    BY <1>1 DEF ContextReady, Fetch, Sane, TypeOK
  <2>2. QED
    BY <2>1, LogNoPush DEF Early
<1>2. CASE Fails(r) \/ Aborts(r)
  <2>1. /\ UNCHANGED <<transcript, chatOf, calls, loop>>
        /\ pc[r] \in {"context", "reply"} /\ pc'[r] \in Ended
        /\ \A s \in Runs \ {r} : pc'[s] = pc[s]
    BY <1>2 DEF Fails, Aborts, Finish, Ended, Sane, TypeOK
  <2>2. pc[r] # "tools" /\ pc'[r] # "tools"
    BY <2>1 DEF Ended
  <2>3. QED
    BY <2>1, <2>2, LogNoPush
<1>3. CASE AnswerWithCalls(r)
  BY <1>3, LogAnswerWithCalls
<1>4. CASE AnswerRetried(r)
  <2>1. /\ pc[r] = "reply" /\ Push(chatOf[r], <<AnswerEntry(r, 0), WarningEntry(r)>>)
        /\ UNCHANGED chatOf /\ loop'[r] = loop[r] + 1 /\ pc'[r] = "reply"
        /\ \A s \in Runs \ {r} : pc'[s] = pc[s] /\ loop'[s] = loop[s] /\ calls'[s] = calls[s]
    BY <1>4 DEF AnswerRetried, Answered, Fetch, Sane, TypeOK
  <2>2. QED
    BY <2>1, LogAnswerAlone
<1>5. CASE AnswerFinal(r)
  <2>1. /\ pc[r] = "reply" /\ Push(chatOf[r], <<AnswerEntry(r, 0)>>)
        /\ UNCHANGED chatOf /\ loop'[r] = loop[r] /\ pc'[r] \in Ended
        /\ \A s \in Runs \ {r} : pc'[s] = pc[s] /\ loop'[s] = loop[s] /\ calls'[s] = calls[s]
    BY <1>5 DEF AnswerFinal, Answered, Finish, Ended, Sane, TypeOK
  <2>2. QED
    BY <2>1, LogAnswerAlone
<1>6. CASE ToolsFinish(r)
  BY <1>6, LogToolsFinish
<1>7. QED
  BY <1>1, <1>2, <1>3, <1>4, <1>5, <1>6 DEF Advance, Proceed

LEMMA LogStep ==
    ASSUME Sane, Log, [Next]_vars
    PROVE  Log'
<1>1. ASSUME NEW r \in Runs, ClickSend(r) PROVE Log'
  <2>1. /\ UNCHANGED <<transcript, chatOf, calls, loop>>
        /\ pc[r] = "unsent" /\ pc'[r] = "sent"
        /\ \A s \in Runs \ {r} : pc'[s] = pc[s]
    BY <1>1 DEF ClickSend, Sane, TypeOK
  <2>2. QED
    BY <2>1, LogNoPush DEF Early
<1>2. ASSUME NEW r \in Runs, Advance(r) PROVE Log'
  BY <1>2, LogAdvance
<1>3. CASE \/ \E c \in Chats : ClickNewChat(c)
           \/ ClickStop \/ ViewReceive \/ HandleNewChat \/ HandleStop \/ UNCHANGED vars
  <2>1. UNCHANGED <<transcript, runVars>>
    BY <1>3 DEF ClickNewChat, ClickStop, ViewReceive, HandleNewChat, HandleStop, vars
  <2>2. QED
    BY <2>1, LogUntouched
<1>4. CASE HandleSend
  BY <1>4, LogHandleSend
<1>5. QED
  BY <1>1, <1>2, <1>3, <1>4 DEF Next, Handle

LEMMA AlwaysLog == Spec => []Log
<1>1. Init => Sane /\ Log
  BY SaneInit, LogInit
<1>2. Sane /\ Log /\ [Next]_vars => (Sane /\ Log)'
  BY SaneStep, LogStep
<1>3. QED
  BY <1>1, <1>2, PTL DEF Spec

\* However many runs push to however many arrays, and whatever newChat does
\* meanwhile, no call of the model stays without a result once its run has
\* left the round (extension.ts:545-605).
THEOREM EveryCallAnswered == Spec => []CallsAnswered
<1>1. Log => CallsAnswered
  BY DEF Log
<1>2. QED
  BY <1>1, AlwaysLog, PTL

\* Every result follows the answer that asked for it, in the same array, and
\* no call has two results (extension.ts:590-605).
THEOREM EveryResultAsked == Spec => []ResultsAnswerCalls
<1>1. Log => ResultsAnswerCalls
  BY DEF Log
<1>2. QED
  BY <1>1, AlwaysLog, PTL
=============================================================================
