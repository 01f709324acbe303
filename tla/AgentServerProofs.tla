-------------------------- MODULE AgentServerProofs --------------------------
(***************************************************************************)
(* The invariants of AgentServer, for every number of requests, of rounds  *)
(* and of calls in an answer.                                              *)
(*                                                                         *)
(* The stream of a request is built from answers; Running, Piece and       *)
(* Complete say what it looks like while the request is open, what one     *)
(* answer adds to it, and what it looks like at the end.                   *)
(***************************************************************************)
EXTENDS AgentServer, SubsequenceProofs

Running(s) == \A p \in 1..Len(s) :
                 s[p].type \notin {"done", "error", "approval_required"}

Piece(s, isDone) == \A p \in 1..Len(s) :
                       /\ s[p].type \notin {"done", "error"}
                       /\ s[p].type = "approval_required" => isDone /\ p = Len(s)

Complete(s) == /\ s # <<>>
               /\ \A p \in 1..Len(s) :
                     /\ s[p].type \in {"done", "error"} <=> p = Len(s)
                     /\ s[p].type = "approval_required" =>
                           p + 1 = Len(s) /\ s[p + 1].type = "done"

-----------------------------------------------------------------------------
(* The inductive invariant.                                                *)

\* A request starts with nothing said, run or written.
Fresh == \A r \in Requests :
            /\ phase[r] = "idle" => /\ asked[r] = {} /\ answered[r] = {}
                                    /\ stream[r] = <<>> /\ ran[r] = {}
            /\ phase[r] # "idle" => round[r] # 0

Streams == \A r \in Requests : IF phase[r] = "ended" THEN Complete(stream[r])
                                                    ELSE Running(stream[r])

\* What is counted is what the request has run, as long as it is alone.
Counted == \A r \in Open : ~overlapped[r] => Open = {r} /\ sessionStats = ran[r]

Reported == \A r \in Requests :
               LET last == stream[r][Len(stream[r])] IN
               phase[r] = "ended" /\ ~overlapped[r] /\ last.type = "done" =>
                  last.stats = ran[r]

IInv == TypeOK /\ Fresh /\ CallsSettled /\ Streams /\ Counted /\ Reported

-----------------------------------------------------------------------------
(* Streams.                                                                *)

LEMMA DoneIsEvent ==
    ASSUME NEW c \in SUBSET Call
    PROVE  [type |-> "done", stats |-> c] \in Event
BY DEF Event

LEMMA ErrorIsEvent == [type |-> "error"] \in Event
BY DEF Event

LEMMA StaysRunning ==
    ASSUME NEW S, NEW s \in Seq(S), NEW e \in Seq(S), Running(s), Piece(e, FALSE)
    PROVE  Running(s \o e)
<1> SUFFICES ASSUME NEW p \in 1..Len(s \o e)
             PROVE  (s \o e)[p].type \notin {"done", "error", "approval_required"}
  BY DEF Running
<1>1. /\ Len(s \o e) = Len(s) + Len(e) /\ Len(s) \in Nat /\ Len(e) \in Nat
      /\ (s \o e)[p] = IF p <= Len(s) THEN s[p] ELSE e[p - Len(s)]
  BY ConcatProperties
<1>2. CASE p <= Len(s)
  BY <1>1, <1>2 DEF Running
<1>3. CASE ~(p <= Len(s))
  <2>1. p - Len(s) \in 1..Len(e)
    BY <1>1, <1>3
  <2> QED
    BY <1>1, <1>3, <2>1 DEF Piece
<1> QED
  BY <1>2, <1>3

LEMMA Completes ==
    ASSUME NEW S, NEW s \in Seq(S), NEW e \in Seq(S), NEW f \in S, NEW isDone,
           Running(s), Piece(e, isDone), f.type = "done"
    PROVE  /\ Complete(s \o e \o <<f>>)
           /\ (s \o e \o <<f>>)[Len(s \o e \o <<f>>)] = f
<1> DEFINE t == s \o e \o <<f>>
<1>0. Len(s) \in Nat /\ Len(e) \in Nat /\ Len(t) = Len(s) + Len(e) + 1
  BY ConcatProperties
<1>1. /\ t[Len(s) + Len(e) + 1] = f
      /\ \A p \in 1..Len(s) : t[p] = s[p]
      /\ \A p \in 1..Len(e) : t[Len(s) + p] = e[p]
  BY ConcatProperties
<1> HIDE DEF t
<1>2. t # <<>>
  BY <1>0
<1>3. ASSUME NEW p \in 1..Len(t)
      PROVE  /\ t[p].type \in {"done", "error"} <=> p = Len(t)
             /\ t[p].type = "approval_required" => p + 1 = Len(t) /\ t[p + 1].type = "done"
  <2>1. CASE p <= Len(s)
    <3>1. p \in 1..Len(s) /\ p # Len(t)
      BY <1>0, <2>1
    <3>2. t[p] = s[p]
      BY <1>1, <3>1
    <3> QED
      BY <3>1, <3>2 DEF Running
  <2>2. CASE p = Len(s) + Len(e) + 1
    BY <1>0, <1>1, <2>2
  <2>3. CASE ~(p <= Len(s)) /\ p # Len(s) + Len(e) + 1
    <3>1. PICK k \in 1..Len(e) : p = Len(s) + k
      <4>1. p \in Nat /\ Len(s) < p /\ p <= Len(s) + Len(e)
        BY <1>0, <2>3
      <4>2. p - Len(s) \in 1..Len(e) /\ p = Len(s) + (p - Len(s))
        BY <1>0, <4>1
      <4> QED
        BY <4>2
    <3>2. /\ e[k].type \notin {"done", "error"}
          /\ e[k].type = "approval_required" => k = Len(e)
      BY DEF Piece
    <3>3. t[p] = e[k]
      BY <1>1, <3>1
    <3>4. p # Len(t) /\ (k = Len(e) => p + 1 = Len(t))
      BY <1>0, <2>3, <3>1
    <3>5. k = Len(e) => t[p + 1].type = "done"
      BY <1>0, <1>1, <3>4
    <3> QED
      BY <3>2, <3>3, <3>4, <3>5
  <2> QED
    BY <2>1, <2>2, <2>3
<1>4. Complete(t) /\ t[Len(t)] = f
  BY <1>0, <1>1, <1>2, <1>3 DEF Complete
<1> QED
  BY <1>4 DEF t

LEMMA CompletesWithError ==
    ASSUME NEW S, NEW s \in Seq(S), NEW f \in S, Running(s), f.type = "error"
    PROVE  /\ Complete(s \o <<f>>)
           /\ (s \o <<f>>)[Len(s \o <<f>>)] = f
<1> DEFINE t == s \o <<f>>
<1>1. /\ Len(s) \in Nat /\ Len(t) = Len(s) + 1 /\ t[Len(s) + 1] = f
      /\ \A p \in 1..Len(s) : t[p] = s[p]
  BY ConcatProperties
<1> HIDE DEF t
<1>2. t # <<>>
  BY <1>1
<1>3. ASSUME NEW p \in 1..Len(t)
      PROVE  /\ t[p].type \in {"done", "error"} <=> p = Len(t)
             /\ t[p].type # "approval_required"
  BY <1>1 DEF Running
<1>4. Complete(t) /\ t[Len(t)] = f
  BY <1>1, <1>2, <1>3 DEF Complete
<1> QED
  BY <1>4 DEF t

-----------------------------------------------------------------------------
(* The calls of an answer.                                                 *)

LEMMA CallsType ==
    ASSUME TypeOK, Fresh, NEW r \in Requests, phase[r] # "idle",
           NEW n \in 1..MaxCalls, NEW kinds \in [1..n -> Kinds]
    PROVE  Calls(r, kinds) \in Seq(Call) /\ Len(Calls(r, kinds)) = n
<1>1. MaxCalls \in Nat /\ n \in Nat /\ n <= MaxCalls
  BY ServerAssumption
<1>2. round[r] \in 1..MaxRounds
  BY ServerAssumption DEF TypeOK, Fresh
<1>3. ASSUME NEW k \in 1..n
      PROVE  [req |-> r, round |-> round[r], pos |-> k, kind |-> kinds[k]] \in Call
  <2>1. k \in 1..MaxCalls /\ kinds[k] \in Kinds
    BY <1>1
  <2> QED
    BY <1>2, <2>1 DEF Call
<1>4. Calls(r, kinds) \in [1..n -> Call]
  BY <1>3 DEF Calls
<1> QED
  BY <1>1, <1>4

LEMMA SetOfType ==
    ASSUME NEW cs \in Seq(Call)
    PROVE  SetOf(cs) \in SUBSET Call
BY DEF SetOf

LEMMA ExecutedType ==
    ASSUME NEW cs \in Seq(Call)
    PROVE  Executed(cs) \in Seq(Call)
<1>1. {k \in BeforeStop(cs) : cs[k].kind = "tool"} \in SUBSET (1..Len(cs))
  BY DEF BeforeStop
<1> QED
  BY <1>1, KeptSequence DEF Executed

\* A batch of calls is cut short only by a command or by a call that throws.
LEMMA NoStops ==
    ASSUME NEW cs \in Seq(Call), ~Halts(cs), ~Throws(cs)
    PROVE  Stops(cs) = {}
<1> SUFFICES ASSUME Stops(cs) # {} PROVE FALSE
  OBVIOUS
<1>1. Stops(cs) \in SUBSET Nat
  BY DEF Stops
<1>2. PICK k \in Stops(cs) : \A s \in Stops(cs) : k <= s
  BY <1>1, LeastNatural
<1>3. k \in FirstStop(cs) /\ cs[k].kind \in {"runCommand", "null"}
  BY <1>2 DEF FirstStop, Stops
<1> QED
  BY <1>3 DEF Halts, Terminal, Throws

\* Only one of them comes first.
LEMMA OneFirst ==
    ASSUME NEW cs \in Seq(Call), NEW k \in FirstStop(cs), NEW l \in FirstStop(cs)
    PROVE  k = l
<1>1. k <= l /\ l <= k /\ k \in 1..Len(cs) /\ l \in 1..Len(cs)
  BY DEF FirstStop, Stops
<1> QED
  BY <1>1

LEMMA ThrowsFirst ==
    ASSUME NEW cs \in Seq(Call), Throws(cs)
    PROVE  ~Halts(cs)
BY OneFirst DEF Throws, Halts, Terminal

\* With neither, every tool that was called has run.
LEMMA AllExecuted ==
    ASSUME NEW cs \in Seq(Call), Stops(cs) = {},
           NEW k \in 1..Len(cs), cs[k].kind = "tool"
    PROVE  cs[k] \in SetOf(Executed(cs))
<1> DEFINE K == {j \in BeforeStop(cs) : cs[j].kind = "tool"}
<1>1. K \in SUBSET (1..Len(cs)) /\ k \in K
  BY DEF BeforeStop
<1>2. \E m \in 1..Len(Kept(cs, K)) : Kept(cs, K)[m] = cs[k]
  <2> HIDE DEF K
  <2> QED
    BY <1>1, KeptAll
<1>3. Executed(cs) = Kept(cs, K) /\ DOMAIN Kept(cs, K) = 1..Len(Kept(cs, K))
  <2>1. Kept(cs, K) \in Seq(Call)
    <3> HIDE DEF K
    <3> QED
      BY <1>1, KeptSequence
  <2> QED
    BY <2>1 DEF Executed
<1> HIDE DEF K
<1> QED
  BY <1>2, <1>3 DEF SetOf

LEMMA ProposedType ==
    ASSUME NEW cs \in Seq(Call)
    PROVE  /\ Proposed(cs) \in Seq(Call) /\ Len(Proposed(cs)) <= 1
           /\ Len(Proposed(cs)) # 0 => Halts(cs)
<1>1. Terminal(cs) \in SUBSET (1..Len(cs))
  BY DEF Terminal, FirstStop, Stops
<1>2. Proposed(cs) \in Seq(Call) /\ Len(Proposed(cs)) = Cardinality(Terminal(cs))
  BY <1>1, KeptSequence DEF Proposed
<1>3. \A k, l \in Terminal(cs) : k = l
  BY OneFirst DEF Terminal
<1>4. CASE Terminal(cs) = {}
  BY <1>2, <1>4, FS_EmptySet
<1>5. CASE Terminal(cs) # {}
  <2>1. PICK k \in Terminal(cs) : Terminal(cs) = {k}
    BY <1>3, <1>5
  <2>2. Cardinality(Terminal(cs)) = 1
    BY <2>1, FS_Singleton
  <2> QED
    BY <1>2, <1>5, <2>2 DEF Halts
<1> QED
  BY <1>4, <1>5

-----------------------------------------------------------------------------
(* The events of an answer.                                                *)

LEMMA WrittenType ==
    ASSUME NEW type \in {"step", "approval_required"}, NEW cs \in Seq(Call)
    PROVE  /\ Written(type, cs) \in Seq(Event) /\ Len(Written(type, cs)) = Len(cs)
           /\ \A p \in 1..Len(cs) : Written(type, cs)[p].type = type
<1>1. ASSUME NEW k \in 1..Len(cs)
      PROVE  [type |-> type, call |-> cs[k]] \in Event
  <2>1. cs[k] \in Call
    OBVIOUS
  <2> QED
    BY <2>1 DEF Event
<1>2. Written(type, cs) \in [1..Len(cs) -> Event] /\ Len(cs) \in Nat
  BY <1>1 DEF Written
<1>3. \A p \in 1..Len(cs) : Written(type, cs)[p] = [type |-> type, call |-> cs[p]]
  BY DEF Written
<1> QED
  BY <1>2, <1>3

LEMMA ThreeParts ==
    ASSUME NEW S, NEW a \in Seq(S), NEW b \in Seq(S), NEW c \in Seq(S), NEW isDone,
           \A p \in 1..Len(a) : a[p].type = "tool_call",
           \A p \in 1..Len(b) : b[p].type = "step",
           \A p \in 1..Len(c) : c[p].type = "approval_required",
           Len(c) <= 1, Len(c) # 0 => isDone
    PROVE  Piece(a \o b \o c, isDone)
<1> SUFFICES ASSUME NEW p \in 1..Len(a \o b \o c)
             PROVE  LET e == (a \o b \o c)[p] IN
                    /\ e.type \notin {"done", "error"}
                    /\ e.type = "approval_required" => isDone /\ p = Len(a \o b \o c)
  BY DEF Piece
<1>1. /\ a \o b \in Seq(S) /\ Len(a \o b) = Len(a) + Len(b)
      /\ \A q \in 1..Len(a) : (a \o b)[q] = a[q]
      /\ \A q \in 1..Len(b) : (a \o b)[Len(a) + q] = b[q]
  BY ConcatProperties
<1>2. /\ Len(a \o b \o c) = Len(a \o b) + Len(c)
      /\ \A q \in 1..Len(a \o b) : (a \o b \o c)[q] = (a \o b)[q]
      /\ \A q \in 1..Len(c) : (a \o b \o c)[Len(a \o b) + q] = c[q]
  BY <1>1, ConcatProperties
<1>3. PICK k \in Nat, l \in Nat, m \in Nat : k = Len(a) /\ l = Len(b) /\ m = Len(c)
  OBVIOUS
<1>4. p \in 1..(k + l + m)
  BY <1>1, <1>2, <1>3
<1>5. CASE p <= k
  <2>1. p \in 1..k /\ p \in 1..(k + l)
    BY <1>4, <1>5
  <2>2. (a \o b \o c)[p] = a[p]
    BY <1>1, <1>2, <1>3, <2>1
  <2> QED
    BY <1>3, <2>1, <2>2
<1>6. CASE k < p /\ p <= k + l
  <2>1. p - k \in 1..l /\ p \in 1..(k + l) /\ p = k + (p - k)
    BY <1>4, <1>6
  <2>2. (a \o b \o c)[p] = b[p - k]
    BY <1>1, <1>2, <1>3, <2>1
  <2> QED
    BY <1>3, <2>1, <2>2
<1>7. CASE k + l < p
  <2>1. p - (k + l) \in 1..m /\ p = (k + l) + (p - (k + l))
    BY <1>4, <1>7
  <2>2. m # 0 /\ m <= 1 /\ p = k + l + m
    BY <1>3, <2>1
  <2>3. (a \o b \o c)[p] = c[p - (k + l)]
    BY <1>1, <1>2, <1>3, <2>1
  <2>4. p = Len(a \o b \o c)
    BY <1>1, <1>2, <1>3, <2>2
  <2> QED
    BY <1>3, <2>1, <2>2, <2>3, <2>4
<1> QED
  BY <1>4, <1>5, <1>6, <1>7

LEMMA AnswerIsPiece ==
    ASSUME NEW cs \in Seq(Call)
    PROVE  AnswerEvents(cs) \in Seq(Event) /\ Piece(AnswerEvents(cs), Halts(cs))
<1> DEFINE a == <<[type |-> "tool_call", calls |-> cs]>>
           b == Written("step", Executed(cs))
           c == Written("approval_required", Proposed(cs))
<1>1. a \in Seq(Event) /\ \A p \in 1..Len(a) : a[p].type = "tool_call"
  <2>1. [type |-> "tool_call", calls |-> cs] \in Event
    BY DEF Event
  <2> QED
    BY <2>1
<1>2. b \in Seq(Event) /\ \A p \in 1..Len(b) : b[p].type = "step"
  BY ExecutedType, WrittenType
<1>3. /\ c \in Seq(Event) /\ Len(c) <= 1 /\ (Len(c) # 0 => Halts(cs))
      /\ \A p \in 1..Len(c) : c[p].type = "approval_required"
  BY ProposedType, WrittenType
<1>4. AnswerEvents(cs) = a \o b \o c
  BY DEF AnswerEvents
<1> HIDE DEF a, b, c
<1>5. a \o b \o c \in Seq(Event)
  BY <1>1, <1>2, <1>3
<1>6. Piece(a \o b \o c, Halts(cs))
  BY <1>1, <1>2, <1>3, ThreeParts
<1> QED
  BY <1>4, <1>5, <1>6

LEMMA NothingIsPiece == <<>> \in Seq(Event) /\ \A isDone : Piece(<<>>, isDone)
BY DEF Piece

-----------------------------------------------------------------------------
(* How an answer ends.                                                     *)

Others(r) == \A q \in Requests \ {r} : /\ phase'[q] = phase[q] /\ round'[q] = round[q]
                                       /\ stream'[q] = stream[q]

Last(q) == stream[q][Len(stream[q])]

\* t is s with something written after it.
Appended(s, t) == Len(s) <= Len(t) /\ \A p \in 1..Len(s) : t[p] = s[p]

\* What has been written to a client is never taken back.
Lengthens == \A q \in Requests : Appended(stream[q], stream'[q])

LEMMA ConcatAppends ==
    ASSUME NEW S, NEW s \in Seq(S), NEW e \in Seq(S)
    PROVE  Appended(s, s \o e)
BY ConcatProperties DEF Appended

\* What the end of an answer does to the request: it asks again, or it is over.
Proceeds(r) == /\ phase' \in [Requests -> {"idle", "asking", "ended"}]
               /\ round' \in [Requests -> 0..MaxRounds]
               /\ stream' \in [Requests -> Seq(Event)]
               /\ phase'[r] \in {"asking", "ended"} /\ round'[r] # 0
               /\ Others(r) /\ Streams' /\ Appended(stream[r], stream'[r])
               /\ phase'[r] = "ended" =>
                     \/ Last(r)'.type = "done" /\ Last(r)'.stats = sessionStats'
                     \/ Last(r)'.type = "error"

LEMMA AppendedTransitive ==
    ASSUME NEW S, NEW s \in Seq(S), NEW t \in Seq(S), NEW u \in Seq(S),
           Appended(s, t), Appended(t, u)
    PROVE  Appended(s, u)
BY DEF Appended

LEMMA ProceedsLengthens ==
    ASSUME NEW r \in Requests, Proceeds(r), stream \in [Requests -> Seq(Event)]
    PROVE  Lengthens
<1> SUFFICES ASSUME NEW q \in Requests PROVE Appended(stream[q], stream'[q])
  BY DEF Lengthens
<1>1. CASE q = r
  BY <1>1 DEF Proceeds
<1>2. CASE q # r
  <2>1. stream'[q] = stream[q] /\ Len(stream[q]) \in Nat
    BY <1>2 DEF Proceeds, Others
  <2> QED
    BY <2>1 DEF Appended
<1> QED
  BY <1>1, <1>2

LEMMA ContinueProceeds ==
    ASSUME TypeOK, Fresh, Streams, NEW r \in Requests, phase[r] = "asking",
           sessionStats' \in SUBSET Call,
           NEW events \in Seq(Event), NEW isDone \in BOOLEAN, Piece(events, isDone),
           Continue(r, events, isDone)
    PROVE  Proceeds(r) /\ (phase'[r] = "asking" => ~isDone)
<1> PICK s \in Seq(Event) : s = stream[r]
  BY DEF TypeOK
<1>1. Running(s)
  BY DEF Streams
<1>2. CASE ~isDone /\ WithinLimit(r)
  <2>1. /\ round' = [round EXCEPT ![r] = @ + 1] /\ phase' = phase
        /\ stream' = [stream EXCEPT ![r] = @ \o events]
    BY <1>2 DEF Continue
  <2>2. stream'[r] = s \o events /\ s \o events \in Seq(Event)
    BY <2>1 DEF TypeOK
  <2>3. Running(s \o events)
    BY <1>1, <1>2, StaysRunning
  <2>9. Appended(stream[r], stream'[r])
    BY <2>2, ConcatAppends
  <2>4. round[r] \in 0..MaxRounds /\ round[r] < MaxRounds /\ MaxRounds \in Nat
    BY <1>2, ServerAssumption DEF WithinLimit, TypeOK
  <2>5. round[r] + 1 \in 0..MaxRounds /\ round[r] + 1 # 0
    BY <2>4
  <2>6. /\ phase' \in [Requests -> {"idle", "asking", "ended"}]
        /\ round' \in [Requests -> 0..MaxRounds] /\ round'[r] # 0
        /\ stream' \in [Requests -> Seq(Event)]
        /\ phase'[r] = "asking"
    BY <2>1, <2>2, <2>5 DEF TypeOK
  <2>7. Others(r)
    BY <2>1 DEF Others, TypeOK
  <2>8. Streams'
    <3> SUFFICES ASSUME NEW q \in Requests
                 PROVE  IF phase'[q] = "ended" THEN Complete(stream'[q])
                                               ELSE Running(stream'[q])
      BY DEF Streams
    <3>1. CASE q = r
      BY <2>2, <2>3, <2>6, <3>1
    <3>2. CASE q # r
      BY <2>7, <3>2 DEF Others, Streams
    <3> QED
      BY <3>1, <3>2
  <2> QED
    BY <1>2, <2>6, <2>7, <2>8, <2>9 DEF Proceeds
<1>3. CASE ~(~isDone /\ WithinLimit(r))
  <2> DEFINE f == [type |-> "done", stats |-> sessionStats']
  <2>1. /\ phase' = [phase EXCEPT ![r] = "ended"] /\ round' = round
        /\ stream' = [stream EXCEPT ![r] = @ \o events \o <<f>>]
    BY <1>3 DEF Continue
  <2>2. f \in Event /\ f.type = "done" /\ f.stats = sessionStats'
    BY DoneIsEvent
  <2> HIDE DEF f
  <2>3. stream'[r] = s \o events \o <<f>>
    BY <2>1 DEF TypeOK
  <2>4. Complete(s \o events \o <<f>>)
        /\ (s \o events \o <<f>>)[Len(s \o events \o <<f>>)] = f
    BY <1>1, <2>2, Completes
  <2>5. s \o events \o <<f>> \in Seq(Event)
    BY <2>2
  <2>6. /\ phase' \in [Requests -> {"idle", "asking", "ended"}]
        /\ round' \in [Requests -> 0..MaxRounds] /\ round'[r] # 0
        /\ stream' \in [Requests -> Seq(Event)]
        /\ phase'[r] = "ended"
    BY <2>1, <2>5 DEF TypeOK, Fresh
  <2>7. Others(r)
    BY <2>1 DEF Others, TypeOK
  <2>8. Streams'
    <3> SUFFICES ASSUME NEW q \in Requests
                 PROVE  IF phase'[q] = "ended" THEN Complete(stream'[q])
                                               ELSE Running(stream'[q])
      BY DEF Streams
    <3>1. CASE q = r
      BY <2>3, <2>4, <2>6, <3>1
    <3>2. CASE q # r
      BY <2>7, <3>2 DEF Others, Streams
    <3> QED
      BY <3>1, <3>2
  <2>9. Last(r)' = f
    BY <2>3, <2>4 DEF Last
  <2>10. Appended(stream[r], stream'[r])
    <3>1. <<f>> \in Seq(Event) /\ s \o events \in Seq(Event)
      BY <2>2
    <3>2. Appended(s, s \o events) /\ Appended(s \o events, s \o events \o <<f>>)
      BY <3>1, ConcatAppends
    <3>3. Appended(s, s \o events \o <<f>>)
      BY <2>5, <3>1, <3>2, AppendedTransitive
    <3> QED
      BY <2>3, <3>3
  <2> QED
    BY <2>2, <2>6, <2>7, <2>8, <2>9, <2>10 DEF Proceeds
<1> QED
  BY <1>2, <1>3

LEMMA ErrorProceeds ==
    ASSUME TypeOK, Fresh, Streams, NEW r \in Requests, phase[r] = "asking",
           NEW events \in Seq(Event), Piece(events, FALSE), EndWithError(r, events)
    PROVE  Proceeds(r) /\ phase'[r] = "ended" /\ Last(r)'.type = "error"
<1> DEFINE f == [type |-> "error"]
<1> PICK t \in Seq(Event) : t = stream[r]
  BY DEF TypeOK
<1> PICK s \in Seq(Event) : s = t \o events
  BY ConcatProperties
<1>1. Running(t) /\ Running(s)
  BY StaysRunning DEF Streams
<1>2. /\ phase' = [phase EXCEPT ![r] = "ended"] /\ round' = round
      /\ stream' = [stream EXCEPT ![r] = @ \o events \o <<f>>]
  BY DEF EndWithError, FinalError
<1>3. f \in Event /\ f.type = "error"
  BY ErrorIsEvent
<1> HIDE DEF f
<1>4. stream'[r] = s \o <<f>> /\ s \o <<f>> \in Seq(Event)
  BY <1>2, <1>3 DEF TypeOK
<1>5. Complete(s \o <<f>>) /\ (s \o <<f>>)[Len(s \o <<f>>)] = f
  BY <1>1, <1>3, CompletesWithError
<1>6. /\ phase' \in [Requests -> {"idle", "asking", "ended"}]
      /\ round' \in [Requests -> 0..MaxRounds] /\ round'[r] # 0
      /\ stream' \in [Requests -> Seq(Event)]
      /\ phase'[r] = "ended"
  BY <1>2, <1>4 DEF TypeOK, Fresh
<1>7. Others(r)
  BY <1>2 DEF Others, TypeOK
<1>8. Streams'
  <2> SUFFICES ASSUME NEW q \in Requests
               PROVE  IF phase'[q] = "ended" THEN Complete(stream'[q])
                                             ELSE Running(stream'[q])
    BY DEF Streams
  <2>1. CASE q = r
    BY <1>4, <1>5, <1>6, <2>1
  <2>2. CASE q # r
    BY <1>7, <2>2 DEF Others, Streams
  <2> QED
    BY <2>1, <2>2
<1>9. Last(r)' = f
  BY <1>4, <1>5 DEF Last
<1>10. Appended(stream[r], stream'[r])
  <2>1. <<f>> \in Seq(Event)
    BY <1>3
  <2>2. Appended(t, s) /\ Appended(s, s \o <<f>>)
    BY <2>1, ConcatAppends
  <2> QED
    BY <1>4, <2>2, AppendedTransitive
<1> QED
  BY <1>3, <1>6, <1>7, <1>8, <1>9, <1>10 DEF Proceeds

\* The figures, when a request has answered and counted some calls.
LEMMA Counting ==
    ASSUME Counted, Reported, NEW r \in Requests, phase[r] = "asking", Proceeds(r),
           NEW count, overlapped' = overlapped,
           phase'[r] = "ended" => Last(r)'.type = "error" \/ Last(r)'.stats = sessionStats',
           sessionStats' = sessionStats \cup count, ran'[r] = ran[r] \cup count,
           \A q \in Requests \ {r} : ran'[q] = ran[q]
    PROVE  Counted' /\ Reported'
<1>1. ~overlapped[r] => Open = {r} /\ sessionStats' = ran'[r]
  BY DEF Counted, Open
<1>2. Open' \subseteq Open
  BY DEF Open, Proceeds, Others
<1>3. ASSUME NEW q \in Open', ~overlapped[q]
      PROVE  Open' = {q} /\ sessionStats' = ran'[q]
  <2>1. q \in Open /\ Open = {q} /\ r \in Open
    BY <1>2, <1>3 DEF Counted, Open
  <2> QED
    BY <1>1, <1>2, <1>3, <2>1
<1>4. Counted'
  BY <1>3 DEF Counted
<1>5. ASSUME NEW q \in Requests, phase'[q] = "ended", ~overlapped[q],
             Last(q)'.type = "done"
      PROVE  Last(q)'.stats = ran'[q]
  <2>1. CASE q = r
    BY <1>1, <1>5, <2>1
  <2>2. CASE q # r
    <3>1. phase[q] = "ended" /\ stream'[q] = stream[q] /\ ran'[q] = ran[q]
      BY <1>5, <2>2 DEF Proceeds, Others
    <3>2. Last(q)' = Last(q)
      BY <3>1 DEF Last
    <3>3. Last(q).stats = ran[q]
      BY <1>5, <3>1, <3>2 DEF Reported, Last
    <3> QED
      BY <3>1, <3>2, <3>3
  <2> QED
    BY <2>1, <2>2
<1>6. Reported'
  BY <1>5 DEF Reported, Last
<1> QED
  BY <1>4, <1>6

-----------------------------------------------------------------------------
(* The actions.                                                            *)

LEMMA InitIInv == Init => IInv
<1> SUFFICES ASSUME Init PROVE IInv
  OBVIOUS
<1>1. TypeOK
  BY ServerAssumption DEF Init, TypeOK
<1>2. Open = {}
  BY DEF Init, Open
<1>3. Fresh /\ CallsSettled /\ Counted
  BY <1>2 DEF Init, Fresh, CallsSettled, Counted
<1>4. Streams
  BY DEF Init, Streams, Running
<1>5. Reported
  BY DEF Init, Reported
<1> QED
  BY <1>1, <1>3, <1>4, <1>5 DEF IInv

LEMMA StartStep ==
    ASSUME IInv, NEW r \in Requests, Start(r)
    PROVE  IInv' /\ Lengthens
<1> USE DEF IInv
<1>1. /\ phase[r] = "idle" /\ phase' = [phase EXCEPT ![r] = "asking"]
      /\ round' = [round EXCEPT ![r] = 1] /\ sessionStats' = {}
      /\ asked' = asked /\ answered' = answered /\ stream' = stream /\ ran' = ran
  BY DEF Start, Reset, dialogueVars
<1>2. TypeOK'
  BY <1>1, ServerAssumption DEF Start, TypeOK
<1>3. Fresh'
  BY <1>1 DEF TypeOK, Fresh
<1>4. asked[r] = {} /\ stream[r] = <<>> /\ ran[r] = {}
  BY <1>1 DEF Fresh
<1>5. CallsSettled'
  BY <1>1, <1>4 DEF TypeOK, CallsSettled, Open
<1>6. Streams'
  BY <1>1 DEF TypeOK, Streams
<1>7. Counted'
  <2> SUFFICES ASSUME NEW q \in Open', ~overlapped'[q]
               PROVE  Open' = {q} /\ sessionStats' = ran'[q]
    BY DEF Counted
  <2>1. q \notin Open /\ ~(q = r /\ Open # {}) /\ q \in Requests
    BY DEF Start, Open
  <2>2. Open' = Open \cup {r}
    BY <1>1 DEF Open, TypeOK
  <2> QED
    BY <1>1, <1>4, <2>1, <2>2
<1>8. Reported'
  <2> SUFFICES ASSUME NEW q \in Requests, phase'[q] = "ended", ~overlapped'[q],
                      stream[q][Len(stream[q])].type = "done"
               PROVE  stream[q][Len(stream[q])].stats = ran[q]
    BY <1>1 DEF Reported
  <2>1. phase[q] = "ended" /\ ~overlapped[q]
    BY <1>1 DEF TypeOK, Start
  <2> QED
    BY <2>1 DEF Reported
<1>9. Lengthens
  BY <1>1 DEF TypeOK, Appended, Lengthens
<1> QED
  BY <1>2, <1>3, <1>5, <1>6, <1>7, <1>8, <1>9

\* A request whose calls do not change keeps the rest of the invariant.
LEMMA NoCallsStep ==
    ASSUME IInv, NEW r \in Requests, phase[r] = "asking", Proceeds(r),
           UNCHANGED <<dialogueVars, sessionStats, ran, overlapped>>
    PROVE  IInv' /\ Lengthens
<1> USE DEF IInv
<1>1. /\ asked' = asked /\ answered' = answered /\ sessionStats' = sessionStats
      /\ ran' = ran /\ overlapped' = overlapped
  BY DEF dialogueVars
<1>2. TypeOK'
  BY <1>1 DEF TypeOK, Proceeds
<1>3. Fresh'
  BY <1>1 DEF TypeOK, Fresh, Proceeds, Others
<1>4. CallsSettled'
  BY <1>1 DEF CallsSettled, Open, Proceeds, Others
<1>5. sessionStats' = sessionStats \cup {} /\ ran'[r] = ran[r] \cup {}
  BY <1>1
<1>6. phase'[r] = "ended" => Last(r)'.type = "error" \/ Last(r)'.stats = sessionStats'
  BY DEF Proceeds
<1>7. Counted' /\ Reported'
  BY <1>1, <1>5, <1>6, Counting
<1>8. Lengthens
  BY ProceedsLengthens DEF TypeOK
<1> QED
  BY <1>2, <1>3, <1>4, <1>7, <1>8 DEF Proceeds

LEMMA FailsStep ==
    ASSUME IInv, NEW r \in Requests, Fails(r)
    PROVE  IInv' /\ Lengthens
<1>1. /\ phase[r] = "asking" /\ EndWithError(r, <<>>)
      /\ UNCHANGED <<dialogueVars, sessionStats, ran, overlapped>>
  BY DEF Fails
<1>2. Proceeds(r)
  BY <1>1, NothingIsPiece, ErrorProceeds DEF IInv
<1> QED
  BY <1>1, <1>2, NoCallsStep

LEMMA AnswerWithoutCallsStep ==
    ASSUME IInv, NEW r \in Requests, AnswerWithoutCalls(r)
    PROVE  IInv' /\ Lengthens
<1>1. /\ phase[r] = "asking"
      /\ UNCHANGED <<dialogueVars, sessionStats, ran, overlapped>>
  BY DEF AnswerWithoutCalls
<1>2. PICK isDone \in BOOLEAN : Continue(r, <<>>, isDone)
  <2>1. PICK filtered \in BOOLEAN : Continue(r, <<>>, ~filtered)
    BY DEF AnswerWithoutCalls
  <2> QED
    BY <2>1
<1>3. sessionStats' \in SUBSET Call
  BY <1>1 DEF IInv, TypeOK
<1>4. Proceeds(r)
  BY <1>1, <1>2, <1>3, NothingIsPiece, ContinueProceeds DEF IInv
<1> QED
  BY <1>1, <1>4, NoCallsStep

LEMMA AnswerWithCallsStep ==
    ASSUME IInv, NEW r \in Requests, AnswerWithCalls(r)
    PROVE  IInv' /\ Lengthens
<1> USE DEF IInv
<1>1. phase[r] = "asking" /\ overlapped' = overlapped
  BY DEF AnswerWithCalls
<1>2. PICK cs \in Seq(Call) : RunCalls(r, cs)
  <2>1. PICK n \in 1..MaxCalls : \E kinds \in [1..n -> Kinds] : RunCalls(r, Calls(r, kinds))
    BY DEF AnswerWithCalls
  <2>2. PICK kinds \in [1..n -> Kinds] : RunCalls(r, Calls(r, kinds))
    BY <2>1
  <2>3. Calls(r, kinds) \in Seq(Call)
    BY <1>1, CallsType
  <2> QED
    BY <2>2, <2>3
<1> DEFINE count == SetOf(Executed(cs)) \cup SetOf(Proposed(cs))
<1>3. SetOf(cs) \in SUBSET Call /\ SetOf(Executed(cs)) \in SUBSET Call
      /\ count \in SUBSET Call
  BY ExecutedType, ProposedType, SetOfType
<1>4. asked' = [asked EXCEPT ![r] = @ \cup SetOf(cs)]
  BY <1>2 DEF RunCalls
<1>5. asked' \in [Requests -> SUBSET Call]
      /\ asked'[r] = asked[r] \cup SetOf(cs)
      /\ \A q \in Requests \ {r} : asked'[q] = asked[q]
  BY <1>3, <1>4 DEF TypeOK
<1>6. CASE Malformed(cs)
  <2>1. /\ EndWithError(r, <<>>)
        /\ answered' = answered
        /\ sessionStats' = sessionStats /\ ran' = ran
    BY <1>2, <1>6 DEF RunCalls
  <2>2. Proceeds(r) /\ phase'[r] = "ended" /\ Last(r)'.type = "error"
    BY <1>1, <2>1, NothingIsPiece, ErrorProceeds
  <2>3. TypeOK'
    BY <1>1, <1>5, <2>1, <2>2 DEF TypeOK, Proceeds
  <2>4. Fresh'
    BY <1>5, <2>1, <2>2 DEF Fresh, Proceeds, Others
  <2>5. CallsSettled'
    BY <1>5, <2>1, <2>2 DEF CallsSettled, Open, Proceeds, Others
  <2>6. sessionStats' = sessionStats \cup {} /\ ran'[r] = ran[r] \cup {}
    BY <2>1
  <2>7. Counted' /\ Reported'
    BY <1>1, <2>1, <2>2, <2>6, Counting
  <2>8. Lengthens
    BY <2>2, ProceedsLengthens DEF TypeOK
  <2> QED
    BY <2>2, <2>3, <2>4, <2>5, <2>7, <2>8 DEF Proceeds
<1>7. CASE ~Malformed(cs)
  <2>1. /\ answered' = [answered EXCEPT ![r] = @ \cup SetOf(Executed(cs))]
        /\ sessionStats' = sessionStats \cup count
        /\ ran' = [ran EXCEPT ![r] = @ \cup count]
        /\ Throws(cs) => EndWithError(r, AnswerEvents(cs))
        /\ ~Throws(cs) => Continue(r, AnswerEvents(cs), Halts(cs))
    BY <1>2, <1>7 DEF RunCalls
  <2>2. /\ answered' \in [Requests -> SUBSET Call]
        /\ answered'[r] = answered[r] \cup SetOf(Executed(cs))
        /\ \A q \in Requests \ {r} : answered'[q] = answered[q]
    BY <1>3, <2>1 DEF TypeOK
  <2> HIDE DEF count
  <2>3. /\ ran' \in [Requests -> SUBSET Call] /\ ran'[r] = ran[r] \cup count
        /\ \A q \in Requests \ {r} : ran'[q] = ran[q]
        /\ sessionStats' \in SUBSET Call
    BY <1>3, <2>1 DEF TypeOK
  <2>4. Proceeds(r) /\ (phase'[r] = "asking" => ~Halts(cs) /\ ~Throws(cs))
    <3>1. AnswerEvents(cs) \in Seq(Event) /\ Piece(AnswerEvents(cs), Halts(cs))
      BY AnswerIsPiece
    <3>2. CASE Throws(cs)
      <4>1. ~Halts(cs)
        BY <3>2, ThrowsFirst
      <4>2. Piece(AnswerEvents(cs), FALSE)
        BY <3>1, <4>1 DEF Piece
      <4> QED
        BY <1>1, <2>1, <3>1, <3>2, <4>2, ErrorProceeds
    <3>3. CASE ~Throws(cs)
      <4>1. Halts(cs) \in BOOLEAN
        BY DEF Halts
      <4> QED
        BY <1>1, <2>1, <2>3, <3>1, <3>3, <4>1, ContinueProceeds
    <3> QED
      BY <3>2, <3>3
  <2>5. TypeOK'
    BY <1>1, <1>5, <2>2, <2>3, <2>4 DEF TypeOK, Proceeds
  <2>6. Fresh'
    <3>1. /\ phase'[r] # "idle" /\ round'[r] # 0
          /\ \A q \in Requests \ {r} : /\ phase'[q] = phase[q] /\ round'[q] = round[q]
                                       /\ stream'[q] = stream[q]
      BY <2>4 DEF Proceeds, Others
    <3> QED
      BY <1>5, <2>2, <2>3, <3>1 DEF Fresh
  <2>7. CallsSettled'
    <3> SUFFICES ASSUME NEW q \in Open', NEW c \in asked'[q]
                 PROVE  /\ c.kind = "tool" => c \in answered'[q]
                        /\ c.kind # "runCommand"
      BY DEF CallsSettled
    <3>1. CASE q # r
      <4>1. q \in Open /\ c \in asked[q] /\ answered'[q] = answered[q]
        BY <1>5, <2>2, <2>4, <3>1 DEF Open, Proceeds, Others
      <4> QED
        BY <4>1 DEF CallsSettled
    <3>2. CASE q = r /\ c \in asked[r]
      <4>1. r \in Open
        BY <1>1 DEF Open
      <4> QED
        BY <2>2, <3>2, <4>1 DEF CallsSettled
    <3>3. CASE q = r /\ c \in SetOf(cs)
      <4>1. PICK k \in 1..Len(cs) : c = cs[k]
        BY <3>3 DEF SetOf
      <4>2. Stops(cs) = {}
        BY <2>4, <3>3, NoStops DEF Open
      <4>3. c.kind # "runCommand"
        BY <4>1, <4>2 DEF Stops
      <4>4. c.kind = "tool" => c \in SetOf(Executed(cs))
        BY <4>1, <4>2, AllExecuted
      <4> QED
        BY <2>2, <3>3, <4>3, <4>4
    <3> QED
      BY <1>5, <3>1, <3>2, <3>3
  <2>8. phase'[r] = "ended" => Last(r)'.type = "error" \/ Last(r)'.stats = sessionStats'
    BY <2>4 DEF Proceeds
  <2>9. Counted' /\ Reported'
    BY <1>1, <2>1, <2>3, <2>4, <2>8, Counting
  <2>10. Lengthens
    BY <2>4, ProceedsLengthens DEF TypeOK
  <2> QED
    BY <2>4, <2>5, <2>6, <2>7, <2>9, <2>10 DEF Proceeds
<1> QED
  BY <1>6, <1>7

LEMMA StutterStep == IInv /\ UNCHANGED vars => IInv' /\ Lengthens
<1> SUFFICES ASSUME IInv, UNCHANGED vars PROVE IInv' /\ Lengthens
  OBVIOUS
<1>1. /\ phase' = phase /\ round' = round /\ asked' = asked /\ answered' = answered
      /\ stream' = stream /\ sessionStats' = sessionStats
      /\ ran' = ran /\ overlapped' = overlapped
  BY DEF vars, dialogueVars
<1>2. Open' = Open
  BY <1>1 DEF Open
<1>3. Lengthens
  BY <1>1 DEF IInv, TypeOK, Appended, Lengthens
<1> QED
  BY <1>1, <1>2, <1>3 DEF IInv, TypeOK, Fresh, CallsSettled, Streams, Counted, Reported

LEMMA NextIInv == IInv /\ [Next]_vars => IInv' /\ Lengthens
<1> SUFFICES ASSUME IInv, [Next]_vars PROVE IInv' /\ Lengthens
  OBVIOUS
<1>1. CASE Next
  BY <1>1, StartStep, FailsStep, AnswerWithoutCallsStep, AnswerWithCallsStep DEF Next
<1>2. CASE UNCHANGED vars
  BY <1>2, StutterStep
<1> QED
  BY <1>1, <1>2

\* The invariant holds in every reachable state.
THEOREM Invariance == Spec => []IInv
BY InitIInv, NextIInv, PTL DEF Spec

-----------------------------------------------------------------------------
(* What the runs check.                                                    *)

\* Every variable of the endpoint keeps its type.
THEOREM TypeCorrect == Spec => []TypeOK
<1>1. IInv => TypeOK
  BY DEF IInv
<1> QED
  BY <1>1, Invariance, PTL

\* The model is asked again only when the tools it called have answered and no
\* command waits for the user (index.js:721-758).
THEOREM CallsAreSettled == Spec => []CallsSettled
<1>1. IInv => CallsSettled
  BY DEF IInv
<1> QED
  BY <1>1, Invariance, PTL

\* Only 'done' follows a proposed command (index.js:729-731).
THEOREM ProposalEnds == Spec => []ProposalIsLast
<1>1. IInv => ProposalIsLast
  <2> SUFFICES ASSUME IInv, NEW r \in Requests, NEW p \in DOMAIN stream[r],
                      stream[r][p].type = "approval_required"
               PROVE  p + 1 = Len(stream[r]) /\ stream[r][p + 1].type = "done"
    BY DEF ProposalIsLast
  <2>1. p \in 1..Len(stream[r])
    BY DEF IInv, TypeOK
  <2> QED
    BY <2>1 DEF IInv, Streams, Running, Complete
<1> QED
  BY <1>1, Invariance, PTL

\* There is one 'done' or 'error', it comes last, and only when the handler is
\* over (index.js:768-784).
THEOREM StreamEndsOnce == Spec => []EndsOnce
<1>1. IInv => EndsOnce
  <2> SUFFICES ASSUME IInv, NEW r \in Requests, NEW p \in DOMAIN stream[r]
               PROVE  stream[r][p].type \in {"done", "error"} <=>
                         phase[r] = "ended" /\ p = Len(stream[r])
    BY DEF EndsOnce
  <2>1. p \in 1..Len(stream[r])
    BY DEF IInv, TypeOK
  <2>2. CASE phase[r] = "ended"
    BY <2>1, <2>2 DEF IInv, Streams, Complete
  <2>3. CASE phase[r] # "ended"
    BY <2>1, <2>3 DEF IInv, Streams, Running
  <2> QED
    BY <2>2, <2>3
<1> QED
  BY <1>1, Invariance, PTL

\* A request that had the server to itself reports what it has run, and only
\* that, from the global figures (index.js:618-623, 769-777).
THEOREM FiguresAreOwn == Spec => []StatsOwn
<1>1. IInv => StatsOwn
  <2> SUFFICES ASSUME IInv, NEW r \in Requests, NEW p \in DOMAIN stream[r],
                      stream[r][p].type = "done", ~overlapped[r]
               PROVE  stream[r][p].stats = ran[r]
    BY DEF StatsOwn
  <2>1. p \in 1..Len(stream[r])
    BY DEF IInv, TypeOK
  <2>2. phase[r] = "ended"
    BY <2>1 DEF IInv, Streams, Running
  <2>3. p = Len(stream[r])
    BY <2>1, <2>2 DEF IInv, Streams, Complete
  <2> QED
    BY <2>2, <2>3 DEF IInv, Reported
<1> QED
  BY <1>1, Invariance, PTL
=============================================================================
