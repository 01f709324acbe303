----------------------- MODULE ConversationStoreProofs -----------------------
(***************************************************************************)
(* The invariants of ConversationStore, for every number of conversations, *)
(* messages, losses and requests under way.                                *)
(*                                                                         *)
(* A list of conversations is sound when it names each once, the most      *)
(* recently saved first, and nothing that was not saved before.  Soundness *)
(* is shown of the three operations on lists first (Without, Update and    *)
(* Trim), and then of every list a step leaves behind.                     *)
(***************************************************************************)
EXTENDS ConversationStore, SubsequenceProofs

OnceEach(h) == \A p, q \in 1..Len(h) : h[p].id = h[q].id => p = q

Sound(h, now, ids) == /\ NewestFirst(h) /\ OnceEach(h)
                      /\ \A p \in 1..Len(h) : h[p].time <= now /\ h[p].id \in ids

SavedIds == {i \in Ids : saved[i] # None}

-----------------------------------------------------------------------------
(* The inductive invariant.                                                *)

\* Every copy of a conversation, wherever it is, comes from a save.
Origins ==
    /\ runs + clock <= sent
    /\ IsFiniteSet(SavedIds)
    /\ Sound(local, clock, SavedIds) /\ Sound(list.docs, clock, SavedIds)
    /\ \A p \in 1..Len(net) :
          net[p].op = "PATCH" => net[p].doc.time <= clock /\ net[p].doc.id \in SavedIds
    /\ \A i \in Ids : cloud[i] # None =>
          cloud[i].id = i /\ cloud[i].time <= clock /\ i \in SavedIds
    /\ \A i \in SavedIds : saved[i].id = i /\ saved[i].time <= clock

\* An entry of h is the last save of its conversation, or has grown since.
Current(h, sv) == \A p \in 1..Len(h) : /\ h[p].time = sv[h[p].id].time
                                       /\ sv[h[p].id].msgs \subseteq h[p].msgs

\* While the history is the extension's own, the conversation on the screen is
\* in it and, when it is linked to its entry, is not behind it.
OwnHistory ==
    ~replaced => /\ Current(local, saved)
                 /\ active # None /\ active \notin deleted => active \in Stored(local)
                 /\ linked => \A p \in 1..Len(local) :
                                 local[p].id = active => local[p].msgs \subseteq transcript

IInv == TypeOK /\ Origins /\ OwnHistory /\ LocalKept

-----------------------------------------------------------------------------
(* Lists of conversations.                                                 *)

LEMMA Entries ==
    ASSUME NEW h \in Seq(Conversation), NEW p \in 1..Len(h)
    PROVE  /\ h[p] \in Conversation /\ h[p].id \in Ids
           /\ h[p].msgs \in SUBSET Messages /\ h[p].time \in Nat
<1>1. h[p] \in Conversation
  OBVIOUS
<1> QED
  BY <1>1 DEF Conversation

LEMMA SoundLater ==
    ASSUME NEW h \in Seq(Conversation), NEW now \in Nat, NEW later \in Nat, now <= later,
           NEW I, NEW J, I \subseteq J, Sound(h, now, I)
    PROVE  Sound(h, later, J)
<1>1. \A p \in 1..Len(h) : h[p].time \in Nat /\ h[p].time <= now
  BY Entries DEF Sound
<1>2. \A p \in 1..Len(h) : h[p].time <= later
  BY <1>1
<1> QED
  BY <1>2 DEF Sound

LEMMA EmptyIsSound ==
    ASSUME NEW now, NEW I
    PROVE  Sound(<<>>, now, I)
BY DEF Sound, NewestFirst, OnceEach

LEMMA WithoutSound ==
    ASSUME NEW h \in Seq(Conversation), NEW now \in Nat, NEW I, Sound(h, now, I), NEW i
    PROVE  /\ Without(h, i) \in Seq(Conversation) /\ Len(Without(h, i)) <= Len(h)
           /\ Sound(Without(h, i), now, I) /\ i \notin Stored(Without(h, i))
           /\ \A m \in 1..Len(Without(h, i)) : \E p \in 1..Len(h) : Without(h, i)[m] = h[p]
           /\ \A p \in 1..Len(h) : h[p].id # i =>
                 \E m \in 1..Len(Without(h, i)) : Without(h, i)[m] = h[p]
<1> DEFINE K == {p \in DOMAIN h : h[p].id # i}
           w == Kept(h, K)
<1>1. K \in SUBSET (1..Len(h)) /\ Without(h, i) = w
      /\ \A p \in 1..Len(h) : p \in K <=> h[p].id # i
  BY DEF Without
<1> HIDE DEF K, w
<1>2. w \in Seq(Conversation) /\ Len(w) \in Nat /\ Len(w) <= Len(h)
  BY <1>1, KeptSequence DEF w
<1>3. ASSUME NEW m \in 1..Len(w)
      PROVE  /\ Nth(K, m) \in K /\ Nth(K, m) \in 1..Len(h) /\ w[m] = h[Nth(K, m)]
             /\ \A l \in 1..Len(w) : l < m => Nth(K, l) < Nth(K, m)
  BY <1>1, KeptFrom DEF w
<1>4. NewestFirst(w)
  <2> SUFFICES ASSUME NEW l \in 1..Len(w), NEW m \in 1..Len(w), l < m
               PROVE  w[l].time > w[m].time
    BY <1>2 DEF NewestFirst
  <2>1. Nth(K, l) \in 1..Len(h) /\ Nth(K, m) \in 1..Len(h) /\ Nth(K, l) < Nth(K, m)
        /\ w[l] = h[Nth(K, l)] /\ w[m] = h[Nth(K, m)]
    BY <1>3
  <2> QED
    BY <2>1 DEF Sound, NewestFirst
<1>5. OnceEach(w)
  <2> SUFFICES ASSUME NEW l \in 1..Len(w), NEW m \in 1..Len(w), w[l].id = w[m].id
               PROVE  l = m
    BY DEF OnceEach
  <2>1. Nth(K, l) \in 1..Len(h) /\ Nth(K, m) \in 1..Len(h)
        /\ w[l] = h[Nth(K, l)] /\ w[m] = h[Nth(K, m)]
        /\ (l < m => Nth(K, l) < Nth(K, m)) /\ (m < l => Nth(K, m) < Nth(K, l))
    BY <1>3
  <2>2. Nth(K, l) = Nth(K, m)
    BY <2>1 DEF Sound, OnceEach
  <2>3. l \in Nat /\ m \in Nat /\ ~(l < m) /\ ~(m < l)
    BY <2>1, <2>2
  <2> QED
    BY <2>3
<1>6. \A m \in 1..Len(w) : w[m].time <= now /\ w[m].id \in I /\ w[m].id # i
  BY <1>1, <1>3 DEF Sound
<1>7. Sound(w, now, I) /\ i \notin Stored(w)
  BY <1>2, <1>4, <1>5, <1>6 DEF Sound, Stored
<1>8. \A m \in 1..Len(w) : \E p \in 1..Len(h) : w[m] = h[p]
  BY <1>3
<1>9. \A p \in 1..Len(h) : h[p].id # i => \E m \in 1..Len(w) : w[m] = h[p]
  BY <1>1, KeptAll DEF w
<1> QED
  BY <1>1, <1>2, <1>7, <1>8, <1>9

LEMMA PrependSound ==
    ASSUME NEW h \in Seq(Conversation), NEW now \in Nat, NEW I, NEW J, I \subseteq J,
           Sound(h, now, I),
           NEW c \in Conversation, c.time = now + 1, c.id \in J, c.id \notin Stored(h)
    PROVE  /\ <<c>> \o h \in Seq(Conversation) /\ Len(<<c>> \o h) = Len(h) + 1
           /\ (<<c>> \o h)[1] = c /\ \A p \in 1..Len(h) : (<<c>> \o h)[p + 1] = h[p]
           /\ Sound(<<c>> \o h, now + 1, J)
<1> DEFINE g == <<c>> \o h
<1>1. <<c>> \in Seq(Conversation) /\ Len(<<c>>) = 1 /\ <<c>>[1] = c
  OBVIOUS
<1>2. /\ g \in Seq(Conversation) /\ Len(g) = Len(h) + 1 /\ Len(h) \in Nat
      /\ g[1] = c /\ \A p \in 1..Len(h) : g[1 + p] = h[p]
  BY <1>1, ConcatProperties
<1> HIDE DEF g
<1>3. ASSUME NEW p \in 1..Len(g), p # 1
      PROVE  p - 1 \in 1..Len(h) /\ g[p] = h[p - 1]
  <2>1. p - 1 \in 1..Len(h) /\ 1 + (p - 1) = p
    BY <1>2, <1>3
  <2> QED
    BY <1>2, <2>1
<1>4. ASSUME NEW p \in 1..Len(h)
      PROVE  h[p].time \in Nat /\ h[p].time <= now /\ h[p].id \in I /\ h[p].id # c.id
  <2>1. h[p].time \in Nat
    BY Entries
  <2>2. h[p].id \in Stored(h)
    BY DEF Stored
  <2> QED
    BY <2>1, <2>2 DEF Sound
<1>5. NewestFirst(g)
  <2> SUFFICES ASSUME NEW p \in 1..Len(g), NEW q \in 1..Len(g), p < q
               PROVE  g[p].time > g[q].time
    BY <1>2 DEF NewestFirst
  <2>1. q # 1 /\ q - 1 \in 1..Len(h) /\ g[q] = h[q - 1]
    BY <1>2, <1>3
  <2>2. CASE p = 1
    <3>1. h[q - 1].time <= now /\ h[q - 1].time \in Nat
      BY <1>4, <2>1
    <3> QED
      BY <1>2, <2>1, <2>2, <3>1
  <2>3. CASE p # 1
    <3>1. p - 1 \in 1..Len(h) /\ g[p] = h[p - 1] /\ p - 1 < q - 1
      BY <1>2, <1>3, <2>3
    <3>2. h[p - 1].time > h[q - 1].time
      BY <2>1, <3>1 DEF Sound, NewestFirst
    <3> QED
      BY <2>1, <3>1, <3>2
  <2> QED
    BY <2>2, <2>3
<1>6. OnceEach(g)
  <2> SUFFICES ASSUME NEW p \in 1..Len(g), NEW q \in 1..Len(g), g[p].id = g[q].id
               PROVE  p = q
    BY DEF OnceEach
  <2>1. ASSUME p = 1, q # 1 PROVE FALSE
    BY <1>2, <1>3, <1>4, <2>1
  <2>2. ASSUME q = 1, p # 1 PROVE FALSE
    BY <1>2, <1>3, <1>4, <2>2
  <2>3. ASSUME p # 1, q # 1 PROVE p = q
    <3>1. p - 1 \in 1..Len(h) /\ q - 1 \in 1..Len(h) /\ h[p - 1].id = h[q - 1].id
      BY <1>3, <2>3
    <3>2. p - 1 = q - 1
      BY <3>1 DEF Sound, OnceEach
    <3>3. p \in Nat /\ q \in Nat
      BY <1>2
    <3> QED
      BY <3>2, <3>3
  <2> QED
    BY <2>1, <2>2, <2>3
<1>7. \A p \in 1..Len(g) : g[p].time <= now + 1 /\ g[p].id \in J
  <2> SUFFICES ASSUME NEW p \in 1..Len(g)
               PROVE  g[p].time <= now + 1 /\ g[p].id \in J
    OBVIOUS
  <2>1. CASE p = 1
    BY <1>2, <2>1
  <2>2. CASE p # 1
    <3>1. g[p].time \in Nat /\ g[p].time <= now /\ g[p].id \in I
      BY <1>3, <1>4, <2>2
    <3> QED
      BY <3>1
  <2> QED
    BY <2>1, <2>2
<1>8. \A p \in 1..Len(h) : g[p + 1] = h[p]
  BY <1>2
<1>9. Sound(g, now + 1, J)
  BY <1>5, <1>6, <1>7 DEF Sound
<1> QED
  BY <1>2, <1>8, <1>9 DEF g

LEMMA TrimSound ==
    ASSUME NEW h \in Seq(Conversation), NEW now, NEW I, Sound(h, now, I)
    PROVE  /\ Trim(h) \in Seq(Conversation) /\ Sound(Trim(h), now, I)
           /\ Len(Trim(h)) <= Cap /\ Len(Trim(h)) <= Len(h)
           /\ \A p \in 1..Len(h) : p <= Cap => p \in 1..Len(Trim(h))
           /\ \A p \in 1..Len(Trim(h)) : Trim(h)[p] = h[p]
<1> DEFINE n == IF Len(h) <= Cap THEN Len(h) ELSE Cap
<1>1. n \in Nat /\ n <= Cap /\ n <= Len(h) /\ Len(h) \in Nat
      /\ (DOMAIN h) \cap 1..Cap = 1..n
      /\ \A p \in 1..Len(h) : p <= Cap => p \in 1..n
  BY StoreAssumption
<1> HIDE DEF n
<1>2. Trim(h) = [p \in 1..n |-> h[p]]
  BY <1>1 DEF Trim
<1>3. \A p \in 1..n : p \in 1..Len(h) /\ h[p] \in Conversation
  BY <1>1
<1>4. Trim(h) \in [1..n -> Conversation] /\ \A p \in 1..n : Trim(h)[p] = h[p]
  BY <1>2, <1>3
<1>5. Trim(h) \in Seq(Conversation) /\ Len(Trim(h)) = n
  BY <1>1, <1>4
<1>6. Sound(Trim(h), now, I)
  BY <1>3, <1>4, <1>5 DEF Sound, NewestFirst, OnceEach
<1> QED
  BY <1>1, <1>4, <1>5, <1>6

\* What the list h becomes when the conversation c is saved.
Enters(g, h, c) == /\ \A m \in 1..Len(g) : \/ g[m] = c
                                            \/ \E p \in 1..Len(h) :
                                                  g[m] = h[p] /\ h[p].id # c.id
                   /\ \A p \in 1..Len(h) : h[p].id # c.id => \E m \in 1..Len(g) : g[m] = h[p]

LEMMA PrependEnters ==
    ASSUME NEW h \in Seq(Conversation), NEW now \in Nat, NEW I, NEW J, I \subseteq J,
           Sound(h, now, I),
           NEW c \in Conversation, c.time = now + 1, c.id \in J, c.id \notin Stored(h)
    PROVE  Enters(<<c>> \o h, h, c)
<1> DEFINE g == <<c>> \o h
<1>1. Len(g) = Len(h) + 1 /\ Len(h) \in Nat
      /\ g[1] = c /\ \A p \in 1..Len(h) : g[p + 1] = h[p]
  BY PrependSound
<1> HIDE DEF g
<1>2. ASSUME NEW p \in 1..Len(h)
      PROVE  h[p].id # c.id /\ p + 1 \in 1..Len(g) /\ g[p + 1] = h[p]
  BY <1>1 DEF Stored
<1>3. ASSUME NEW m \in 1..Len(g), m # 1
      PROVE  \E p \in 1..Len(h) : g[m] = h[p] /\ h[p].id # c.id
  <2>1. m - 1 \in 1..Len(h) /\ (m - 1) + 1 = m
    BY <1>1, <1>3
  <2> QED
    BY <1>2, <2>1
<1>4. Enters(g, h, c)
  BY <1>1, <1>2, <1>3 DEF Enters
<1> QED
  BY <1>4 DEF g

LEMMA UpdateSound ==
    ASSUME NEW h \in Seq(Conversation), NEW now \in Nat, NEW I, NEW J, I \subseteq J,
           Sound(h, now, I),
           NEW c \in Conversation, c.time = now + 1, c.id \in J
    PROVE  /\ Update(h, c) \in Seq(Conversation) /\ Sound(Update(h, c), now + 1, J)
           /\ Enters(Update(h, c), h, c)
           /\ c.id \in Stored(h) => 1 \in 1..Len(Update(h, c)) /\ Update(h, c)[1] = c
<1>1. CASE c.id \in Stored(h)
  <2>1. PICK w \in Seq(Conversation) :
           /\ w = Without(h, c.id) /\ Sound(w, now, I) /\ c.id \notin Stored(w)
           /\ \A m \in 1..Len(w) : \E p \in 1..Len(h) : w[m] = h[p]
           /\ \A p \in 1..Len(h) : h[p].id # c.id => \E m \in 1..Len(w) : w[m] = h[p]
    BY WithoutSound
  <2> DEFINE g == <<c>> \o w
  <2>2. Update(h, c) = g
    BY <1>1, <2>1 DEF Update
  <2>3. /\ g \in Seq(Conversation) /\ Sound(g, now + 1, J) /\ Enters(g, w, c)
        /\ Len(g) = Len(w) + 1 /\ Len(w) \in Nat /\ g[1] = c
    <3> Sound(w, now, I) /\ c.id \notin Stored(w)
      BY <2>1
    <3>1. <<c>> \o w \in Seq(Conversation)
      OBVIOUS
    <3>2. Sound(<<c>> \o w, now + 1, J)
      BY PrependSound
    <3>3. Len(<<c>> \o w) = Len(w) + 1
      BY PrependSound
    <3>4. (<<c>> \o w)[1] = c
      BY PrependSound
    <3>5. Enters(g, w, c)
      BY PrependEnters
    <3> QED
      BY <3>1, <3>2, <3>3, <3>4, <3>5
  <2> HIDE DEF g
  <2>4. Enters(g, h, c)
    <3>1. ASSUME NEW m \in 1..Len(g), g[m] # c
          PROVE  \E p \in 1..Len(h) : g[m] = h[p] /\ h[p].id # c.id
      <4>1. PICK q \in 1..Len(w) : g[m] = w[q] /\ w[q].id # c.id
        BY <2>3, <3>1 DEF Enters
      <4> QED
        BY <2>1, <4>1
    <3>2. ASSUME NEW p \in 1..Len(h), h[p].id # c.id
          PROVE  \E m \in 1..Len(g) : g[m] = h[p]
      <4>1. PICK q \in 1..Len(w) : w[q] = h[p]
        BY <2>1, <3>2
      <4> QED
        BY <2>3, <3>2, <4>1 DEF Enters
    <3> QED
      BY <3>1, <3>2 DEF Enters
  <2>5. 1 \in 1..Len(g)
    BY <2>3
  <2> QED
    BY <2>2, <2>3, <2>4, <2>5
<1>2. CASE c.id \notin Stored(h)
  <2>1. Update(h, c) = h
    BY <1>2 DEF Update
  <2>2. Sound(h, now + 1, J)
    <3>1. now + 1 \in Nat /\ now <= now + 1
      OBVIOUS
    <3> QED
      BY <3>1, SoundLater
  <2>3. Enters(h, h, c)
    BY <1>2 DEF Enters, Stored
  <2> QED
    BY <1>2, <2>1, <2>2, <2>3
<1> QED
  BY <1>1, <1>2

\* Only newer conversations stand before an entry, each once: when there are
\* fewer than Cap of them, trimming leaves the entry.
LEMMA FewBefore ==
    ASSUME NEW h \in Seq(Conversation), OnceEach(h), NEW m \in 1..Len(h),
           NEW N, IsFiniteSet(N), \A k \in 1..Len(h) : k < m => h[k].id \in N,
           Cardinality(N) < Cap
    PROVE  m <= Cap
<1> DEFINE before == 1..(m - 1)
           f == [k \in before |-> h[k].id]
<1>1. m \in Nat /\ m - 1 \in Nat /\ \A k \in before : k \in 1..Len(h) /\ k < m
  OBVIOUS
<1>2. IsFiniteSet(before) /\ Cardinality(before) = m - 1
  BY <1>1, FS_Interval
<1> HIDE DEF before
<1>3. f \in [before -> N]
  BY <1>1
<1>4. \A k, l \in before : f[k] = f[l] => k = l
  BY <1>1 DEF OnceEach
<1>5. f \in Injection(before, N)
  BY <1>3, <1>4 DEF Injection, IsInjective
<1> HIDE DEF f
<1>6. Cardinality(before) <= Cardinality(N)
  BY <1>5, FS_Injection
<1>7. Cardinality(N) \in Nat /\ Cap \in Nat
  BY FS_CardinalityType, StoreAssumption
<1> QED
  BY <1>1, <1>2, <1>6, <1>7

-----------------------------------------------------------------------------
(* Requests on their way.                                                  *)

LEMMA Joined ==
    ASSUME NEW S, NEW a \in Seq(S), NEW b \in Seq(S)
    PROVE  /\ a \o b \in Seq(S) /\ Len(a \o b) = Len(a) + Len(b)
           /\ \A k \in 1..Len(a) : (a \o b)[k] = a[k]
           /\ \A k \in 1..Len(b) : (a \o b)[Len(a) + k] = b[k]
BY ConcatProperties

LEMMA Part ==
    ASSUME NEW S, NEW s \in Seq(S), NEW l \in Nat, NEW m \in Nat, 1 <= l, l <= m + 1, m <= Len(s)
    PROVE  /\ SubSeq(s, l, m) \in Seq(S) /\ Len(SubSeq(s, l, m)) = m - l + 1
           /\ \A k \in 1..(m - l + 1) : SubSeq(s, l, m)[k] = s[l + k - 1]
<1>1. \A k \in l..m : s[k] \in S
  <2>1. \A k \in l..m : k \in 1..Len(s)
    OBVIOUS
  <2> QED
    BY <2>1
<1>2. l \in Int /\ m \in Int
  OBVIOUS
<1> QED
  BY <1>1, <1>2, SubSeqProperties

LEMMA WithoutPosition ==
    ASSUME NEW S, NEW s \in Seq(S), NEW p \in 1..Len(s)
    PROVE  LET d == SubSeq(s, 1, p - 1) \o SubSeq(s, p + 1, Len(s)) IN
           /\ d \in Seq(S) /\ Len(d) = Len(s) - 1
           /\ \A k \in 1..Len(d) : d[k] = IF k < p THEN s[k] ELSE s[k + 1]
<1>1. p \in Nat /\ p - 1 \in Nat /\ p + 1 \in Nat /\ 1 <= p /\ p <= Len(s) /\ Len(s) \in Nat
  OBVIOUS
<1>2. /\ SubSeq(s, 1, p - 1) \in Seq(S) /\ Len(SubSeq(s, 1, p - 1)) = p - 1
      /\ \A k \in 1..(p - 1) : SubSeq(s, 1, p - 1)[k] = s[k]
  <2>1. (p - 1) - 1 + 1 = p - 1 /\ \A k \in 1..(p - 1) : 1 + k - 1 = k
    BY <1>1
  <2> QED
    BY <1>1, <2>1, Part
<1>3. /\ SubSeq(s, p + 1, Len(s)) \in Seq(S) /\ Len(SubSeq(s, p + 1, Len(s))) = Len(s) - p
      /\ \A k \in 1..(Len(s) - p) : SubSeq(s, p + 1, Len(s))[k] = s[p + k]
  <2>1. /\ Len(s) - (p + 1) + 1 = Len(s) - p
        /\ \A k \in 1..(Len(s) - p) : (p + 1) + k - 1 = p + k
    BY <1>1
  <2>2. 1 <= p + 1 /\ p + 1 <= Len(s) + 1 /\ Len(s) <= Len(s)
    BY <1>1
  <2> DEFINE b == SubSeq(s, p + 1, Len(s))
  <2>3. /\ b \in Seq(S) /\ Len(b) = Len(s) - (p + 1) + 1
        /\ \A k \in 1..(Len(s) - (p + 1) + 1) : b[k] = s[(p + 1) + k - 1]
    BY <1>1, <2>2, Part
  <2> QED
    BY <2>1, <2>3
<1>4. PICK a \in Seq(S), b \in Seq(S) :
         a = SubSeq(s, 1, p - 1) /\ b = SubSeq(s, p + 1, Len(s))
  BY <1>2, <1>3
<1>5. /\ a \o b \in Seq(S) /\ Len(a \o b) = Len(s) - 1
      /\ \A k \in 1..(p - 1) : (a \o b)[k] = s[k]
      /\ \A k \in 1..(Len(s) - p) : (a \o b)[(p - 1) + k] = s[p + k]
  <2>1. Len(a) = p - 1 /\ Len(b) = Len(s) - p
    BY <1>2, <1>3, <1>4
  <2>2. /\ a \o b \in Seq(S) /\ Len(a \o b) = Len(a) + Len(b)
        /\ \A k \in 1..Len(a) : (a \o b)[k] = a[k]
        /\ \A k \in 1..Len(b) : (a \o b)[Len(a) + k] = b[k]
    BY Joined
  <2>3. Len(a \o b) = Len(s) - 1
    BY <1>1, <2>1, <2>2
  <2>4. \A k \in 1..(p - 1) : (a \o b)[k] = s[k]
    BY <1>2, <1>4, <2>1, <2>2
  <2>5. \A k \in 1..(Len(s) - p) : (a \o b)[(p - 1) + k] = s[p + k]
    BY <1>3, <1>4, <2>1, <2>2
  <2> QED
    BY <2>2, <2>3, <2>4, <2>5
<1>6. ASSUME NEW k \in 1..Len(a \o b)
      PROVE  (a \o b)[k] = IF k < p THEN s[k] ELSE s[k + 1]
  <2>1. CASE k < p
    <3>1. k \in 1..(p - 1)
      BY <1>1, <1>5, <2>1
    <3> QED
      BY <1>5, <2>1, <3>1
  <2>2. CASE ~(k < p)
    <3>1. k - (p - 1) \in 1..(Len(s) - p) /\ (p - 1) + (k - (p - 1)) = k
          /\ p + (k - (p - 1)) = k + 1
      BY <1>1, <1>5, <2>2
    <3>2. (a \o b)[(p - 1) + (k - (p - 1))] = s[p + (k - (p - 1))]
      BY <1>5, <3>1
    <3> QED
      BY <2>2, <3>1, <3>2
  <2> QED
    BY <2>1, <2>2
<1> QED
  BY <1>4, <1>5, <1>6

LEMMA DroppedRequests ==
    ASSUME NEW n \in Seq(Request), n = net, NEW p \in 1..Len(n)
    PROVE  /\ Dropped(p) \in Seq(Request) /\ Len(Dropped(p)) = Len(n) - 1
           /\ \A k \in 1..Len(Dropped(p)) :
                 Dropped(p)[k] = IF k < p THEN n[k] ELSE n[k + 1]
BY WithoutPosition DEF Dropped

\* A request that was neither delivered nor lost is one of those there were.
LEMMA DroppedAmong ==
    ASSUME net \in Seq(Request), NEW p \in 1..Len(net)
    PROVE  /\ Dropped(p) \in Seq(Request)
           /\ \A k \in 1..Len(Dropped(p)) : \E q \in 1..Len(net) : Dropped(p)[k] = net[q]
<1>1. PICK n \in Seq(Request) : n = net
  OBVIOUS
<1>2. /\ Dropped(p) \in Seq(Request) /\ Len(Dropped(p)) = Len(n) - 1
      /\ \A k \in 1..Len(Dropped(p)) :
            Dropped(p)[k] = IF k < p THEN n[k] ELSE n[k + 1]
  BY <1>1, DroppedRequests
<1>3. ASSUME NEW k \in 1..Len(Dropped(p))
      PROVE  \E q \in 1..Len(n) : Dropped(p)[k] = n[q]
  <2>1. k \in 1..Len(n) /\ k + 1 \in 1..Len(n)
    BY <1>2
  <2> QED
    BY <1>2, <2>1
<1> QED
  BY <1>1, <1>2, <1>3

LEMMA PrefixAmong ==
    ASSUME net \in Seq(Request), NEW n \in 0..Len(net)
    PROVE  /\ SubSeq(net, 1, n) \in Seq(Request)
           /\ \A k \in 1..Len(SubSeq(net, 1, n)) : \E q \in 1..Len(net) :
                 SubSeq(net, 1, n)[k] = net[q]
<1>1. n \in Nat /\ n <= Len(net) /\ Len(net) \in Nat
  OBVIOUS
<1>2. /\ SubSeq(net, 1, n) \in Seq(Request) /\ Len(SubSeq(net, 1, n)) = n
      /\ \A k \in 1..n : SubSeq(net, 1, n)[k] = net[k]
  <2>1. n - 1 + 1 = n /\ \A k \in 1..n : 1 + k - 1 = k
    BY <1>1
  <2> QED
    BY <1>1, <2>1, Part
<1>3. \A k \in 1..n : k \in 1..Len(net)
  BY <1>1
<1> QED
  BY <1>2, <1>3

LEMMA AppendAmong ==
    ASSUME net \in Seq(Request), NEW m \in Request
    PROVE  /\ Append(net, m) \in Seq(Request) /\ Len(Append(net, m)) = Len(net) + 1
           /\ \A k \in 1..Len(net) : Append(net, m)[k] = net[k]
           /\ Append(net, m)[Len(net) + 1] = m
           /\ \A k \in 1..Len(Append(net, m)) :
                 Append(net, m)[k] = m \/ \E q \in 1..Len(net) : Append(net, m)[k] = net[q]
<1>1. /\ Append(net, m) \in Seq(Request) /\ Len(Append(net, m)) = Len(net) + 1
      /\ \A k \in 1..Len(net) : Append(net, m)[k] = net[k]
      /\ Append(net, m)[Len(net) + 1] = m
      /\ Len(net) \in Nat
  OBVIOUS
<1>2. \A k \in 1..(Len(net) + 1) : k \in 1..Len(net) \/ k = Len(net) + 1
  BY <1>1
<1> QED
  BY <1>1, <1>2

LEMMA RequestFields ==
    ASSUME NEW m \in Request
    PROVE  /\ m.op \in {"PATCH", "DELETE"}
           /\ m.op = "PATCH" => m.doc \in Conversation
           /\ m.op = "DELETE" => m.id \in Ids
BY DEF Request

-----------------------------------------------------------------------------
(* The screen.                                                             *)

LEMMA InitIInv == Init => IInv
<1> SUFFICES ASSUME Init PROVE IInv
  OBVIOUS
<1>1. TypeOK
  <2>1. /\ <<>> \in Seq(Conversation) /\ <<>> \in Seq(Request) /\ Len(<<>>) = 0
        /\ 0 \in 0..MaxMessages /\ 0 \in 0..0 /\ 0 \in 0..MaxLosses /\ 0 <= Cap
    BY StoreAssumption
  <2> QED
    BY <2>1 DEF Init, TypeOK, NoList
<1>2. SavedIds = {}
  BY DEF Init, SavedIds
<1>3. Origins
  BY <1>2, EmptyIsSound, FS_EmptySet DEF Init, Origins, NoList
<1>4. OwnHistory /\ LocalKept
  BY DEF Init, OwnHistory, Current, LocalKept
<1> QED
  BY <1>1, <1>3, <1>4 DEF IInv

\* A message that is pushed to the entry it is linked to.
Grown(h, a, T) == [p \in DOMAIN h |-> IF h[p].id = a THEN [h[p] EXCEPT !.msgs = T] ELSE h[p]]

LEMMA GrownEntries ==
    ASSUME NEW h \in Seq(Conversation), NEW a, NEW T \in SUBSET Messages
    PROVE  /\ Grown(h, a, T) \in Seq(Conversation) /\ Len(Grown(h, a, T)) = Len(h)
           /\ \A p \in 1..Len(h) :
                 /\ Grown(h, a, T)[p].id = h[p].id /\ Grown(h, a, T)[p].time = h[p].time
                 /\ Grown(h, a, T)[p].msgs = IF h[p].id = a THEN T ELSE h[p].msgs
<1>1. DOMAIN h = 1..Len(h) /\ Len(h) \in Nat
  OBVIOUS
<1>2. ASSUME NEW p \in 1..Len(h)
      PROVE  LET g == IF h[p].id = a THEN [h[p] EXCEPT !.msgs = T] ELSE h[p] IN
             /\ g \in Conversation /\ g.id = h[p].id /\ g.time = h[p].time
             /\ g.msgs = IF h[p].id = a THEN T ELSE h[p].msgs
  <2>1. h[p] \in Conversation
    OBVIOUS
  <2> QED
    BY <2>1 DEF Conversation
<1>3. Grown(h, a, T) \in [1..Len(h) -> Conversation]
  BY <1>1, <1>2 DEF Grown
<1>4. \A p \in 1..Len(h) :
         Grown(h, a, T)[p] = IF h[p].id = a THEN [h[p] EXCEPT !.msgs = T] ELSE h[p]
  BY <1>1 DEF Grown
<1>5. Grown(h, a, T) \in Seq(Conversation) /\ Len(Grown(h, a, T)) = Len(h)
  BY <1>1, <1>3
<1> QED
  BY <1>2, <1>4, <1>5

LEMMA GrownSound ==
    ASSUME NEW h \in Seq(Conversation), NEW a, NEW T \in SUBSET Messages,
           NEW now, NEW I, Sound(h, now, I)
    PROVE  Sound(Grown(h, a, T), now, I) /\ Stored(Grown(h, a, T)) = Stored(h)
<1> DEFINE g == Grown(h, a, T)
<1>1. /\ Len(g) = Len(h) /\ DOMAIN g = 1..Len(h) /\ DOMAIN h = 1..Len(h)
      /\ \A p \in 1..Len(h) : g[p].id = h[p].id /\ g[p].time = h[p].time
  BY GrownEntries
<1> HIDE DEF g
<1>2. Sound(g, now, I) /\ Stored(g) = Stored(h)
  BY <1>1 DEF Sound, NewestFirst, OnceEach, Stored
<1> QED
  BY <1>2 DEF g

LEMMA SendStep ==
    ASSUME IInv, Send
    PROVE  IInv'
<1> USE DEF IInv
<1>1. /\ sent < MaxMessages /\ sent' = sent + 1 /\ runs' = runs + 1
      /\ transcript' = transcript \cup {sent'}
      /\ active' = active /\ clock' = clock /\ list' = list
      /\ net' = net /\ cloud' = cloud /\ lost' = lost
      /\ saved' = saved /\ deleted' = deleted /\ replaced' = replaced
  BY DEF Send, cloudVars, historyVars
<1>2. /\ sent' \in 0..MaxMessages /\ runs' \in 0..sent' /\ clock' \in 0..sent'
      /\ runs' + clock' <= sent' /\ transcript' \in SUBSET Messages
  <2>1. sent \in Nat /\ runs \in Nat /\ clock \in Nat /\ MaxMessages \in Nat
        /\ runs <= sent /\ clock <= sent /\ runs + clock <= sent
    BY StoreAssumption DEF TypeOK, Origins
  <2>2. sent' \in Messages
    BY <1>1, <2>1 DEF Messages
  <2> QED
    BY <1>1, <2>1, <2>2 DEF TypeOK
<1>3. \/ local' = local /\ linked' \in {linked, FALSE}
      \/ linked /\ linked' = linked /\ local' = Grown(local, active, transcript')
  BY DEF Send, GrowLinked, Grown
<1>4. SavedIds' = SavedIds
  BY <1>1 DEF SavedIds
<1>5. CASE local' = local /\ linked' \in {linked, FALSE}
  <2>1. TypeOK'
    BY <1>1, <1>2, <1>5 DEF TypeOK
  <2>2. Origins'
    BY <1>1, <1>2, <1>4, <1>5 DEF Origins
  <2>3. LocalKept'
    BY <1>1, <1>5 DEF LocalKept, Newer
  <2>4. OwnHistory'
    <3>1. ASSUME ~replaced, linked', NEW p \in 1..Len(local), local[p].id = active
          PROVE  local[p].msgs \subseteq transcript'
      BY <1>1, <1>5, <3>1 DEF OwnHistory
    <3> QED
      BY <1>1, <1>5, <3>1 DEF OwnHistory
  <2> QED
    BY <2>1, <2>2, <2>3, <2>4
<1>6. CASE linked /\ linked' = linked /\ local' = Grown(local, active, transcript')
  <2>1. /\ local' \in Seq(Conversation) /\ Len(local') = Len(local)
        /\ \A p \in 1..Len(local) :
              /\ local'[p].id = local[p].id /\ local'[p].time = local[p].time
              /\ local'[p].msgs = IF local[p].id = active THEN transcript' ELSE local[p].msgs
    BY <1>2, <1>6, GrownEntries DEF TypeOK
  <2>2. Sound(local', clock, SavedIds) /\ Stored(local') = Stored(local)
    BY <1>2, <1>6, GrownSound DEF TypeOK, Origins
  <2>3. TypeOK'
    BY <1>1, <1>2, <1>6, <2>1 DEF TypeOK
  <2>4. Origins'
    BY <1>1, <1>2, <1>4, <2>2 DEF Origins
  <2>5. ASSUME ~replaced, NEW p \in 1..Len(local)
        PROVE  local[p].msgs \subseteq local'[p].msgs
    BY <1>1, <1>6, <2>1, <2>5 DEF OwnHistory
  <2>6. OwnHistory'
    BY <1>1, <2>1, <2>2, <2>5 DEF OwnHistory, Current
  <2>7. LocalKept'
    <3> SUFFICES ASSUME ~replaced, NEW i \in Ids \ deleted, saved[i] # None,
                        Cardinality(Newer(i)) < Cap
                 PROVE  \E p \in DOMAIN local' : /\ local'[p].id = i
                                                 /\ saved[i].msgs \subseteq local'[p].msgs
      BY <1>1 DEF LocalKept, Newer
    <3>1. PICK p \in 1..Len(local) : local[p].id = i /\ saved[i].msgs \subseteq local[p].msgs
      BY DEF LocalKept, TypeOK
    <3>2. p \in DOMAIN local'
      BY <2>1
    <3> QED
      BY <2>1, <2>5, <3>1, <3>2
  <2> QED
    BY <2>3, <2>4, <2>6, <2>7
<1> QED
  BY <1>3, <1>5, <1>6

LEMMA NewChatStep ==
    ASSUME IInv, NewChat
    PROVE  IInv'
<1> USE DEF IInv
<1>1. /\ transcript' = {} /\ active' = None /\ linked' = FALSE
      /\ sent' = sent /\ runs' = runs /\ clock' = clock /\ local' = local /\ list' = list
      /\ net' = net /\ cloud' = cloud /\ lost' = lost
      /\ saved' = saved /\ deleted' = deleted /\ replaced' = replaced
  BY DEF NewChat, runVars, cloudVars, historyVars
<1>2. TypeOK'
  BY <1>1 DEF TypeOK
<1>3. Origins' /\ OwnHistory' /\ LocalKept'
  BY <1>1 DEF Origins, SavedIds, OwnHistory, LocalKept, Newer
<1> QED
  BY <1>2, <1>3

LEMMA LoadChatStep ==
    ASSUME IInv, LoadChat
    PROVE  IInv'
<1> USE DEF IInv
<1>1. /\ linked' = TRUE
      /\ sent' = sent /\ runs' = runs /\ clock' = clock /\ local' = local /\ list' = list
      /\ net' = net /\ cloud' = cloud /\ lost' = lost
      /\ saved' = saved /\ deleted' = deleted /\ replaced' = replaced
  BY DEF LoadChat, runVars, cloudVars, historyVars
<1>2. PICK p \in 1..Len(local) : transcript' = local[p].msgs /\ active' = local[p].id
  <2>1. DOMAIN local = 1..Len(local)
    BY DEF TypeOK
  <2> QED
    BY <2>1 DEF LoadChat
<1>3. local[p].id \in Ids /\ local[p].msgs \in SUBSET Messages
  BY Entries DEF TypeOK
<1>4. TypeOK'
  BY <1>1, <1>2, <1>3 DEF TypeOK
<1>5. Origins' /\ LocalKept'
  BY <1>1 DEF Origins, SavedIds, LocalKept, Newer
<1>6. OwnHistory'
  <2>1. active' \in Stored(local)
    BY <1>2 DEF Stored, TypeOK
  <2>2. \A q \in 1..Len(local) : local[q].id = active' => q = p
    BY <1>2 DEF Origins, Sound, OnceEach
  <2> QED
    BY <1>1, <1>2, <2>1, <2>2 DEF OwnHistory
<1> QED
  BY <1>4, <1>5, <1>6

LEMMA DeleteChatStep ==
    ASSUME IInv, DeleteChat
    PROVE  IInv'
<1> USE DEF IInv
<1>1. PICK i \in Stored(local) : /\ local' = Without(local, i)
                                /\ net' = Append(net, [op |-> "DELETE", id |-> i])
                                /\ deleted' = deleted \cup {i}
  BY DEF DeleteChat
<1>2. /\ linked' = FALSE /\ transcript' = transcript /\ active' = active
      /\ sent' = sent /\ runs' = runs /\ clock' = clock /\ list' = list
      /\ cloud' = cloud /\ lost' = lost /\ saved' = saved /\ replaced' = replaced
  BY DEF DeleteChat, runVars
<1>3. i \in Ids
  BY Entries DEF Stored, TypeOK
<1>4. PICK h \in Seq(Conversation) : h = local
  BY DEF TypeOK
<1>5. PICK w \in Seq(Conversation) :
         /\ w = Without(h, i) /\ Len(w) <= Len(h) /\ Sound(w, clock, SavedIds)
         /\ i \notin Stored(w)
         /\ \A m \in 1..Len(w) : \E p \in 1..Len(h) : w[m] = h[p]
         /\ \A p \in 1..Len(h) : h[p].id # i => \E m \in 1..Len(w) : w[m] = h[p]
  <2>1. clock \in Nat /\ Sound(h, clock, SavedIds)
    BY <1>4 DEF TypeOK, Origins
  <2> QED
    BY <2>1, WithoutSound
<1>6. local' = w /\ Len(w) \in Nat /\ Len(h) \in Nat
  BY <1>1, <1>4, <1>5
<1>7. [op |-> "DELETE", id |-> i] \in Request
  BY <1>3 DEF Request
<1>8. /\ net' \in Seq(Request)
      /\ \A k \in 1..Len(net') : \/ net'[k].op = "DELETE"
                                 \/ \E q \in 1..Len(net) : net'[k] = net[q]
  BY <1>1, <1>7, AppendAmong DEF TypeOK
<1>9. TypeOK'
  <2>1. Len(local') <= Cap \/ replaced
    BY <1>4, <1>5, <1>6, StoreAssumption DEF TypeOK
  <2> QED
    BY <1>1, <1>2, <1>3, <1>6, <1>8, <2>1 DEF TypeOK
<1>10. Origins'
  <2>1. SavedIds' = SavedIds
    BY <1>2 DEF SavedIds
  <2>2. \A k \in 1..Len(net') :
          net'[k].op = "PATCH" => net'[k].doc.time <= clock /\ net'[k].doc.id \in SavedIds
    BY <1>8 DEF Origins
  <2> QED
    BY <1>2, <1>5, <1>6, <2>1, <2>2 DEF Origins
<1>11. OwnHistory'
  <2>1. ASSUME ~replaced PROVE Current(w, saved)
    BY <1>4, <1>5, <2>1 DEF OwnHistory, Current
  <2>2. ASSUME ~replaced, active # None, active \notin deleted' PROVE active \in Stored(w)
    <3>1. active # i /\ active \in Stored(h)
      BY <1>1, <1>4, <2>2 DEF OwnHistory
    <3>2. PICK p \in 1..Len(h) : h[p].id = active
      BY <3>1 DEF Stored
    <3>3. PICK m \in 1..Len(w) : w[m] = h[p]
      BY <1>5, <3>1, <3>2
    <3> QED
      BY <3>2, <3>3 DEF Stored
  <2> QED
    BY <1>2, <1>6, <2>1, <2>2 DEF OwnHistory
<1>12. LocalKept'
  <2> SUFFICES ASSUME ~replaced, NEW j \in Ids \ deleted', saved[j] # None,
                      Cardinality(Newer(j)) < Cap
               PROVE  \E p \in DOMAIN w : w[p].id = j /\ saved[j].msgs \subseteq w[p].msgs
    BY <1>2, <1>6 DEF LocalKept, Newer
  <2>1. j \in Ids \ deleted /\ j # i
    BY <1>1
  <2>2. PICK p \in 1..Len(h) : h[p].id = j /\ saved[j].msgs \subseteq h[p].msgs
    BY <1>4, <2>1 DEF LocalKept
  <2>3. PICK m \in 1..Len(w) : w[m] = h[p]
    BY <1>5, <2>1, <2>2
  <2> QED
    BY <2>2, <2>3
<1> QED
  BY <1>9, <1>10, <1>11, <1>12

-----------------------------------------------------------------------------
(* A save.                                                                 *)

\* What RunEnds does when there is something to save: g is the history before
\* it is trimmed.
Saves(i, c, g) == /\ c \in Conversation /\ c.id = i /\ c.msgs = transcript /\ c.time = clock + 1
                  /\ i \in Ids /\ (active = None => saved[i] = None) /\ (active # None => i = active)
                  /\ g = IF active # None THEN Update(local, c) ELSE <<c>> \o local
                  /\ local' = Trim(g) /\ active' = i /\ linked' = FALSE
                  /\ clock' = clock + 1 /\ net' = Append(net, [op |-> "PATCH", doc |-> c])
                  /\ saved' = [saved EXCEPT ![i] = c]
                  /\ transcript' = transcript

LEMMA RunEndsSaves ==
    ASSUME IInv, RunEnds, transcript # {}
    PROVE  \E i \in Ids : \E c \in Conversation : \E g : Saves(i, c, g)
<1>1. PICK i \in IF active # None THEN {active} ELSE {j \in Ids : saved[j] = None} :
         LET c == [id |-> i, msgs |-> transcript, time |-> clock + 1] IN
         /\ local' = Trim(IF active # None THEN Update(local, c) ELSE <<c>> \o local)
         /\ active' = i /\ linked' = FALSE
         /\ clock' = clock + 1 /\ net' = Append(net, [op |-> "PATCH", doc |-> c])
         /\ saved' = [saved EXCEPT ![i] = c]
         /\ transcript' = transcript
  BY DEF RunEnds, Patch
<1>2. i \in Ids /\ (active = None => saved[i] = None) /\ (active # None => i = active)
  BY DEF IInv, TypeOK
<1> DEFINE c == [id |-> i, msgs |-> transcript, time |-> clock + 1]
<1>3. clock + 1 \in Nat /\ transcript \in SUBSET Messages
  BY DEF IInv, TypeOK
<1>4. c \in Conversation /\ c.id = i /\ c.msgs = transcript /\ c.time = clock + 1
  BY <1>2, <1>3 DEF Conversation
<1>5. Saves(i, c, IF active # None THEN Update(local, c) ELSE <<c>> \o local)
  <2> HIDE DEF c
  <2> QED
    BY <1>1, <1>2, <1>4 DEF Saves, c
<1> QED
  BY <1>2, <1>4, <1>5

\* The history before and after trimming.
LEMMA SavesList ==
    ASSUME IInv, NEW i \in Ids, NEW c \in Conversation, NEW g, Saves(i, c, g)
    PROVE  /\ SavedIds' = SavedIds \cup {i} /\ IsFiniteSet(SavedIds')
           /\ \A j \in Ids : saved'[j] = IF j = i THEN c ELSE saved[j]
           /\ g \in Seq(Conversation) /\ Sound(g, clock', SavedIds') /\ Enters(g, local, c)
           /\ active = None \/ i \in Stored(local) => 1 \in 1..Len(g) /\ g[1] = c
<1>1. c # None /\ \A j \in Ids : saved'[j] = IF j = i THEN c ELSE saved[j]
  BY StoreAssumption DEF Saves, IInv, TypeOK
<1>2. SavedIds' = SavedIds \cup {i}
  BY <1>1 DEF SavedIds
<1>3. IsFiniteSet(SavedIds')
  BY <1>2, FS_AddElement DEF IInv, Origins
<1>4. PICK h \in Seq(Conversation), now \in Nat : h = local /\ now = clock
  BY DEF IInv, TypeOK
<1>5. PICK I, J : I = SavedIds /\ J = SavedIds'
  OBVIOUS
<1>6. Sound(h, now, I) /\ I \subseteq J /\ c.time = now + 1 /\ c.id \in J /\ clock' = now + 1
  BY <1>2, <1>4, <1>5 DEF IInv, Origins, Saves
<1>7. CASE active # None
  <2>1. g = Update(h, c)
    BY <1>4, <1>7 DEF Saves
  <2>2. /\ Update(h, c) \in Seq(Conversation) /\ Sound(Update(h, c), now + 1, J)
        /\ Enters(Update(h, c), h, c)
        /\ c.id \in Stored(h) => 1 \in 1..Len(Update(h, c)) /\ Update(h, c)[1] = c
    BY <1>6, UpdateSound
  <2> QED
    BY <1>1, <1>2, <1>3, <1>4, <1>5, <1>6, <1>7, <2>1, <2>2 DEF Saves
<1>8. CASE active = None
  <2>1. g = <<c>> \o h
    BY <1>4, <1>8 DEF Saves
  <2>2. c.id \notin Stored(h)
    <3>1. i \notin SavedIds /\ c.id = i
      BY <1>8 DEF Saves, SavedIds
    <3> QED
      BY <1>4, <1>5, <1>6, <3>1 DEF Sound, Stored
  <2>3. /\ <<c>> \o h \in Seq(Conversation) /\ Len(<<c>> \o h) = Len(h) + 1
        /\ (<<c>> \o h)[1] = c /\ Sound(<<c>> \o h, now + 1, J)
    <3> Sound(h, now, I) /\ I \subseteq J /\ c.time = now + 1 /\ c.id \in J
        /\ c.id \notin Stored(h)
      BY <1>6, <2>2
    <3>1. <<c>> \o h \in Seq(Conversation)
      OBVIOUS
    <3>2. Sound(<<c>> \o h, now + 1, J)
      BY PrependSound
    <3>3. Len(<<c>> \o h) = Len(h) + 1
      BY PrependSound
    <3>4. (<<c>> \o h)[1] = c
      BY PrependSound
    <3> QED
      BY <3>1, <3>2, <3>3, <3>4
  <2>4. Enters(<<c>> \o h, h, c)
    BY <1>6, <2>2, PrependEnters
  <2>5. 1 \in 1..Len(<<c>> \o h)
    BY <2>3
  <2> QED
    BY <1>1, <1>2, <1>3, <1>4, <1>5, <1>6, <2>1, <2>3, <2>4, <2>5
<1> QED
  BY <1>7, <1>8

LEMMA SavesOrigins ==
    ASSUME IInv, NEW i \in Ids, NEW c \in Conversation, NEW g, Saves(i, c, g),
           runs > 0, runs' = runs - 1,
           UNCHANGED <<sent, list, cloud, lost, deleted, replaced>>
    PROVE  TypeOK' /\ Origins'
<1> USE DEF IInv
<1>1. /\ SavedIds' = SavedIds \cup {i} /\ IsFiniteSet(SavedIds')
      /\ \A j \in Ids : saved'[j] = IF j = i THEN c ELSE saved[j]
      /\ g \in Seq(Conversation) /\ Sound(g, clock', SavedIds')
  BY SavesList
<1>2. /\ local' \in Seq(Conversation) /\ Sound(local', clock', SavedIds') /\ Len(local') <= Cap
  BY <1>1, TrimSound DEF Saves
<1>3. /\ runs' \in 0..sent' /\ clock' \in 0..sent' /\ runs' + clock' <= sent'
      /\ clock \in Nat /\ clock' \in Nat /\ clock' = clock + 1
  <2>1. runs \in Nat /\ clock \in Nat /\ sent \in Nat /\ runs + clock <= sent /\ runs <= sent
    BY StoreAssumption DEF TypeOK, Origins
  <2> QED
    BY <2>1 DEF Saves
<1>4. /\ net' \in Seq(Request)
      /\ \A k \in 1..Len(net') : \/ net'[k] = [op |-> "PATCH", doc |-> c]
                                 \/ \E q \in 1..Len(net) : net'[k] = net[q]
  <2>1. [op |-> "PATCH", doc |-> c] \in Request
    BY DEF Request
  <2> QED
    BY <2>1, AppendAmong DEF Saves, TypeOK
<1>5. TypeOK'
  <2>1. saved' \in [Ids -> Conversation \cup {None}]
    BY DEF Saves, TypeOK
  <2> QED
    BY <1>2, <1>3, <1>4, <2>1 DEF Saves, TypeOK
<1>6. Sound(list.docs, clock', SavedIds')
  <2>1. list.docs \in Seq(Conversation) /\ clock <= clock' /\ SavedIds \subseteq SavedIds'
    BY <1>1, <1>3 DEF TypeOK
  <2> QED
    BY <1>3, <2>1, SoundLater DEF Origins
<1>7. \A k \in 1..Len(net') :
        net'[k].op = "PATCH" => net'[k].doc.time <= clock' /\ net'[k].doc.id \in SavedIds'
  <2> SUFFICES ASSUME NEW k \in 1..Len(net'), net'[k].op = "PATCH"
               PROVE  net'[k].doc.time <= clock' /\ net'[k].doc.id \in SavedIds'
    OBVIOUS
  <2>1. CASE net'[k] = [op |-> "PATCH", doc |-> c]
    <3>1. net'[k].doc = c /\ c.time <= clock' /\ c.id = i
      BY <1>3, <2>1 DEF Saves
    <3> QED
      BY <1>1, <3>1
  <2>2. CASE \E q \in 1..Len(net) : net'[k] = net[q]
    <3>1. PICK q \in 1..Len(net) : net'[k] = net[q]
      BY <2>2
    <3>2. net[q].doc.time \in Nat
      <4>1. net[q] \in Request
        BY DEF TypeOK
      <4>2. net[q].doc \in Conversation
        BY <3>1, <4>1, RequestFields
      <4> QED
        BY <4>2 DEF Conversation
    <3>3. net[q].doc.time <= clock /\ net[q].doc.id \in SavedIds
      BY <3>1 DEF Origins
    <3> QED
      BY <1>1, <1>3, <3>1, <3>2, <3>3
  <2> QED
    BY <1>4, <2>1, <2>2
<1>8. \A j \in Ids : cloud[j] # None =>
        cloud[j].id = j /\ cloud[j].time <= clock' /\ j \in SavedIds'
  <2> SUFFICES ASSUME NEW j \in Ids, cloud[j] # None
               PROVE  cloud[j].id = j /\ cloud[j].time <= clock' /\ j \in SavedIds'
    OBVIOUS
  <2>1. cloud[j] \in Conversation
    BY DEF TypeOK
  <2>2. cloud[j].time \in Nat /\ cloud[j].time <= clock /\ cloud[j].id = j /\ j \in SavedIds
    BY <2>1 DEF Conversation, Origins
  <2> QED
    BY <1>1, <1>3, <2>2
<1>9. \A j \in SavedIds' : saved'[j].id = j /\ saved'[j].time <= clock'
  <2> SUFFICES ASSUME NEW j \in SavedIds'
               PROVE  saved'[j].id = j /\ saved'[j].time <= clock'
    OBVIOUS
  <2>1. j \in Ids
    BY <1>1 DEF SavedIds
  <2>2. CASE j = i
    BY <1>1, <1>3, <2>2 DEF Saves
  <2>3. CASE j # i
    <3>1. j \in SavedIds /\ saved'[j] = saved[j]
      BY <1>1, <2>1, <2>3
    <3>2. saved[j] \in Conversation
      BY <2>1, <3>1 DEF TypeOK, SavedIds
    <3>3. saved[j].time \in Nat /\ saved[j].time <= clock /\ saved[j].id = j
      BY <3>1, <3>2 DEF Conversation, Origins
    <3> QED
      BY <1>3, <3>1, <3>3
  <2> QED
    BY <2>2, <2>3
<1>10. Origins'
  BY <1>1, <1>2, <1>3, <1>6, <1>7, <1>8, <1>9 DEF Origins
<1> QED
  BY <1>5, <1>10

LEMMA SavesHistory ==
    ASSUME IInv, NEW i \in Ids, NEW c \in Conversation, NEW g, Saves(i, c, g),
           UNCHANGED <<deleted, replaced>>
    PROVE  OwnHistory' /\ LocalKept'
<1> USE DEF IInv
<1> SUFFICES ASSUME ~replaced
             PROVE  OwnHistory' /\ LocalKept'
  BY DEF OwnHistory, LocalKept
<1>1. /\ SavedIds' = SavedIds \cup {i} /\ IsFiniteSet(SavedIds')
      /\ \A j \in Ids : saved'[j] = IF j = i THEN c ELSE saved[j]
      /\ g \in Seq(Conversation) /\ Sound(g, clock', SavedIds') /\ Enters(g, local, c)
      /\ active = None \/ i \in Stored(local) => 1 \in 1..Len(g) /\ g[1] = c
  BY SavesList
<1>2. /\ local' \in Seq(Conversation)
      /\ \A p \in 1..Len(g) : p <= Cap => p \in 1..Len(local')
      /\ \A p \in 1..Len(local') : local'[p] = g[p]
      /\ Len(local') <= Len(g)
  BY <1>1, TrimSound DEF Saves
<1>3. Current(g, saved')
  <2> SUFFICES ASSUME NEW m \in 1..Len(g)
               PROVE  /\ g[m].time = saved'[g[m].id].time
                      /\ saved'[g[m].id].msgs \subseteq g[m].msgs
    BY DEF Current
  <2>1. CASE g[m] = c
    BY <1>1, <2>1 DEF Saves
  <2>2. CASE g[m] # c
    <3>1. PICK p \in 1..Len(local) : g[m] = local[p] /\ local[p].id # c.id
      BY <1>1, <2>2 DEF Enters
    <3>2. local[p].id \in Ids
      BY Entries DEF TypeOK
    <3>3. saved'[local[p].id] = saved[local[p].id]
      BY <1>1, <3>1, <3>2 DEF Saves
    <3> QED
      BY <3>1, <3>3 DEF OwnHistory, Current
  <2> QED
    BY <2>1, <2>2
<1>4. Current(local', saved')
  <2>1. \A p \in 1..Len(local') : p \in 1..Len(g)
    BY <1>1, <1>2
  <2> QED
    BY <1>2, <1>3, <2>1 DEF Current
<1>5. i \notin deleted => 1 \in 1..Len(local') /\ local'[1] = c
  <2> SUFFICES ASSUME i \notin deleted PROVE 1 \in 1..Len(local') /\ local'[1] = c
    OBVIOUS
  <2>1. active = None \/ i \in Stored(local)
    BY DEF OwnHistory, Saves
  <2>2. 1 <= Cap
    BY StoreAssumption
  <2> QED
    BY <1>1, <1>2, <2>1, <2>2
<1>6. OwnHistory'
  <2>1. ASSUME active' # None, active' \notin deleted' PROVE active' \in Stored(local')
    <3>1. 1 \in 1..Len(local') /\ local'[1].id = active'
      BY <1>5, <2>1 DEF Saves
    <3> QED
      BY <1>2, <3>1 DEF Stored
  <2>2. ~linked'
    BY DEF Saves
  <2> QED
    BY <1>4, <2>1, <2>2 DEF OwnHistory
<1>7. LocalKept'
  <2> SUFFICES ASSUME NEW j \in Ids \ deleted, saved'[j] # None, Cardinality(Newer(j)') < Cap
               PROVE  \E p \in DOMAIN local' : /\ local'[p].id = j
                                               /\ saved'[j].msgs \subseteq local'[p].msgs
    BY DEF LocalKept
  <2>1. CASE j = i
    <3>1. 1 \in DOMAIN local' /\ local'[1] = c
      BY <1>2, <1>5, <2>1
    <3> QED
      BY <1>1, <2>1, <3>1 DEF Saves
  <2>2. CASE j # i
    <3>1. saved'[j] = saved[j] /\ saved[j] # None
      BY <1>1, <2>2
    <3>2. IsFiniteSet(Newer(j)')
      <4>1. Newer(j)' \subseteq SavedIds'
        BY DEF Newer, SavedIds
      <4> QED
        BY <1>1, <4>1, FS_Subset
    <3>3. Newer(j) \subseteq Newer(j)'
      <4> SUFFICES ASSUME NEW k \in Newer(j) PROVE k \in Newer(j)'
        OBVIOUS
      <4>1. k \in Ids /\ saved[k] # None /\ saved[k].time > saved[j].time
        BY DEF Newer
      <4>2. CASE k # i
        BY <1>1, <3>1, <4>1, <4>2 DEF Newer
      <4>3. CASE k = i
        <5>1. saved[j] \in Conversation /\ j \in SavedIds
          BY <3>1 DEF SavedIds, TypeOK
        <5>2. saved[j].time \in Nat /\ saved[j].time <= clock /\ clock \in Nat
          BY <5>1 DEF Conversation, Origins, TypeOK
        <5>3. saved'[k] = c /\ c.time = clock + 1 /\ c # None
          BY <1>1, <4>1, <4>3, StoreAssumption DEF Saves
        <5>4. saved'[k].time > saved'[j].time
          BY <3>1, <5>2, <5>3
        <5> QED
          BY <4>1, <5>3, <5>4 DEF Newer
      <4> QED
        BY <4>2, <4>3
    <3>4. Cardinality(Newer(j)) < Cap
      <4>1. Cardinality(Newer(j)) <= Cardinality(Newer(j)') /\ IsFiniteSet(Newer(j))
        BY <3>2, <3>3, FS_Subset
      <4>2. Cardinality(Newer(j)) \in Nat /\ Cardinality(Newer(j)') \in Nat /\ Cap \in Nat
        BY <3>2, <4>1, FS_CardinalityType, StoreAssumption
      <4> QED
        BY <4>1, <4>2
    <3>5. PICK p \in 1..Len(local) : local[p].id = j /\ saved[j].msgs \subseteq local[p].msgs
      <4>1. DOMAIN local = 1..Len(local)
        BY DEF TypeOK
      <4> QED
        BY <3>1, <3>4, <4>1 DEF LocalKept
    <3>6. PICK m \in 1..Len(g) : g[m] = local[p]
      <4>1. local[p].id # c.id
        BY <2>2, <3>5 DEF Saves
      <4> QED
        BY <1>1, <4>1 DEF Enters
    <3>7. \A k \in 1..Len(g) : k < m => g[k].id \in Newer(j)'
      <4> SUFFICES ASSUME NEW k \in 1..Len(g), k < m PROVE g[k].id \in Newer(j)'
        OBVIOUS
      <4>1. g[k].time > g[m].time
        BY <1>1 DEF Sound, NewestFirst
      <4>2. g[k].time = saved'[g[k].id].time /\ g[m].time = saved'[j].time
        BY <1>3, <3>5, <3>6 DEF Current
      <4>3. g[k].id \in SavedIds'
        BY <1>1 DEF Sound
      <4> QED
        BY <4>1, <4>2, <4>3 DEF Newer, SavedIds
    <3>8. m <= Cap
      BY <1>1, <3>2, <3>7, FewBefore DEF Sound
    <3>9. m \in DOMAIN local' /\ local'[m] = local[p]
      BY <1>2, <3>6, <3>8
    <3> QED
      BY <3>1, <3>5, <3>9
  <2> QED
    BY <2>1, <2>2
<1> QED
  BY <1>6, <1>7

LEMMA RunEndsStep ==
    ASSUME IInv, RunEnds
    PROVE  IInv'
<1>1. /\ runs > 0 /\ runs' = runs - 1
      /\ UNCHANGED <<sent, list, cloud, lost, deleted, replaced>>
  BY DEF RunEnds
<1>2. CASE transcript = {}
  <2> USE DEF IInv
  <2>1. /\ transcript' = transcript /\ active' = active /\ linked' = linked
        /\ clock' = clock /\ local' = local /\ net' = net /\ saved' = saved
    BY <1>2 DEF RunEnds, chatVars
  <2>2. runs' \in 0..sent' /\ runs' + clock' <= sent'
    <3>1. runs \in Nat /\ clock \in Nat /\ sent \in Nat /\ runs + clock <= sent /\ runs <= sent
      BY StoreAssumption DEF TypeOK, Origins
    <3> QED
      BY <1>1, <2>1, <3>1
  <2>3. TypeOK'
    BY <1>1, <2>1, <2>2 DEF TypeOK
  <2>4. Origins'
    BY <1>1, <2>1, <2>2 DEF Origins, SavedIds
  <2>5. OwnHistory' /\ LocalKept'
    BY <1>1, <2>1 DEF OwnHistory, LocalKept, Newer
  <2> QED
    BY <2>3, <2>4, <2>5
<1>3. CASE transcript # {}
  <2>1. PICK i \in Ids : \E c \in Conversation : \E g : Saves(i, c, g)
    BY <1>3, RunEndsSaves
  <2>2. PICK c \in Conversation : \E g : Saves(i, c, g)
    BY <2>1
  <2>3. PICK g : Saves(i, c, g)
    BY <2>2
  <2> QED
    BY <1>1, <2>3, SavesOrigins, SavesHistory DEF IInv
<1> QED
  BY <1>2, <1>3

-----------------------------------------------------------------------------
(* The cloud.                                                              *)

LEMMA FewerFit ==
    ASSUME NEW m \in Nat, NEW n \in Nat, NEW k \in Nat, NEW s \in Nat, m <= n, n + k <= s
    PROVE  m + k <= s
OBVIOUS

\* Some requests are left, and nothing else changes but the documents.
LEMMA FewerRequests ==
    ASSUME IInv, UNCHANGED <<sent, clock, local, saved>>,
           runs' \in 0..sent, runs' <= runs, list' = list \/ list' = NoList,
           net' \in Seq(Request),
           \A k \in 1..Len(net') : \E q \in 1..Len(net) : net'[k] = net[q],
           \A j \in Ids : \/ cloud'[j] = cloud[j] \/ cloud'[j] = None
                          \/ \E q \in 1..Len(net) : /\ net[q].op = "PATCH" /\ net[q].doc.id = j
                                                   /\ cloud'[j] = net[q].doc
    PROVE  Origins'
<1> USE DEF IInv
<1>1. SavedIds' = SavedIds
  BY DEF SavedIds
<1>2. runs' + clock <= sent
  <2>1. runs \in Nat /\ runs' \in Nat /\ clock \in Nat /\ sent \in Nat /\ runs + clock <= sent
    BY DEF TypeOK, Origins
  <2> QED
    BY <2>1, FewerFit
<1>3. Sound(list.docs, clock, SavedIds)'
  <2>1. Sound(<<>>, clock, SavedIds) /\ NoList.docs = <<>>
    BY EmptyIsSound DEF NoList
  <2> QED
    BY <1>1, <2>1 DEF Origins
<1>4. \A k \in 1..Len(net') :
        net'[k].op = "PATCH" => net'[k].doc.time <= clock /\ net'[k].doc.id \in SavedIds
  BY DEF Origins
<1>5. \A j \in Ids : cloud'[j] # None =>
        cloud'[j].id = j /\ cloud'[j].time <= clock /\ j \in SavedIds
  BY DEF Origins
<1> QED
  BY <1>1, <1>2, <1>3, <1>4, <1>5 DEF Origins

LEMMA ArriveStep ==
    ASSUME IInv, Arrive
    PROVE  IInv'
<1> USE DEF IInv
<1>1. PICK p \in 1..Len(net) : cloud' = Apply(net[p]) /\ net' = Dropped(p)
  <2>1. DOMAIN net = 1..Len(net)
    BY DEF TypeOK
  <2>2. Position \subseteq 1..Len(net)
    BY <2>1 DEF Position
  <2> QED
    BY <2>2 DEF Arrive
<1>2. /\ transcript' = transcript /\ active' = active /\ linked' = linked
      /\ sent' = sent /\ runs' = runs /\ clock' = clock /\ local' = local /\ list' = list
      /\ lost' = lost /\ saved' = saved /\ deleted' = deleted /\ replaced' = replaced
  BY DEF Arrive, hostVars, chatVars, runVars, historyVars
<1>3. /\ net' \in Seq(Request)
      /\ \A k \in 1..Len(net') : \E q \in 1..Len(net) : net'[k] = net[q]
  BY <1>1, DroppedAmong DEF TypeOK
<1>4. net[p] \in Request
  BY DEF TypeOK
<1>5. /\ net[p].op \in {"PATCH", "DELETE"}
      /\ net[p].op = "PATCH" => net[p].doc \in Conversation
      /\ net[p].op = "DELETE" => net[p].id \in Ids
  BY <1>4, RequestFields
<1>6. /\ cloud' \in [Ids -> Conversation \cup {None}]
      /\ \A j \in Ids : \/ cloud'[j] = cloud[j] \/ cloud'[j] = None
                        \/ net[p].op = "PATCH" /\ net[p].doc.id = j /\ cloud'[j] = net[p].doc
  <2>1. CASE net[p].op = "PATCH"
    <3>1. net[p].doc.id \in Ids
      BY <1>5, <2>1 DEF Conversation
    <3> QED
      BY <1>1, <1>5, <2>1, <3>1 DEF Apply, TypeOK
  <2>2. CASE net[p].op = "DELETE"
    BY <1>1, <1>5, <2>2 DEF Apply, TypeOK
  <2> QED
    BY <1>5, <2>1, <2>2
<1>7. TypeOK'
  BY <1>2, <1>3, <1>6 DEF TypeOK
<1>8. Origins'
  <2>1. runs' \in 0..sent /\ runs' <= runs
    BY <1>2 DEF TypeOK
  <2> QED
    BY <1>2, <1>3, <1>6, <2>1, FewerRequests
<1>9. OwnHistory' /\ LocalKept'
  BY <1>2 DEF OwnHistory, LocalKept, Newer
<1> QED
  BY <1>7, <1>8, <1>9

LEMMA LoseStep ==
    ASSUME IInv, Lose
    PROVE  IInv'
<1> USE DEF IInv
<1>1. PICK p \in 1..Len(net) : net' = Dropped(p)
  <2>1. DOMAIN net = 1..Len(net)
    BY DEF TypeOK
  <2>2. Position \subseteq 1..Len(net)
    BY <2>1 DEF Position
  <2> QED
    BY <2>2 DEF Lose
<1>2. /\ transcript' = transcript /\ active' = active /\ linked' = linked
      /\ sent' = sent /\ runs' = runs /\ clock' = clock /\ local' = local /\ list' = list
      /\ cloud' = cloud /\ saved' = saved /\ deleted' = deleted /\ replaced' = replaced
      /\ lost < MaxLosses /\ lost' = lost + 1
  BY DEF Lose, hostVars, chatVars, runVars, historyVars
<1>3. /\ net' \in Seq(Request)
      /\ \A k \in 1..Len(net') : \E q \in 1..Len(net) : net'[k] = net[q]
  BY <1>1, DroppedAmong DEF TypeOK
<1>4. TypeOK'
  <2>1. lost' \in 0..MaxLosses
    BY <1>2, StoreAssumption DEF TypeOK
  <2> QED
    BY <1>2, <1>3, <2>1 DEF TypeOK
<1>5. Origins'
  <2>1. runs' \in 0..sent /\ runs' <= runs
    BY <1>2 DEF TypeOK
  <2> QED
    BY <1>2, <1>3, <2>1, FewerRequests
<1>6. OwnHistory' /\ LocalKept'
  BY <1>2 DEF OwnHistory, LocalKept, Newer
<1> QED
  BY <1>4, <1>5, <1>6

LEMMA RestartStep ==
    ASSUME IInv, Restart
    PROVE  IInv'
<1> USE DEF IInv
<1>1. PICK n \in 0..Len(net) : /\ lost + (Len(net) - n) <= MaxLosses
                              /\ lost' = lost + (Len(net) - n)
                              /\ net' = SubSeq(net, 1, n)
  BY DEF Restart
<1>2. /\ transcript' = {} /\ active' = None /\ linked' = FALSE
      /\ sent' = sent /\ runs' = 0 /\ clock' = clock /\ local' = local /\ list' = NoList
      /\ cloud' = cloud /\ saved' = saved /\ deleted' = deleted /\ replaced' = replaced
  BY DEF Restart, historyVars
<1>3. /\ net' \in Seq(Request)
      /\ \A k \in 1..Len(net') : \E q \in 1..Len(net) : net'[k] = net[q]
  BY <1>1, PrefixAmong DEF TypeOK
<1>4. 0 \in 0..sent /\ 0 <= runs
  BY DEF TypeOK
<1>5. TypeOK'
  <2>1. lost' \in 0..MaxLosses
    <3>1. Len(net) \in Nat
      BY DEF TypeOK
    <3> QED
      BY <1>1, <3>1, StoreAssumption DEF TypeOK
  <2>2. list' \in [stage: {"none", "asked", "answered"}, docs: Seq(Conversation)]
    <3>1. <<>> \in Seq(Conversation)
      OBVIOUS
    <3> QED
      BY <1>2, <3>1 DEF NoList
  <2> QED
    BY <1>2, <1>3, <1>4, <2>1, <2>2 DEF TypeOK
<1>6. Origins'
  BY <1>2, <1>3, <1>4, FewerRequests
<1>7. OwnHistory' /\ LocalKept'
  BY <1>2 DEF OwnHistory, LocalKept, Newer
<1> QED
  BY <1>5, <1>6, <1>7

\* There are finitely many documents: each belongs to a conversation that was
\* saved.
LEMMA FinitelyManyDocuments ==
    ASSUME IInv
    PROVE  IsFiniteSet(Documents) /\ Documents \subseteq Conversation
<1> DEFINE D == {i \in Ids : cloud[i] # None}
           f == [i \in D |-> cloud[i]]
<1>1. IsFiniteSet(D)
  <2>1. D \subseteq SavedIds
    BY DEF IInv, Origins
  <2> QED
    BY <2>1, FS_Subset DEF IInv, Origins
<1>2. f \in Surjection(D, Documents)
  <2>1. f \in [D -> Documents]
    BY DEF Documents
  <2>2. \A d \in Documents : \E i \in D : f[i] = d
    BY DEF Documents
  <2> QED
    BY <2>1, <2>2 DEF Surjection
<1> HIDE DEF D, f
<1>3. IsFiniteSet(Documents)
  BY <1>1, <1>2, FS_Surjection
<1>4. Documents \subseteq Conversation
  BY DEF Documents, IInv, TypeOK
<1> QED
  BY <1>3, <1>4

LEMMA ListStep ==
    ASSUME IInv, ViewResolved \/ ListAnswered
    PROVE  IInv'
<1> USE DEF IInv
<1>1. /\ transcript' = transcript /\ active' = active /\ linked' = linked
      /\ sent' = sent /\ runs' = runs /\ clock' = clock /\ local' = local
      /\ net' = net /\ cloud' = cloud /\ lost' = lost
      /\ saved' = saved /\ deleted' = deleted /\ replaced' = replaced
  BY DEF ViewResolved, ListAnswered, chatVars, runVars, cloudVars, historyVars
<1>2. PICK d \in Seq(Conversation), stage \in {"asked", "answered"} :
         list' = [stage |-> stage, docs |-> d] /\ Sound(d, clock, SavedIds)
  <2>1. CASE list' = [stage |-> "asked", docs |-> <<>>]
    <3>1. <<>> \in Seq(Conversation) /\ Sound(<<>>, clock, SavedIds)
      BY EmptyIsSound
    <3> QED
      BY <2>1, <3>1
  <2>2. CASE ListAnswered
    <3>0. PICK page \in SUBSET Documents :
             \E h \in [1..Cardinality(page) -> page] :
                NewestFirst(h) /\ list' = [stage |-> "answered", docs |-> h]
      BY <2>2 DEF ListAnswered
    <3>1. PICK h \in [1..Cardinality(page) -> page] :
             NewestFirst(h) /\ list' = [stage |-> "answered", docs |-> h]
      BY <3>0
    <3>2. PICK n \in Nat : n = Cardinality(page)
      BY FinitelyManyDocuments, FS_Subset, FS_CardinalityType
    <3>3. h \in [1..n -> Conversation]
      BY <3>1, <3>2, FinitelyManyDocuments
    <3>4. h \in Seq(Conversation) /\ Len(h) = n
      BY <3>3
    <3>5. \A p \in 1..n : /\ h[p].time <= clock /\ h[p].id \in SavedIds
                          /\ h[p] = cloud[h[p].id] /\ h[p].time \in Nat
      <4> SUFFICES ASSUME NEW p \in 1..n
                   PROVE  /\ h[p].time <= clock /\ h[p].id \in SavedIds
                          /\ h[p] = cloud[h[p].id] /\ h[p].time \in Nat
        OBVIOUS
      <4>1. h[p] \in Documents
        BY <3>1, <3>2
      <4>2. PICK i \in Ids : h[p] = cloud[i] /\ cloud[i] # None
        BY <4>1 DEF Documents
      <4>3. h[p].time \in Nat
        BY <3>4, Entries
      <4> QED
        BY <4>2, <4>3 DEF Origins
    <3>6. OnceEach(h)
      <4> SUFFICES ASSUME NEW p \in 1..n, NEW q \in 1..n, h[p].id = h[q].id PROVE p = q
        BY <3>4 DEF OnceEach
      <4>1. h[p] = h[q] /\ h[p].time \in Nat
        BY <3>5
      <4>2. ~(h[p].time > h[q].time) /\ ~(h[q].time > h[p].time)
        BY <4>1
      <4>3. ~(p < q) /\ ~(q < p)
        BY <3>1, <3>3, <4>2 DEF NewestFirst
      <4>4. p \in Nat /\ q \in Nat
        BY <3>2
      <4> QED
        BY <4>3, <4>4
    <3>7. Sound(h, clock, SavedIds)
      BY <3>1, <3>4, <3>5, <3>6 DEF Sound
    <3> QED
      BY <3>1, <3>4, <3>7
  <2> QED
    BY <2>1, <2>2 DEF ViewResolved, ListAnswered
<1>3. TypeOK'
  <2>1. list' \in [stage: {"none", "asked", "answered"}, docs: Seq(Conversation)]
    BY <1>2
  <2> QED
    BY <1>1, <2>1 DEF TypeOK
<1>4. Origins'
  <2>1. list'.docs = d
    BY <1>2
  <2> QED
    BY <1>1, <1>2, <2>1 DEF Origins, SavedIds
<1>5. OwnHistory' /\ LocalKept'
  BY <1>1 DEF OwnHistory, LocalKept, Newer
<1> QED
  BY <1>3, <1>4, <1>5

LEMMA ListReceivedStep ==
    ASSUME IInv, ListReceived
    PROVE  IInv'
<1> USE DEF IInv
<1>1. /\ transcript' = transcript /\ active' = active
      /\ linked' = (linked /\ list.docs = <<>>) /\ list' = NoList
      /\ sent' = sent /\ runs' = runs /\ clock' = clock
      /\ net' = net /\ cloud' = cloud /\ lost' = lost
      /\ saved' = saved /\ deleted' = deleted
  BY DEF ListReceived, runVars, cloudVars
<1>2. \/ list.docs = <<>> /\ local' = local /\ replaced' = replaced
      \/ local' = list.docs /\ replaced' = TRUE
  BY DEF ListReceived, Replace
<1>3. <<>> \in Seq(Conversation) /\ NoList.docs = <<>> /\ Sound(<<>>, clock, SavedIds)
      /\ NoList \in [stage: {"none", "asked", "answered"}, docs: Seq(Conversation)]
  <2>1. <<>> \in Seq(Conversation)
    OBVIOUS
  <2> QED
    BY <2>1, EmptyIsSound DEF NoList
<1>4. local' \in Seq(Conversation) /\ Sound(local', clock, SavedIds)
  BY <1>2 DEF TypeOK, Origins
<1>5. TypeOK'
  <2>1. linked' \in BOOLEAN /\ replaced' \in BOOLEAN /\ (Len(local') <= Cap \/ replaced')
    BY <1>1, <1>2 DEF TypeOK
  <2> QED
    BY <1>1, <1>3, <1>4, <2>1 DEF TypeOK
<1>6. Origins'
  BY <1>1, <1>3, <1>4 DEF Origins, SavedIds
<1>7. OwnHistory' /\ LocalKept'
  <2>1. CASE replaced' = TRUE
    BY <2>1 DEF OwnHistory, LocalKept
  <2>2. CASE local' = local /\ replaced' = replaced
    <3>1. OwnHistory'
      BY <1>1, <2>2 DEF OwnHistory
    <3>2. LocalKept'
      BY <1>1, <2>2 DEF LocalKept, Newer
    <3> QED
      BY <3>1, <3>2
  <2> QED
    BY <1>2, <2>1, <2>2
<1> QED
  BY <1>5, <1>6, <1>7

LEMMA NextIInv == IInv /\ [Next]_vars => IInv'
<1> SUFFICES ASSUME IInv, [Next]_vars PROVE IInv'
  OBVIOUS
<1>1. CASE Next
  BY <1>1, SendStep, RunEndsStep, NewChatStep, LoadChatStep, DeleteChatStep, ArriveStep,
     LoseStep, ListStep, ListReceivedStep, RestartStep DEF Next
<1>2. CASE UNCHANGED vars
  <2>1. /\ transcript' = transcript /\ active' = active /\ linked' = linked
        /\ sent' = sent /\ runs' = runs /\ clock' = clock /\ local' = local /\ list' = list
        /\ net' = net /\ cloud' = cloud /\ lost' = lost
        /\ saved' = saved /\ deleted' = deleted /\ replaced' = replaced
    BY <1>2 DEF vars, hostVars, chatVars, runVars, cloudVars, historyVars
  <2>2. TypeOK'
    BY <2>1 DEF IInv, TypeOK
  <2>3. Origins' /\ OwnHistory' /\ LocalKept'
    BY <2>1 DEF IInv, Origins, SavedIds, OwnHistory, LocalKept, Newer
  <2> QED
    BY <2>2, <2>3 DEF IInv
<1> QED
  BY <1>1, <1>2

\* The invariant holds in every reachable state.
THEOREM Invariance == Spec => []IInv
BY InitIInv, NextIInv, PTL DEF Spec

\* Every variable of the store keeps its type; a history that is the extension's
\* own never grows beyond Cap (extension.ts:194-200, 213).
THEOREM TypeCorrect == Spec => []TypeOK
<1>1. IInv => TypeOK
  BY DEF IInv
<1> QED
  BY <1>1, Invariance, PTL

\* The history lists each conversation once, the most recently saved first,
\* whatever is loaded, deleted, lost or replaced (extension.ts:198-199, 210,
\* 213, 854).
THEOREM HistoryIsOrdered == Spec => []LocalOrdered
<1>1. IInv => LocalOrdered
  <2> SUFFICES ASSUME IInv PROVE LocalOrdered
    OBVIOUS
  <2>1. DOMAIN local = 1..Len(local)
    BY DEF IInv, TypeOK
  <2> QED
    BY <2>1 DEF IInv, Origins, Sound, OnceEach, LocalOrdered
<1> QED
  BY <1>1, Invariance, PTL

\* Until a list of documents replaces it, the history holds the last Cap saved
\* conversations with everything that was ever saved of them
\* (extension.ts:78, 194-200, 214).
THEOREM HistoryIsKept == Spec => []LocalKept
<1>1. IInv => LocalKept
  BY DEF IInv
<1> QED
  BY <1>1, Invariance, PTL

-----------------------------------------------------------------------------
(* What is saved and what is in the cloud.                                 *)

Patches(m, i) == m.op = "PATCH" /\ m.doc.id = i

\* The document is the last save, or the last request for it carries that save.
UpToDate(i) ==
    \/ /\ cloud[i] = saved[i]
       /\ \A q \in 1..Len(net) : ~Patches(net[q], i)
    \/ \E p \in 1..Len(net) : /\ Patches(net[p], i) /\ net[p].doc = saved[i]
                              /\ \A q \in (p + 1)..Len(net) : ~Patches(net[q], i)

\* While no request is lost, every conversation the user keeps is up to date.
Synchronised ==
    /\ \A q \in 1..Len(net) : net[q].op = "DELETE" => net[q].id \in deleted
    /\ deleted # {} => "deleteChat" \in Offered
    /\ lost = 0 => \A i \in SavedIds \ deleted : UpToDate(i)

LEMMA InitSynchronised == Init => Synchronised
<1> SUFFICES ASSUME Init PROVE Synchronised
  OBVIOUS
<1>1. Len(net) = 0 /\ deleted = {} /\ SavedIds = {}
  BY DEF Init, SavedIds
<1> QED
  BY <1>1 DEF Synchronised

\* Nothing is sent, delivered or lost.
LEMMA StillSynchronised ==
    ASSUME Synchronised, UNCHANGED <<net, cloud, lost, saved, deleted>>
    PROVE  Synchronised'
BY DEF Synchronised, SavedIds, UpToDate

\* A request for another conversation changes nothing for i.
LEMMA AppendUpToDate ==
    ASSUME net \in Seq(Request), NEW m \in Request, net' = Append(net, m),
           NEW i \in Ids, cloud'[i] = cloud[i], saved'[i] = saved[i],
           ~Patches(m, i), UpToDate(i)
    PROVE  UpToDate(i)'
<1>1. /\ Len(net') = Len(net) + 1 /\ Len(net) \in Nat
      /\ \A k \in 1..Len(net) : net'[k] = net[k]
      /\ net'[Len(net) + 1] = m
  BY AppendAmong
<1>2. \A k \in 1..Len(net') : k \in 1..Len(net) \/ net'[k] = m
  BY <1>1
<1>3. CASE cloud[i] = saved[i] /\ \A q \in 1..Len(net) : ~Patches(net[q], i)
  <2>1. \A q \in 1..Len(net') : ~Patches(net'[q], i)
    BY <1>1, <1>2, <1>3
  <2> QED
    BY <1>3, <2>1 DEF UpToDate
<1>4. CASE \E p \in 1..Len(net) : /\ Patches(net[p], i) /\ net[p].doc = saved[i]
                                 /\ \A q \in (p + 1)..Len(net) : ~Patches(net[q], i)
  <2>1. PICK p \in 1..Len(net) : /\ Patches(net[p], i) /\ net[p].doc = saved[i]
                                 /\ \A q \in (p + 1)..Len(net) : ~Patches(net[q], i)
    BY <1>4
  <2>2. p \in 1..Len(net') /\ net'[p] = net[p]
    BY <1>1
  <2>3. ASSUME NEW q \in (p + 1)..Len(net') PROVE ~Patches(net'[q], i)
    <3>1. q \in (p + 1)..Len(net) \/ q = Len(net) + 1
      BY <1>1
    <3>2. \A k \in (p + 1)..Len(net) : k \in 1..Len(net)
      BY <1>1
    <3> QED
      BY <1>1, <2>1, <3>1, <3>2
  <2>4. Patches(net'[p], i) /\ net'[p].doc = saved'[i]
    BY <2>1, <2>2
  <2> QED
    BY <2>2, <2>3, <2>4 DEF UpToDate
<1> QED
  BY <1>3, <1>4 DEF UpToDate

LEMMA DeleteChatSynchronised ==
    ASSUME IInv, Synchronised, DeleteChat
    PROVE  Synchronised'
<1>1. PICK d \in Stored(local) : /\ net' = Append(net, [op |-> "DELETE", id |-> d])
                                /\ deleted' = deleted \cup {d}
  BY DEF DeleteChat
<1>2. "deleteChat" \in Offered /\ cloud' = cloud /\ lost' = lost /\ saved' = saved
  BY DEF DeleteChat
<1>3. net \in Seq(Request) /\ d \in Ids
  BY Entries DEF IInv, Stored, TypeOK
<1>4. PICK m \in Request : m = [op |-> "DELETE", id |-> d]
  BY <1>3 DEF Request
<1>5. m.op = "DELETE" /\ m.id = d /\ net' = Append(net, m)
  BY <1>1, <1>4
<1>6. \A q \in 1..Len(net') : net'[q].op = "DELETE" => net'[q].id \in deleted'
  <2>1. \A k \in 1..Len(net') : net'[k] = m \/ \E q \in 1..Len(net) : net'[k] = net[q]
    BY <1>3, <1>5, AppendAmong
  <2> QED
    BY <1>1, <1>5, <2>1 DEF Synchronised
<1>7. ASSUME lost' = 0, NEW i \in SavedIds' \ deleted' PROVE UpToDate(i)'
  <2>1. i \in SavedIds \ deleted /\ i \in Ids /\ lost = 0
    BY <1>1, <1>2, <1>7 DEF SavedIds
  <2>2. UpToDate(i) /\ ~Patches(m, i)
    BY <1>5, <2>1 DEF Synchronised, Patches
  <2> QED
    BY <1>2, <1>3, <1>5, <2>1, <2>2, AppendUpToDate
<1> QED
  BY <1>2, <1>6, <1>7 DEF Synchronised

\* A save appends a request that carries it.
LEMMA RunEndsSynchronised ==
    ASSUME IInv, Synchronised, RunEnds
    PROVE  Synchronised'
<1>1. cloud' = cloud /\ lost' = lost /\ deleted' = deleted /\ net \in Seq(Request)
  BY DEF RunEnds, IInv, TypeOK
<1>2. CASE transcript = {}
  <2>1. net' = net /\ saved' = saved
    BY <1>2 DEF RunEnds
  <2> QED
    BY <1>1, <2>1, StillSynchronised
<1>3. CASE transcript # {}
  <2>1. PICK i \in Ids : \E c \in Conversation : \E g : Saves(i, c, g)
    BY <1>3, RunEndsSaves
  <2>2. PICK c \in Conversation : \E g : Saves(i, c, g)
    BY <2>1
  <2>3. PICK g : Saves(i, c, g)
    BY <2>2
  <2>4. /\ SavedIds' = SavedIds \cup {i}
        /\ \A j \in Ids : saved'[j] = IF j = i THEN c ELSE saved[j]
    BY <2>3, SavesList
  <2>5. PICK m \in Request : m = [op |-> "PATCH", doc |-> c]
    BY DEF Request
  <2>6. m.op = "PATCH" /\ m.doc = c /\ c.id = i /\ net' = Append(net, m)
    BY <2>3, <2>5 DEF Saves
  <2>7. /\ Len(net') = Len(net) + 1 /\ Len(net) \in Nat
        /\ net'[Len(net) + 1] = m
        /\ \A k \in 1..Len(net') : net'[k] = m \/ \E q \in 1..Len(net) : net'[k] = net[q]
    BY <1>1, <2>6, AppendAmong
  <2>8. \A q \in 1..Len(net') : net'[q].op = "DELETE" => net'[q].id \in deleted'
    BY <1>1, <2>6, <2>7 DEF Synchronised
  <2>9. ASSUME lost' = 0, NEW j \in SavedIds' \ deleted' PROVE UpToDate(j)'
    <3>1. CASE j = i
      <4> DEFINE p == Len(net) + 1
      <4>1. p \in 1..Len(net') /\ (p + 1)..Len(net') = {}
        BY <2>7
      <4>2. Patches(net'[p], i) /\ net'[p].doc = saved'[i]
        BY <2>4, <2>6, <2>7 DEF Patches
      <4> QED
        BY <3>1, <4>1, <4>2 DEF UpToDate
    <3>2. CASE j # i
      <4>1. j \in SavedIds \ deleted /\ j \in Ids /\ lost = 0
        BY <1>1, <2>4, <2>9, <3>2 DEF SavedIds
      <4>2. UpToDate(j) /\ ~Patches(m, j) /\ cloud'[j] = cloud[j] /\ saved'[j] = saved[j]
        BY <1>1, <2>4, <2>6, <3>2, <4>1 DEF Synchronised, Patches
      <4> QED
        BY <1>1, <2>6, <4>1, <4>2, AppendUpToDate
    <3> QED
      BY <3>1, <3>2
  <2> QED
    BY <1>1, <2>8, <2>9 DEF Synchronised
<1> QED
  BY <1>2, <1>3

\* In order, the first request is the one that is delivered.
LEMMA ArriveSynchronised ==
    ASSUME ~Reorders, IInv, Synchronised, Arrive
    PROVE  Synchronised'
<1>1. lost' = lost /\ saved' = saved /\ deleted' = deleted
  BY DEF Arrive, historyVars
<1>2. PICK n \in Seq(Request) : n = net
  BY DEF IInv, TypeOK
<1>3. 1 \in 1..Len(n) /\ cloud' = Apply(n[1]) /\ net' = Dropped(1)
  <2>1. DOMAIN net = 1..Len(n)
    BY <1>2
  <2>2. Position \subseteq 1..Len(n) \cap {1}
    BY <2>1 DEF Position
  <2> QED
    BY <1>2, <2>2 DEF Arrive
<1>4. /\ net' \in Seq(Request) /\ Len(net') = Len(n) - 1
      /\ \A k \in 1..Len(net') : net'[k] = n[k + 1]
  <2>1. /\ Dropped(1) \in Seq(Request) /\ Len(Dropped(1)) = Len(n) - 1
        /\ \A k \in 1..Len(Dropped(1)) : Dropped(1)[k] = IF k < 1 THEN n[k] ELSE n[k + 1]
    BY <1>2, <1>3, DroppedRequests
  <2>2. \A k \in 1..Len(Dropped(1)) : ~(k < 1)
    BY <2>1
  <2> QED
    BY <1>3, <2>1, <2>2
<1>5. Len(n) \in Nat /\ \A k \in 1..Len(net') : k + 1 \in 1..Len(n)
  BY <1>4
<1>6. \A q \in 1..Len(net') : net'[q].op = "DELETE" => net'[q].id \in deleted'
  BY <1>1, <1>2, <1>4, <1>5 DEF Synchronised
<1>7. n[1] \in Request /\ n[1].op \in {"PATCH", "DELETE"}
      /\ (n[1].op = "PATCH" => n[1].doc \in Conversation)
  <2>1. n[1] \in Request
    BY <1>3
  <2> QED
    BY <2>1, RequestFields
<1>8. ASSUME lost' = 0, NEW i \in SavedIds' \ deleted' PROVE UpToDate(i)'
  <2>1. i \in SavedIds \ deleted /\ i \in Ids /\ lost = 0
    BY <1>1, <1>8 DEF SavedIds
  <2>2. cloud'[i] = IF Patches(n[1], i) THEN n[1].doc ELSE cloud[i]
    <3>1. CASE n[1].op = "PATCH"
      BY <1>3, <2>1, <3>1 DEF Apply, Patches, IInv, TypeOK
    <3>2. CASE n[1].op = "DELETE"
      <4>1. n[1].id \in deleted
        BY <1>2, <1>3, <3>2 DEF Synchronised
      <4> QED
        BY <1>3, <2>1, <3>2, <4>1 DEF Apply, Patches, IInv, TypeOK
    <3> QED
      BY <1>7, <3>1, <3>2
  <2>3. CASE cloud[i] = saved[i] /\ \A q \in 1..Len(n) : ~Patches(n[q], i)
    <3>1. cloud'[i] = saved'[i]
      BY <1>1, <1>3, <2>2, <2>3
    <3>2. \A q \in 1..Len(net') : ~Patches(net'[q], i)
      BY <1>4, <1>5, <2>3
    <3> QED
      BY <3>1, <3>2 DEF UpToDate
  <2>4. CASE \E p \in 1..Len(n) : /\ Patches(n[p], i) /\ n[p].doc = saved[i]
                                 /\ \A q \in (p + 1)..Len(n) : ~Patches(n[q], i)
    <3>1. PICK p \in 1..Len(n) : /\ Patches(n[p], i) /\ n[p].doc = saved[i]
                                 /\ \A q \in (p + 1)..Len(n) : ~Patches(n[q], i)
      BY <2>4
    <3>2. CASE p = 1
      <4>1. cloud'[i] = saved'[i]
        BY <1>1, <2>2, <3>1, <3>2
      <4>2. \A q \in 1..Len(net') : q + 1 \in (p + 1)..Len(n)
        BY <1>4, <1>5, <3>2
      <4>3. \A q \in 1..Len(net') : ~Patches(net'[q], i)
        BY <1>4, <3>1, <4>2
      <4> QED
        BY <4>1, <4>3 DEF UpToDate
    <3>3. CASE p # 1
      <4>1. p - 1 \in 1..Len(net') /\ (p - 1) + 1 = p
        BY <1>4, <1>5, <3>3
      <4>2. net'[p - 1] = n[p]
        BY <1>4, <4>1
      <4>3. ASSUME NEW q \in ((p - 1) + 1)..Len(net') PROVE ~Patches(net'[q], i)
        <5>1. q \in 1..Len(net') /\ q + 1 \in (p + 1)..Len(n)
          BY <1>4, <1>5
        <5> QED
          BY <1>4, <3>1, <5>1
      <4>4. Patches(net'[p - 1], i) /\ net'[p - 1].doc = saved'[i]
        BY <1>1, <3>1, <4>2
      <4> QED
        BY <4>1, <4>3, <4>4 DEF UpToDate
    <3> QED
      BY <3>2, <3>3
  <2>5. UpToDate(i)
    BY <2>1 DEF Synchronised
  <2> QED
    BY <1>2, <2>3, <2>4, <2>5 DEF UpToDate
<1> QED
  BY <1>1, <1>6, <1>8 DEF Synchronised

\* Once a request is lost nothing is promised any more.
LEMMA LoseSynchronised ==
    ASSUME IInv, Synchronised, Lose
    PROVE  Synchronised'
<1>1. lost' = lost + 1 /\ deleted' = deleted /\ lost' # 0
  BY StoreAssumption DEF Lose, historyVars, IInv, TypeOK
<1>2. PICK p \in 1..Len(net) : net' = Dropped(p)
  <2>1. DOMAIN net = 1..Len(net)
    BY DEF IInv, TypeOK
  <2>2. Position \subseteq 1..Len(net)
    BY <2>1 DEF Position
  <2> QED
    BY <2>2 DEF Lose
<1>3. \A k \in 1..Len(net') : \E q \in 1..Len(net) : net'[k] = net[q]
  BY <1>2, DroppedAmong DEF IInv, TypeOK
<1> QED
  BY <1>1, <1>3 DEF Synchronised

LEMMA RestartSynchronised ==
    ASSUME IInv, Synchronised, Restart
    PROVE  Synchronised'
<1>1. PICK n \in 0..Len(net) : lost' = lost + (Len(net) - n) /\ net' = SubSeq(net, 1, n)
  BY DEF Restart
<1>2. cloud' = cloud /\ saved' = saved /\ deleted' = deleted
  BY DEF Restart, historyVars
<1>3. net \in Seq(Request) /\ Len(net) \in Nat /\ lost \in Nat
  BY StoreAssumption DEF IInv, TypeOK
<1>4. CASE n = Len(net)
  <2>1. SubSeq(net, 1, Len(net)) = net
    BY <1>3
  <2> QED
    BY <1>1, <1>2, <1>3, <1>4, <2>1, StillSynchronised
<1>5. CASE n # Len(net)
  <2>1. lost' # 0
    BY <1>1, <1>3, <1>5
  <2>2. \A k \in 1..Len(net') : \E q \in 1..Len(net) : net'[k] = net[q]
    BY <1>1, <1>3, PrefixAmong
  <2> QED
    BY <1>2, <2>1, <2>2 DEF Synchronised
<1> QED
  BY <1>4, <1>5

LEMMA NextSynchronised ==
    ASSUME ~Reorders
    PROVE  IInv /\ Synchronised /\ [Next]_vars => Synchronised'
<1> SUFFICES ASSUME IInv, Synchronised, [Next]_vars PROVE Synchronised'
  OBVIOUS
<1>1. CASE Send \/ NewChat \/ LoadChat \/ ViewResolved \/ ListAnswered \/ ListReceived
           \/ UNCHANGED vars
  <2>1. UNCHANGED <<net, cloud, lost, saved, deleted>>
    BY <1>1 DEF Send, NewChat, LoadChat, ViewResolved, ListAnswered, ListReceived,
                vars, cloudVars, historyVars
  <2> QED
    BY <2>1, StillSynchronised
<1> QED
  BY <1>1, RunEndsSynchronised, DeleteChatSynchronised, ArriveSynchronised,
     LoseSynchronised, RestartSynchronised DEF Next

\* When requests arrive in the order they were sent, the document of every
\* conversation the user has not deleted is its last save, or will be when the
\* requests on their way have arrived, as long as none was lost
\* (extension.ts:197-214, 817-835).
THEOREM CloudFollows ==
    ASSUME ~Reorders
    PROVE  Spec => []Synchronised
<1>1. IInv /\ Synchronised /\ [Next]_vars => Synchronised'
  BY NextSynchronised
<1> QED
  BY <1>1, InitSynchronised, Invariance, PTL DEF Spec

LEMMA UpToDateIsKept ==
    ASSUME IInv, Synchronised, lost = 0, deleted = {}
    PROVE  CloudKept
<1> SUFFICES ASSUME NEW i \in Ids, saved[i] # None, NEW m \in saved[i].msgs
             PROVE  \/ cloud[i] # None /\ m \in cloud[i].msgs
                    \/ \E p \in InFlight(i) : m \in net[p].doc.msgs
  BY DEF CloudKept
<1>1. UpToDate(i)
  BY DEF Synchronised, SavedIds
<1>2. DOMAIN net = 1..Len(net)
  BY DEF IInv, TypeOK
<1> QED
  BY <1>1, <1>2 DEF UpToDate, Patches, InFlight

\* Whatever was saved of a conversation is in its document or on its way there,
\* when no request fails or overtakes another and the webview offers no way to
\* delete a conversation (extension.ts:197-214, 817-835).
THEOREM CloudIsKept ==
    ASSUME ~Reorders, MaxLosses = 0, "deleteChat" \notin Offered
    PROVE  Spec => []CloudKept
<1>1. IInv /\ Synchronised => CloudKept
  <2> SUFFICES ASSUME IInv, Synchronised PROVE CloudKept
    OBVIOUS
  <2>1. lost = 0 /\ deleted = {}
    BY DEF IInv, TypeOK, Synchronised
  <2> QED
    BY <2>1, UpToDateIsKept
<1>2. Spec => []Synchronised
  BY CloudFollows
<1> QED
  BY <1>1, <1>2, Invariance, PTL

\* What was saved disappears from the history and the cloud only after a request
\* was lost or the user deleted something: restarts, the list that replaces the
\* history and its cap do not suffice (extension.ts:76-82, 197-214).
THEOREM LostOnlyByLoss ==
    ASSUME ~Reorders
    PROVE  Spec => [](lost = 0 /\ deleted = {} => HistoryPersisted)
<1>1. IInv /\ Synchronised => (lost = 0 /\ deleted = {} => HistoryPersisted)
  BY UpToDateIsKept DEF CloudKept, HistoryPersisted
<1>2. Spec => []Synchronised
  BY CloudFollows
<1> QED
  BY <1>1, <1>2, Invariance, PTL
=============================================================================
