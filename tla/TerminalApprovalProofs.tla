------------------------- MODULE TerminalApprovalProofs -------------------------
(***************************************************************************)
(* Proofs about TerminalApproval, for any number of commands and ids: the  *)
(* types, what an approval id still guarantees when calls share one, that  *)
(* switch and provider agree, and, with one terminal call per answer, that *)
(* the tool implements ApprovalGate.                                       *)
(***************************************************************************)
EXTENDS TerminalApproval, FiniteSetTheorems, TLAPS

-----------------------------------------------------------------------------
(* Types.  An id is given when a call is proposed in secure mode; cards,    *)
(* clicks and resolvers belong to such calls only.                          *)

Named ==
    /\ \A c \in Cmds : cmd[c] = "idle" =>
          idOf[c] = None /\ card[c] = "none" /\ clicked[c] = "none"
    /\ \A c \in Cmds : idOf[c] \in used \cup {None}
    /\ \A c \in Cmds : card[c] # "none" => idOf[c] # None
    /\ \A c \in Cmds : clicked[c] # "none" => card[c] # "none"
    /\ \A i \in Ids : pending[i] # None =>
          cmd[pending[i]] = "waiting" /\ idOf[pending[i]] = i

CardsNamed ==
    \A k \in DOMAIN toView : toView[k].type = "approval" => idOf[toView[k].cmd] # None

Sane == TypeOK /\ Named /\ CardsNamed

\* What an answer in secure mode does, its choices picked.
Proposed(B, q, ids, last) ==
    /\ B \in SUBSET Cmds /\ IsFiniteSet(B) /\ B # {} /\ Cardinality(B) <= MaxBatch
    /\ \A c \in B : cmd[c] = "idle"
    /\ q \in [1..Cardinality(B) -> B] /\ ids \in [B -> Ids \ used]
    /\ last \in [{ids[c] : c \in B} -> DOMAIN q] /\ IsLast(last, q, ids)
    /\ cmd' = [c \in Cmds |-> IF c \in B THEN "waiting" ELSE cmd[c]]
    /\ idOf' = [c \in Cmds |-> IF c \in B THEN ids[c] ELSE idOf[c]]
    /\ used' = used \cup {ids[c] : c \in B}
    /\ pending' = [i \in Ids |-> IF i \in DOMAIN last THEN q[last[i]] ELSE pending[i]]
    /\ Post(Cards(q))
    /\ UNCHANGED <<mode, toHost, viewVars, cardVars, modeVars>>

LEMMA ProposeSecureIs == ASSUME ProposeSecure PROVE \E B, q, ids, last : Proposed(B, q, ids, last)
<1>1. PICK B \in Batches : \E q \in Orders(B) : \E ids \in [B -> Ids \ used] :
          /\ cmd' = [c \in Cmds |-> IF c \in B THEN "waiting" ELSE cmd[c]]
          /\ Register(B, q, ids)
          /\ Post(Cards(q))
  BY DEF ProposeSecure
<1>2. PICK q \in Orders(B), ids \in [B -> Ids \ used] :
          /\ cmd' = [c \in Cmds |-> IF c \in B THEN "waiting" ELSE cmd[c]]
          /\ Register(B, q, ids)
          /\ Post(Cards(q))
  BY <1>1
<1>3. PICK last \in [{ids[c] : c \in B} -> DOMAIN q] :
          /\ IsLast(last, q, ids)
          /\ pending' = [i \in Ids |-> IF i \in DOMAIN last THEN q[last[i]] ELSE pending[i]]
  BY <1>2 DEF Register
<1>4. B \in SUBSET Cmds /\ B # {} /\ Cardinality(B) <= MaxBatch /\ \A c \in B : cmd[c] = "idle"
  BY <1>1 DEF Batches
<1>5. IsFiniteSet(B)
  BY <1>4, FS_Subset, ApprovalAssumption
<1>6. q \in [1..Cardinality(B) -> B]
  BY <1>2 DEF Orders
<1>7. Proposed(B, q, ids, last)
  BY <1>2, <1>3, <1>4, <1>5, <1>6 DEF Proposed, ProposeSecure, Register
<1>8. QED
  BY <1>7

\* A button of a card.
Choice(b) == IF b THEN "approve" ELSE "reject"

Pressed(c, b) ==
    /\ card[c] # "none"
    /\ \E x \in {"answered", "dimmed"} : card' = [card EXCEPT ![c] = x]
    /\ FirstClick(c, Choice(b))
    /\ toHost' = Append(toHost, Approval(c, b))
    /\ UNCHANGED <<hostVars, toView, viewVars, modeVars>>

LEMMA ClickIs ==
    ASSUME NEW c, ClickApprove(c) \/ ClickReject(c)
    PROVE  \E b \in BOOLEAN : Pressed(c, b)
<1>1. CASE ClickApprove(c)
  <2>1. Pressed(c, TRUE)
    BY <1>1 DEF ClickApprove, Pressed, Choice
  <2>2. QED
    BY <2>1
<1>2. CASE ClickReject(c)
  <2>1. Pressed(c, FALSE)
    BY <1>2 DEF ClickReject, Pressed, Choice
  <2>2. QED
    BY <2>1
<1>3. QED
  BY <1>1, <1>2

\* What is posted to the view goes behind what is queued, or nowhere.
LEMMA PostKeeps ==
    ASSUME toView \in Seq(ViewMessage), NEW ms \in Seq(ViewMessage), Post(ms)
    PROVE  /\ toView' \in Seq(ViewMessage)
           /\ \A k \in DOMAIN toView : k \in DOMAIN toView' /\ toView'[k] = toView[k]
           /\ \A k \in DOMAIN toView' :
                 \/ k \in DOMAIN toView /\ toView'[k] = toView[k]
                 \/ \E j \in DOMAIN ms : toView'[k] = ms[j]
<1>1. CASE visible
  <2>1. toView' = toView \o ms
    BY <1>1 DEF Post
  <2>2. \A k \in DOMAIN toView' :
           \/ k \in DOMAIN toView /\ toView'[k] = toView[k]
           \/ k - Len(toView) \in DOMAIN ms /\ toView'[k] = ms[k - Len(toView)]
    BY <2>1
  <2>3. QED
    BY <2>1, <2>2
<1>2. CASE ~visible
  BY <1>2 DEF Post
<1>3. QED
  BY <1>1, <1>2

\* A message with a mode is one of the view's, and the only one of its sequence.
LEMMA ModeMessageIs ==
    ASSUME NEW v \in Modes, NEW ms, ms = <<ModeMessage(v)>>
    PROVE  ms \in Seq(ViewMessage) /\ \A j \in DOMAIN ms : ms[j].type = "mode"
<1>1. PICK m : m = ModeMessage(v)
  OBVIOUS
<1>2. m \in ViewMessage /\ m.type = "mode"
  BY <1>1 DEF ModeMessage, ViewMessage
<1>3. ms = <<m>>
  BY <1>1
<1>4. QED
  BY <1>2, <1>3

\* The cards of an answer, as messages.
LEMMA CardsAre ==
    ASSUME NEW B, NEW q, NEW ids, NEW last, Proposed(B, q, ids, last)
    PROVE  /\ Cards(q) \in Seq(ViewMessage)
           /\ \A j \in DOMAIN Cards(q) : Cards(q)[j].type = "approval" /\ Cards(q)[j].cmd \in B
<1>1. Cardinality(B) \in Nat
  BY FS_CardinalityType DEF Proposed
<1>2. \A p \in 1..Cardinality(B) : /\ [type |-> "approval", cmd |-> q[p]] \in ViewMessage
                                   /\ [type |-> "approval", cmd |-> q[p]].type = "approval"
                                   /\ [type |-> "approval", cmd |-> q[p]].cmd \in B
  BY DEF Proposed, ViewMessage
<1>3. DOMAIN q = 1..Cardinality(B)
  BY DEF Proposed
<1>4. QED
  BY <1>1, <1>2, <1>3 DEF Cards

LEMMA SaneInit == Init => Sane
<1> SUFFICES ASSUME Init PROVE Sane
  OBVIOUS
<1>0. toHost \in Seq(HostMessage) /\ toView \in Seq(ViewMessage)
  <2>1. toHost = <<>> /\ toView = <<>>
    BY DEF Init
  <2>2. \A S : <<>> \in Seq(S)
    OBVIOUS
  <2>3. QED
    BY <2>1, <2>2
<1>1. TypeOK
  BY <1>0 DEF Init, StoredMode, TypeOK, Modes
<1>2. Named
  BY DEF Init, Named
<1>3. CardsNamed
  BY DEF Init, CardsNamed
<1>4. QED
  BY <1>1, <1>2, <1>3 DEF Sane

LEMMA SaneProposeSecure ==
    ASSUME Sane, NEW B, NEW q, NEW ids, NEW last, Proposed(B, q, ids, last)
    PROVE  Sane'
<1>1. \A i \in DOMAIN last : q[last[i]] \in B /\ ids[q[last[i]]] = i /\ i \in Ids \ used
  BY DEF Proposed, IsLast
<1>2. \A c \in B : ids[c] \in Ids \ used
  BY DEF Proposed
<1>3. pending' \in [Ids -> Cmds \cup {None}]
  BY <1>1 DEF Proposed, Sane, TypeOK
<1>4. PICK ms \in Seq(ViewMessage) :
         Post(ms) /\ \A j \in DOMAIN ms : ms[j].type = "approval" /\ ms[j].cmd \in B
  BY CardsAre DEF Proposed
<1>5. /\ toView \in Seq(ViewMessage) /\ toView' \in Seq(ViewMessage)
      /\ \A k \in DOMAIN toView' :
            \/ k \in DOMAIN toView /\ toView'[k] = toView[k]
            \/ \E j \in DOMAIN ms : toView'[k] = ms[j]
  BY <1>4, PostKeeps DEF Sane, TypeOK
<1>6. TypeOK'
  BY <1>2, <1>3, <1>5 DEF Proposed, Sane, TypeOK, viewVars, cardVars, modeVars
<1>7. Named'
  <2>1. \A c \in Cmds : cmd'[c] = "idle" => c \notin B
    BY DEF Proposed
  <2>2. \A c \in B : idOf'[c] \in used' /\ idOf'[c] # None
    BY <1>2, ApprovalAssumption DEF Proposed
  <2>3. \A c \in Cmds \ B : idOf'[c] = idOf[c] /\ cmd'[c] = cmd[c]
    BY DEF Proposed
  <2>4. ASSUME NEW i \in Ids, pending'[i] # None
        PROVE  cmd'[pending'[i]] = "waiting" /\ idOf'[pending'[i]] = i
    <3>1. CASE i \in DOMAIN last
      BY <1>1, <3>1 DEF Proposed
    <3>2. CASE i \notin DOMAIN last
      <4>1. pending'[i] = pending[i]
        BY <3>2 DEF Proposed
      <4>2. pending[i] \in Cmds /\ cmd[pending[i]] = "waiting" /\ idOf[pending[i]] = i
        BY <2>4, <4>1 DEF Sane, Named, TypeOK
      <4>3. pending[i] \notin B
        BY <4>2 DEF Proposed
      <4>4. QED
        BY <2>3, <4>1, <4>2, <4>3
    <3>3. QED
      BY <3>1, <3>2
  <2>5. UNCHANGED <<card, clicked>> /\ used \subseteq used'
    BY DEF Proposed, cardVars
  <2>6. \A c \in Cmds : idOf'[c] \in used' \cup {None} /\ (idOf[c] # None => idOf'[c] # None)
    BY <2>2, <2>3, <2>5 DEF Sane, Named
  <2>7. QED
    BY <2>1, <2>3, <2>4, <2>5, <2>6 DEF Sane, Named
<1>8. CardsNamed'
  <2> SUFFICES ASSUME NEW k \in DOMAIN toView', toView'[k].type = "approval"
               PROVE  idOf'[toView'[k].cmd] # None
    BY DEF CardsNamed
  <2>1. CASE k \in DOMAIN toView /\ toView'[k] = toView[k]
    <3>1. toView[k] \in ViewMessage
      BY <1>5, <2>1
    <3>2. toView[k].cmd \in Cmds /\ idOf[toView[k].cmd] # None
      BY <2>1, <3>1 DEF Sane, CardsNamed, ViewMessage
    <3>3. QED
      BY <1>2, <2>1, <3>2, ApprovalAssumption DEF Proposed
  <2>2. CASE \E j \in DOMAIN ms : toView'[k] = ms[j]
    BY <1>2, <1>4, <2>2, ApprovalAssumption DEF Proposed
  <2>3. QED
    BY <1>5, <2>1, <2>2
<1>9. QED
  BY <1>6, <1>7, <1>8 DEF Sane

LEMMA SaneClick == ASSUME Sane, NEW c \in Cmds, NEW b \in BOOLEAN, Pressed(c, b) PROVE Sane'
<1>1. idOf[c] # None /\ idOf[c] \in Ids
  BY DEF Pressed, Sane, Named, TypeOK
<1>2. Approval(c, b) \in HostMessage
  BY <1>1 DEF Approval, HostMessage
<1>3. TypeOK'
  BY <1>2 DEF Pressed, FirstClick, Choice, hostVars, viewVars, modeVars, Sane, TypeOK
<1>4. Named'
  <2>1. cmd[c] # "idle"
    BY DEF Pressed, Sane, Named
  <2>2. QED
    BY <1>1, <2>1 DEF Pressed, FirstClick, Choice, hostVars, Sane, Named, TypeOK
<1>5. CardsNamed'
  BY DEF Pressed, hostVars, Sane, CardsNamed
<1>6. QED
  BY <1>3, <1>4, <1>5 DEF Sane

LEMMA SaneRest ==
    ASSUME Sane,
           \/ ProposeFull \/ \E c \in Cmds : ProcessEnds(c)
           \/ ClearList \/ ToggleSecurity \/ PostInit \/ Hide \/ Show
    PROVE  Sane'
<1>1. CASE ProposeFull
  <2>0. PICK B \in Batches : \E s \in [B -> Started] :
          cmd' = [c \in Cmds |-> IF c \in B THEN s[c] ELSE cmd[c]]
    BY <1>1 DEF ProposeFull
  <2>1. PICK s \in [B -> Started] :
          cmd' = [c \in Cmds |-> IF c \in B THEN s[c] ELSE cmd[c]]
    BY <2>0
  <2>2. TypeOK'
    BY <1>1, <2>1 DEF ProposeFull, Batches, Started, viewVars, cardVars, modeVars, Sane, TypeOK
  <2>3. \A c \in B : cmd[c] = "idle" /\ cmd'[c] # "idle"
    BY <2>1 DEF Batches, Started
  <2>4. \A c \in Cmds \ B : cmd'[c] = cmd[c]
    BY <2>1
  <2>5. \A i \in Ids : pending[i] # None => pending[i] \in Cmds \ B
    BY <2>3 DEF Sane, TypeOK, Named
  <2>6. \A c \in Cmds : cmd'[c] = "idle" => cmd[c] = "idle"
    BY <2>3, <2>4
  <2>7. Named'
    BY <1>1, <2>4, <2>5, <2>6 DEF ProposeFull, cardVars, Sane, Named
  <2>8. QED
    BY <1>1, <2>2, <2>7 DEF ProposeFull, Sane, CardsNamed
<1>2. ASSUME NEW c \in Cmds, ProcessEnds(c) PROVE Sane'
  BY <1>2 DEF ProcessEnds, Started, viewVars, cardVars, modeVars, Sane, TypeOK, Named, CardsNamed
<1>3. CASE ClearList
  BY <1>3 DEF ClearList, hostVars, viewVars, modeVars, Sane, TypeOK, Named, CardsNamed
<1>4. CASE ToggleSecurity
  <2>1. [type |-> "setSecurityMode", value |-> shown'] \in HostMessage /\ shown' \in Modes
    BY <1>4 DEF ToggleSecurity, HostMessage, Modes
  <2>2. TypeOK'
    BY <1>4, <2>1 DEF ToggleSecurity, hostVars, viewVars, cardVars, Sane, TypeOK
  <2>3. QED
    BY <1>4, <2>2 DEF ToggleSecurity, hostVars, cardVars, Sane, Named, CardsNamed
<1>5. CASE PostInit
  <2>1. PICK ms \in Seq(ViewMessage) : Post(ms) /\ \A j \in DOMAIN ms : ms[j].type = "mode"
    BY <1>5, ModeMessageIs DEF PostInit, Sane, TypeOK
  <2>2. /\ toView' \in Seq(ViewMessage)
        /\ \A k \in DOMAIN toView' :
              \/ k \in DOMAIN toView /\ toView'[k] = toView[k]
              \/ \E j \in DOMAIN ms : toView'[k] = ms[j]
    BY <2>1, PostKeeps DEF Sane, TypeOK
  <2>3. TypeOK'
    BY <1>5, <2>2 DEF PostInit, hostVars, cardVars, modeVars, Sane, TypeOK
  <2>4. CardsNamed'
    BY <1>5, <2>1, <2>2 DEF PostInit, hostVars, Sane, CardsNamed
  <2>5. QED
    BY <1>5, <2>3, <2>4 DEF PostInit, hostVars, cardVars, Sane, Named
<1>6. CASE Hide
  <2>0. toView' \in Seq(ViewMessage)
    <3>1. toView' = <<>>
      BY <1>6 DEF Hide
    <3>2. QED
      BY <3>1
  <2>1. TypeOK'
    BY <1>6, <2>0 DEF Hide, hostVars, Modes, Sane, TypeOK
  <2>2. Named'
    BY <1>6 DEF Hide, hostVars, Sane, TypeOK, Named
  <2>3. CardsNamed'
    BY <1>6 DEF Hide, CardsNamed
  <2>4. QED
    BY <2>1, <2>2, <2>3 DEF Sane
<1>7. CASE Show
  BY <1>7 DEF Show, hostVars, cardVars, modeVars, Sane, TypeOK, Named, CardsNamed
<1>8. QED
  BY <1>1, <1>2, <1>3, <1>4, <1>5, <1>6, <1>7

LEMMA SaneReceive == ASSUME Sane, Receive PROVE Sane'
<1>1. toView \in Seq(ViewMessage) /\ toView # <<>> /\ toView' = Tail(toView)
  BY DEF Receive, ReceiveCard, ReceiveMode, Sane, TypeOK
<1>2. Head(toView) \in ViewMessage /\ Head(toView) = toView[1] /\ 1 \in DOMAIN toView
  BY <1>1
<1>3. toView' \in Seq(ViewMessage)
  BY <1>1
<1>4. \A k \in DOMAIN toView' : k + 1 \in DOMAIN toView /\ toView'[k] = toView[k + 1]
  BY <1>1
<1>5. UNCHANGED hostVars
  BY DEF Receive, ReceiveCard, ReceiveMode
<1>6. CardsNamed'
  BY <1>4, <1>5 DEF hostVars, Sane, CardsNamed
<1>7. CASE ReceiveCard
  <2>1. Head(toView).cmd \in Cmds /\ idOf[Head(toView).cmd] # None
    BY <1>2, <1>7 DEF ReceiveCard, ViewMessage, Sane, CardsNamed
  <2>2. cmd[Head(toView).cmd] # "idle"
    BY <2>1 DEF Sane, Named
  <2>3. TypeOK'
    BY <1>3, <1>5, <1>7, <2>1 DEF ReceiveCard, hostVars, viewVars, modeVars, Sane, TypeOK
  <2>4. Named'
    BY <1>5, <1>7, <2>1, <2>2 DEF ReceiveCard, hostVars, Sane, TypeOK, Named
  <2>5. QED
    BY <1>6, <2>3, <2>4 DEF Sane
<1>8. CASE ReceiveMode
  <2>1. Head(toView).value \in Modes
    BY <1>2, <1>8 DEF ReceiveMode, ViewMessage
  <2>2. TypeOK'
    BY <1>3, <1>5, <1>8, <2>1 DEF ReceiveMode, hostVars, viewVars, cardVars, Sane, TypeOK
  <2>3. QED
    BY <1>5, <1>6, <1>8, <2>2 DEF ReceiveMode, hostVars, cardVars, Sane, Named
<1>9. QED
  BY <1>7, <1>8 DEF Receive

\* The head of the queue, and what handling an approval does to its resolver.
LEMMA HostHead ==
    ASSUME Sane, toHost # <<>>, toHost' = Tail(toHost)
    PROVE  /\ toHost' \in Seq(HostMessage)
           /\ 1 \in DOMAIN toHost /\ Head(toHost) = toHost[1] /\ Head(toHost) \in HostMessage
           /\ \A k \in DOMAIN toHost' : k + 1 \in DOMAIN toHost /\ toHost'[k] = toHost[k + 1]
           /\ \A k \in DOMAIN toHost : k # 1 =>
                 k - 1 \in DOMAIN toHost' /\ toHost'[k - 1] = toHost[k]
<1>1. toHost \in Seq(HostMessage)
  BY DEF Sane, TypeOK
<1>2. QED
  BY <1>1

LEMMA HandleApprovalIs ==
    ASSUME Sane, HandleApproval
    PROVE  \E m \in HostMessage :
             /\ m = Head(toHost) /\ m.type = "terminalApproval"
             /\ m.id \in Ids /\ m.choice \in BOOLEAN
             /\ \/ /\ pending[m.id] = None
                   /\ UNCHANGED <<cmd, pending>>
                \/ /\ pending[m.id] \in Cmds
                   /\ cmd[pending[m.id]] = "waiting" /\ idOf[pending[m.id]] = m.id
                   /\ \E s \in IF m.choice THEN Started ELSE {"rejected"} :
                         cmd' = [cmd EXCEPT ![pending[m.id]] = s]
                   /\ pending' = [pending EXCEPT ![m.id] = None]
<1>1. PICK m \in HostMessage : m = Head(toHost) /\ m.type = "terminalApproval"
  BY HostHead DEF HandleApproval
<1>2. m.id \in Ids /\ m.choice \in BOOLEAN
  BY <1>1 DEF HostMessage
<1>3. CASE pending[m.id] = None
  BY <1>1, <1>2, <1>3 DEF HandleApproval
<1>4. CASE pending[m.id] # None
  <2>1. /\ pending[m.id] \in Cmds
        /\ cmd[pending[m.id]] = "waiting" /\ idOf[pending[m.id]] = m.id
    BY <1>2, <1>4 DEF Sane, TypeOK, Named
  <2>2. Resolve(pending[m.id], m.choice) /\ Release(m.id)
    BY <1>1, <1>4 DEF HandleApproval
  <2>3. QED
    BY <1>1, <1>2, <2>1, <2>2 DEF Resolve, Release
<1>5. QED
  BY <1>3, <1>4

LEMMA SaneHandle == ASSUME Sane, Handle PROVE Sane'
<1>1. toHost # <<>> /\ toHost' = Tail(toHost)
  BY DEF Handle, HandleApproval, HandleSecurityMode
<1>2. toHost' \in Seq(HostMessage) /\ Head(toHost) \in HostMessage
  BY <1>1, HostHead
<1>3. CASE HandleApproval
  <2>1. UNCHANGED <<mode, idOf, used, toView, viewVars, cardVars, modeVars>>
    BY <1>3 DEF HandleApproval
  <2>2. PICK m \in HostMessage :
             /\ m.id \in Ids
             /\ \/ UNCHANGED <<cmd, pending>>
                \/ /\ pending[m.id] \in Cmds
                   /\ cmd[pending[m.id]] = "waiting" /\ idOf[pending[m.id]] = m.id
                   /\ \E s \in IF m.choice THEN Started ELSE {"rejected"} :
                         cmd' = [cmd EXCEPT ![pending[m.id]] = s]
                   /\ pending' = [pending EXCEPT ![m.id] = None]
    BY <1>3, HandleApprovalIs
  <2>3. CASE UNCHANGED <<cmd, pending>>
    BY <1>2, <2>1, <2>3 DEF viewVars, cardVars, modeVars, Sane, TypeOK, Named, CardsNamed
  <2>4. CASE /\ pending[m.id] \in Cmds
             /\ cmd[pending[m.id]] = "waiting" /\ idOf[pending[m.id]] = m.id
             /\ \E s \in IF m.choice THEN Started ELSE {"rejected"} :
                   cmd' = [cmd EXCEPT ![pending[m.id]] = s]
             /\ pending' = [pending EXCEPT ![m.id] = None]
    <3>1. PICK s \in {"rejected"} \cup Started : cmd' = [cmd EXCEPT ![pending[m.id]] = s]
      BY <2>4
    <3>2. TypeOK'
      BY <1>2, <2>1, <2>4, <3>1 DEF viewVars, cardVars, modeVars, Sane, TypeOK
    <3>3. \A i \in Ids : pending'[i] # None => pending'[i] = pending[i] /\ pending[i] # pending[m.id]
      BY <2>2, <2>4 DEF Sane, TypeOK, Named
    <3>4. s # "idle"
      BY <3>1 DEF Started
    <3>5. Named'
      BY <2>1, <2>4, <3>1, <3>3, <3>4 DEF cardVars, Sane, TypeOK, Named
    <3>6. QED
      BY <2>1, <3>2, <3>5 DEF Sane, CardsNamed
  <2>5. QED
    BY <2>2, <2>3, <2>4
<1>4. CASE HandleSecurityMode
  <2>1. Head(toHost).value \in Modes
    BY <1>2, <1>4 DEF HandleSecurityMode, HostMessage
  <2>2. PICK ms \in Seq(ViewMessage) : Post(ms) /\ \A j \in DOMAIN ms : ms[j].type = "mode"
    BY <1>4, <2>1, ModeMessageIs DEF HandleSecurityMode
  <2>3. /\ toView' \in Seq(ViewMessage)
        /\ \A k \in DOMAIN toView' :
              \/ k \in DOMAIN toView /\ toView'[k] = toView[k]
              \/ \E j \in DOMAIN ms : toView'[k] = ms[j]
    BY <2>2, PostKeeps DEF Sane, TypeOK
  <2>4. TypeOK'
    BY <1>2, <1>4, <2>1, <2>3
       DEF HandleSecurityMode, StoreMode, viewVars, cardVars, modeVars, Sane, TypeOK
  <2>5. CardsNamed'
    BY <1>4, <2>2, <2>3 DEF HandleSecurityMode, Sane, CardsNamed
  <2>6. QED
    BY <1>4, <2>4, <2>5 DEF HandleSecurityMode, cardVars, Sane, Named
<1>5. QED
  BY <1>3, <1>4 DEF Handle

LEMMA SaneNext == ASSUME Sane, [Next]_vars PROVE Sane'
<1>1. CASE UNCHANGED vars
  BY <1>1 DEF vars, hostVars, viewVars, cardVars, modeVars, Sane, TypeOK, Named, CardsNamed
<1>2. CASE ProposeSecure
  BY <1>2, ProposeSecureIs, SaneProposeSecure
<1>3. ASSUME NEW c \in Cmds, ClickApprove(c) \/ ClickReject(c) PROVE Sane'
  BY <1>3, ClickIs, SaneClick
<1>4. QED
  BY <1>1, <1>2, <1>3, SaneRest, SaneReceive, SaneHandle DEF Next

LEMMA AlwaysSane == Spec => []Sane
  BY SaneInit, SaneNext, PTL DEF Spec

\* Every variable keeps its type: in particular a queued answer, and a card, always
\* has an approval id, and an id a resolver of a waiting call (extension.ts:649-671).
THEOREM TypeCorrect == Spec => []TypeOK
  BY AlwaysSane, PTL DEF Sane

-----------------------------------------------------------------------------
(* What an id still guarantees.  An answer on its way names an id that the   *)
(* user answered that way first, or that is settled, or will be by an        *)
(* answer further ahead.                                                     *)

IsAnswer(k, i) == toHost[k].type = "terminalApproval" /\ toHost[k].id = i

ClickedOf(i, choice) == \E d \in Cmds : idOf[d] = i /\ clicked[d] = choice

\* Of a card that was clicked, the id is settled or an answer is on its way.
ClicksSent ==
    \A c \in Cmds : clicked[c] # "none" =>
        pending[idOf[c]] = None \/ \E k \in DOMAIN toHost : IsAnswer(k, idOf[c])

AnswersJustified ==
    \A k \in DOMAIN toHost : \A i \in Ids : IsAnswer(k, i) =>
        \/ ClickedOf(i, Choice(toHost[k].choice))
        \/ pending[i] = None
        \/ \E j \in DOMAIN toHost : j < k /\ IsAnswer(j, i)

AnswersNamed == \A k \in DOMAIN toHost : \A i \in Ids : IsAnswer(k, i) => i \in used

\* Once a command has run through a card its id is settled.
RunsSettled == \A c \in Cmds : RanByApproval(c) => pending[idOf[c]] = None

Honest ==
    /\ ClicksSent /\ AnswersJustified /\ AnswersNamed
    /\ RunsSettled /\ EveryRunWasApproved /\ OneRunPerId

LEMMA HonestInit == Init => Honest
  BY DEF Init, Honest, ClicksSent, AnswersJustified, AnswersNamed, RunsSettled,
      EveryRunWasApproved, OneRunPerId, RanByApproval, Started

\* Steps that touch neither the ids nor their answers.
LEMMA HonestAside ==
    ASSUME Sane, Honest, UNCHANGED <<idOf, used, pending, toHost, clicked>>,
           \A c \in Cmds : cmd'[c] \in Started /\ idOf[c] # None => cmd[c] \in Started
    PROVE  Honest'
<1>1. \A c \in Cmds : RanByApproval(c)' => RanByApproval(c)
  BY DEF RanByApproval
<1>2. ClicksSent' /\ AnswersJustified' /\ AnswersNamed'
  BY DEF Honest, ClicksSent, AnswersJustified, AnswersNamed, IsAnswer, ClickedOf
<1>3. RunsSettled' /\ EveryRunWasApproved' /\ OneRunPerId'
  BY <1>1 DEF Honest, RunsSettled, EveryRunWasApproved, OneRunPerId
<1>4. QED
  BY <1>2, <1>3 DEF Honest

LEMMA HonestProposeSecure ==
    ASSUME Sane, Honest, NEW B, NEW q, NEW ids, NEW last, Proposed(B, q, ids, last)
    PROVE  Honest'
<1>1. \A c \in Cmds \ B : cmd'[c] = cmd[c] /\ idOf'[c] = idOf[c]
  BY DEF Proposed
<1>2. \A c \in B : c \in Cmds /\ cmd[c] = "idle" /\ cmd'[c] = "waiting" /\ idOf[c] = None /\ clicked[c] = "none"
  BY DEF Proposed, Sane, Named
<1>3. UNCHANGED <<toHost, clicked>>
  BY DEF Proposed, cardVars
<1>4. \A i \in Ids : i \in used => pending'[i] = pending[i]
  BY DEF Proposed, Sane, TypeOK
<1>5. \A c \in Cmds : idOf[c] # None => c \notin B /\ idOf[c] \in Ids /\ pending'[idOf[c]] = pending[idOf[c]]
  BY <1>2, <1>4 DEF Sane, TypeOK, Named
<1>6. \A c \in Cmds : clicked[c] # "none" => idOf[c] # None
  BY DEF Sane, Named
<1>7. ClicksSent'
  BY <1>1, <1>3, <1>5, <1>6 DEF Honest, ClicksSent, IsAnswer
<1>8. \A i \in Ids, x \in {"approve", "reject"} : ClickedOf(i, x) => ClickedOf(i, x)'
  BY <1>1, <1>2, <1>3 DEF ClickedOf
<1>9. AnswersJustified'
  <2> SUFFICES ASSUME NEW k \in DOMAIN toHost, NEW i \in Ids, IsAnswer(k, i)
               PROVE  \/ ClickedOf(i, Choice(toHost[k].choice))'
                      \/ pending'[i] = None
                      \/ \E j \in DOMAIN toHost : j < k /\ IsAnswer(j, i)
    BY <1>3 DEF AnswersJustified, IsAnswer
  <2>1. i \in used
    BY DEF Honest, AnswersNamed
  <2>2. QED
    BY <1>3, <1>4, <1>8, <2>1 DEF Honest, AnswersJustified, Choice, ClickedOf
<1>10. \A c \in Cmds : RanByApproval(c)' => RanByApproval(c) /\ c \notin B
  BY <1>1, <1>2 DEF RanByApproval, Started
<1>11. RunsSettled'
  BY <1>1, <1>5, <1>10 DEF Honest, RunsSettled, RanByApproval
<1>12. EveryRunWasApproved'
  <2> SUFFICES ASSUME NEW c \in Cmds, RanByApproval(c)'
               PROVE  ClickedOf(idOf[c], "approve")'
    BY DEF EveryRunWasApproved, ClickedOf
  <2>1. RanByApproval(c) /\ idOf'[c] = idOf[c] /\ idOf[c] \in Ids
    BY <1>1, <1>5, <1>10 DEF RanByApproval
  <2>2. ClickedOf(idOf[c], "approve")
    BY <2>1 DEF Honest, EveryRunWasApproved, ClickedOf
  <2>3. QED
    BY <1>8, <2>1, <2>2 DEF ClickedOf
<1>13. OneRunPerId'
  BY <1>1, <1>10 DEF Honest, OneRunPerId
<1>14. AnswersNamed'
  BY <1>3 DEF Honest, AnswersNamed, IsAnswer, Proposed
<1>15. QED
  BY <1>7, <1>9, <1>11, <1>12, <1>13, <1>14 DEF Honest

LEMMA HonestClick ==
    ASSUME Sane, Honest, NEW c \in Cmds, NEW b \in BOOLEAN, Pressed(c, b)
    PROVE  Honest'
<1>1. UNCHANGED <<cmd, idOf, used, pending>>
  BY DEF Pressed, hostVars
<1>2. PICK m \in HostMessage :
        m = Approval(c, b) /\ toHost' = Append(toHost, m)
  <2>1. idOf[c] \in Ids
    BY DEF Pressed, Sane, Named, TypeOK
  <2>2. Approval(c, b) \in HostMessage
    BY <2>1 DEF Approval, HostMessage
  <2>3. QED
    BY <2>2 DEF Pressed
<1>3. m.type = "terminalApproval" /\ m.id = idOf[c] /\ m.choice = b
  BY <1>2 DEF Approval
<1>4. idOf[c] \in used /\ idOf[c] \in Ids
  BY DEF Pressed, Sane, Named, TypeOK
<1>5. toHost \in Seq(HostMessage)
  BY DEF Sane, TypeOK
<1>6. \A k \in DOMAIN toHost : k \in DOMAIN toHost' /\ toHost'[k] = toHost[k] /\ k < Len(toHost) + 1
  BY <1>2, <1>5
<1>7. \A k \in DOMAIN toHost' : k \in DOMAIN toHost \/ k = Len(toHost) + 1
  BY <1>2, <1>5
<1>8. Len(toHost) + 1 \in DOMAIN toHost' /\ toHost'[Len(toHost) + 1] = m
  BY <1>2, <1>5
<1>9. clicked' = [clicked EXCEPT ![c] = IF clicked[c] = "none" THEN Choice(b) ELSE clicked[c]]
  BY DEF Pressed, FirstClick
<1>10. \A d \in Cmds : clicked[d] # "none" => clicked'[d] = clicked[d]
  BY <1>9 DEF Sane, TypeOK
<1>11. ClicksSent'
  <2> SUFFICES ASSUME NEW d \in Cmds, clicked'[d] # "none"
               PROVE  pending'[idOf'[d]] = None \/ \E k \in DOMAIN toHost' : IsAnswer(k, idOf[d])'
    BY DEF ClicksSent
  <2>1. CASE d = c
    BY <1>1, <1>3, <1>8, <2>1 DEF IsAnswer
  <2>2. CASE d # c
    BY <1>1, <1>6, <1>9, <2>2 DEF Honest, ClicksSent, IsAnswer, Sane, TypeOK
  <2>3. QED
    BY <2>1, <2>2
<1>12. \A i \in Ids, x \in {"approve", "reject"} : ClickedOf(i, x) => ClickedOf(i, x)'
  BY <1>1, <1>10 DEF ClickedOf
<1>13. AnswersJustified'
  <2> SUFFICES ASSUME NEW k \in DOMAIN toHost', NEW i \in Ids, IsAnswer(k, i)'
               PROVE  \/ ClickedOf(i, Choice(toHost[k].choice))'
                      \/ pending'[i] = None
                      \/ \E j \in DOMAIN toHost' : j < k /\ IsAnswer(j, i)'
    BY DEF AnswersJustified
  <2>1. CASE k \in DOMAIN toHost
    <3>1. IsAnswer(k, i) /\ toHost'[k] = toHost[k]
      BY <1>6, <2>1 DEF IsAnswer
    <3>2. CASE ClickedOf(i, Choice(toHost[k].choice))
      BY <1>12, <3>1, <3>2 DEF Choice, ClickedOf
    <3>3. CASE pending[i] = None
      BY <1>1, <3>3
    <3>4. CASE \E j \in DOMAIN toHost : j < k /\ IsAnswer(j, i)
      BY <1>6, <3>4 DEF IsAnswer
    <3>5. QED
      BY <2>1, <3>1, <3>2, <3>3, <3>4 DEF Honest, AnswersJustified
  <2>2. CASE k = Len(toHost) + 1
    <3>1. i = idOf[c] /\ toHost'[k].choice = b
      BY <1>3, <1>8, <2>2 DEF IsAnswer
    <3>2. CASE clicked[c] = "none"
      <4>1. clicked'[c] = Choice(b)
        BY <1>9, <3>2 DEF Sane, TypeOK
      <4>2. QED
        BY <1>1, <3>1, <4>1 DEF ClickedOf, Choice
    <3>3. CASE clicked[c] # "none"
      <4>1. pending[i] = None \/ \E j \in DOMAIN toHost : IsAnswer(j, i)
        BY <3>1, <3>3 DEF Honest, ClicksSent
      <4>2. QED
        BY <1>1, <1>6, <2>2, <4>1 DEF IsAnswer
    <3>4. QED
      BY <3>2, <3>3
  <2>3. QED
    BY <1>7, <2>1, <2>2
<1>14. AnswersNamed'
  BY <1>1, <1>3, <1>4, <1>6, <1>7, <1>8 DEF Honest, AnswersNamed, IsAnswer
<1>15. \A d \in Cmds : RanByApproval(d)' <=> RanByApproval(d)
  BY <1>1 DEF RanByApproval
<1>16. RunsSettled' /\ OneRunPerId'
  BY <1>1, <1>15 DEF Honest, RunsSettled, OneRunPerId
<1>17. EveryRunWasApproved'
  BY <1>1, <1>10, <1>15 DEF Honest, EveryRunWasApproved
<1>18. QED
  BY <1>11, <1>13, <1>14, <1>16, <1>17 DEF Honest

\* A message in front of the queue that answers nothing, or what is settled, goes.
LEMMA HonestHead ==
    ASSUME Sane, Honest, toHost # <<>>, toHost' = Tail(toHost),
           UNCHANGED <<idOf, used, clicked>>,
           \A i \in Ids : pending'[i] = pending[i] \/ pending'[i] = None,
           \A i \in Ids : IsAnswer(1, i) => pending'[i] = None
    PROVE  ClicksSent' /\ AnswersJustified' /\ AnswersNamed'
<1>1. /\ \A k \in DOMAIN toHost' : k + 1 \in DOMAIN toHost /\ toHost'[k] = toHost[k + 1]
      /\ \A k \in DOMAIN toHost : k # 1 => k - 1 \in DOMAIN toHost' /\ toHost'[k - 1] = toHost[k]
      /\ DOMAIN toHost \subseteq Nat /\ DOMAIN toHost' \subseteq Nat
  BY HostHead DEF Sane, TypeOK
<1>2. ClicksSent'
  <2> SUFFICES ASSUME NEW d \in Cmds, clicked[d] # "none", pending'[idOf[d]] # None
               PROVE  \E k \in DOMAIN toHost' : IsAnswer(k, idOf[d])'
    BY DEF ClicksSent
  <2>1. idOf[d] \in Ids
    BY DEF Sane, Named, TypeOK
  <2>2. PICK k \in DOMAIN toHost : IsAnswer(k, idOf[d]) /\ k # 1
    BY <2>1 DEF Honest, ClicksSent
  <2>3. QED
    BY <1>1, <2>2 DEF IsAnswer
<1>3. AnswersJustified'
  <2> SUFFICES ASSUME NEW k \in DOMAIN toHost', NEW i \in Ids, IsAnswer(k, i)', pending'[i] # None
               PROVE  \/ ClickedOf(i, Choice(toHost[k].choice))'
                      \/ \E j \in DOMAIN toHost' : j < k /\ IsAnswer(j, i)'
    BY DEF AnswersJustified
  <2>1. IsAnswer(k + 1, i) /\ k + 1 \in DOMAIN toHost /\ toHost'[k] = toHost[k + 1]
    BY <1>1 DEF IsAnswer
  <2>2. \/ ClickedOf(i, Choice(toHost[k + 1].choice))
        \/ \E j \in DOMAIN toHost : j < k + 1 /\ j # 1 /\ IsAnswer(j, i)
    BY <2>1 DEF Honest, AnswersJustified
  <2>3. CASE ClickedOf(i, Choice(toHost[k + 1].choice))
    BY <2>1, <2>3 DEF ClickedOf, Choice
  <2>4. ASSUME NEW j \in DOMAIN toHost, j < k + 1, j # 1, IsAnswer(j, i)
        PROVE  \E p \in DOMAIN toHost' : p < k /\ IsAnswer(p, i)'
    <3>1. j - 1 \in DOMAIN toHost' /\ toHost'[j - 1] = toHost[j] /\ j - 1 < k
      BY <1>1, <2>4
    <3>2. QED
      BY <2>4, <3>1 DEF IsAnswer
  <2>5. QED
    BY <2>2, <2>3, <2>4
<1>4. AnswersNamed'
  BY <1>1 DEF Honest, AnswersNamed, IsAnswer
<1>5. QED
  BY <1>2, <1>3, <1>4

\* The resolver of an id starts its command on an approval only, and the head of
\* the queue is one that the user gave first.
LEMMA HeadJustified ==
    ASSUME Sane, Honest, toHost # <<>>, NEW i \in Ids, IsAnswer(1, i), pending[i] # None
    PROVE  ClickedOf(i, Choice(toHost[1].choice))
<1>1. 1 \in DOMAIN toHost /\ DOMAIN toHost \subseteq Nat /\ \A j \in DOMAIN toHost : ~(j < 1)
  BY DEF Sane, TypeOK
<1>2. QED
  BY <1>1 DEF Honest, AnswersJustified

LEMMA HonestApproval == ASSUME Sane, Honest, HandleApproval PROVE Honest'
<1>1. toHost # <<>> /\ toHost' = Tail(toHost) /\ UNCHANGED <<idOf, used, clicked>>
  BY DEF HandleApproval, cardVars
<1>2. PICK m \in HostMessage :
             /\ m = Head(toHost) /\ m.type = "terminalApproval"
             /\ m.id \in Ids /\ m.choice \in BOOLEAN
             /\ \/ /\ pending[m.id] = None
                   /\ UNCHANGED <<cmd, pending>>
                \/ /\ pending[m.id] \in Cmds
                   /\ cmd[pending[m.id]] = "waiting" /\ idOf[pending[m.id]] = m.id
                   /\ \E s \in IF m.choice THEN Started ELSE {"rejected"} :
                         cmd' = [cmd EXCEPT ![pending[m.id]] = s]
                   /\ pending' = [pending EXCEPT ![m.id] = None]
  BY HandleApprovalIs
<1>3. m = toHost[1] /\ \A i \in Ids : IsAnswer(1, i) <=> i = m.id
  BY <1>1, <1>2, HostHead DEF IsAnswer
<1>4. CASE UNCHANGED <<cmd, pending>> /\ pending[m.id] = None
  <2>1. ClicksSent' /\ AnswersJustified' /\ AnswersNamed'
    BY <1>1, <1>3, <1>4, HonestHead
  <2>2. RunsSettled' /\ EveryRunWasApproved' /\ OneRunPerId'
    BY <1>1, <1>4 DEF Honest, RunsSettled, EveryRunWasApproved, OneRunPerId, RanByApproval
  <2>3. QED
    BY <2>1, <2>2 DEF Honest
<1>5. ASSUME NEW c \in Cmds, c = pending[m.id], cmd[c] = "waiting", idOf[c] = m.id,
             NEW s \in IF m.choice THEN Started ELSE {"rejected"}, cmd' = [cmd EXCEPT ![c] = s],
             pending' = [pending EXCEPT ![m.id] = None]
      PROVE  Honest'
  <2>1. \A i \in Ids : pending'[i] = IF i = m.id THEN None ELSE pending[i]
    BY <1>5 DEF Sane, TypeOK
  <2>2. c # None
    BY ApprovalAssumption
  <2>3. ClicksSent' /\ AnswersJustified' /\ AnswersNamed'
    <3>1. toHost # <<>> /\ \A i \in Ids : IsAnswer(1, i) => pending'[i] = None
      BY <1>1, <1>3, <2>1
    <3>2. QED
      BY <1>1, <2>1, <3>1, HonestHead
  <2>4. \A d \in Cmds : RanByApproval(d) => idOf[d] \in Ids /\ idOf[d] # m.id /\ d # c
    BY <1>5, <2>2, ApprovalAssumption DEF Honest, RunsSettled, RanByApproval, Sane, TypeOK, Started
  <2>5. \A d \in Cmds : RanByApproval(d)' => RanByApproval(d) \/ (d = c /\ m.choice)
    <3>1. \A d \in Cmds : cmd'[d] = IF d = c THEN s ELSE cmd[d]
      BY <1>5 DEF Sane, TypeOK
    <3>2. s \in Started => m.choice
      BY <1>5 DEF Started
    <3>3. idOf' = idOf
      BY <1>1
    <3>4. QED
      BY <3>1, <3>2, <3>3 DEF RanByApproval
  <2>6. RunsSettled'
    <3> SUFFICES ASSUME NEW d \in Cmds, RanByApproval(d)'
                 PROVE  pending'[idOf[d]] = None
      BY <1>1 DEF RunsSettled
    <3>1. CASE d = c
      BY <1>2, <1>5, <2>1, <3>1
    <3>2. CASE RanByApproval(d)
      BY <2>1, <2>4, <3>2 DEF Honest, RunsSettled
    <3>3. QED
      BY <2>5, <3>1, <3>2
  <2>7. OneRunPerId'
    BY <1>1, <1>5, <2>4, <2>5 DEF Honest, OneRunPerId
  <2>8. m.choice => ClickedOf(m.id, "approve")
    BY <1>1, <1>2, <1>3, <1>5, <2>2, HeadJustified DEF Choice
  <2>9. EveryRunWasApproved'
    BY <1>1, <1>5, <2>5, <2>8 DEF Honest, EveryRunWasApproved, ClickedOf
  <2>10. QED
    BY <2>3, <2>6, <2>7, <2>9 DEF Honest
<1>6. QED
  BY <1>2, <1>4, <1>5

LEMMA HonestNext == ASSUME Sane, Honest, [Next]_vars PROVE Honest'
<1>1. CASE UNCHANGED vars
  BY <1>1, HonestAside DEF vars, hostVars, cardVars
<1>2. CASE ProposeFull
  <2>1. PICK B \in Batches : \E s \in [B -> Started] :
          cmd' = [c \in Cmds |-> IF c \in B THEN s[c] ELSE cmd[c]]
    BY <1>2 DEF ProposeFull
  <2>2. \A c \in Cmds : cmd'[c] \in Started /\ idOf[c] # None => cmd[c] \in Started
    BY <2>1 DEF Batches, Sane, Named
  <2>3. QED
    BY <1>2, <2>2, HonestAside DEF ProposeFull, cardVars
<1>3. CASE ProposeSecure
  BY <1>3, ProposeSecureIs, HonestProposeSecure
<1>4. ASSUME NEW c \in Cmds, ProcessEnds(c) PROVE Honest'
  <2>1. \A d \in Cmds : cmd'[d] \in Started => cmd[d] \in Started
    BY <1>4 DEF ProcessEnds, Started, Sane, TypeOK
  <2>2. QED
    BY <1>4, <2>1, HonestAside DEF ProcessEnds, cardVars
<1>5. ASSUME NEW c \in Cmds, ClickApprove(c) \/ ClickReject(c) PROVE Honest'
  BY <1>5, ClickIs, HonestClick
<1>6. CASE ClearList \/ PostInit \/ Hide \/ Show \/ Receive
  BY <1>6, HonestAside DEF ClearList, PostInit, Hide, Show, Receive, ReceiveCard, ReceiveMode,
      hostVars, cardVars
<1>7. CASE ToggleSecurity
  <2>1. PICK m \in HostMessage : m.type = "setSecurityMode" /\ toHost' = Append(toHost, m)
    <3>1. [type |-> "setSecurityMode", value |-> shown'] \in HostMessage
      BY <1>7 DEF ToggleSecurity, HostMessage, Modes
    <3>2. QED
      BY <1>7, <3>1 DEF ToggleSecurity
  <2>2. toHost \in Seq(HostMessage)
    BY DEF Sane, TypeOK
  <2>3. /\ \A k \in DOMAIN toHost : k \in DOMAIN toHost' /\ toHost'[k] = toHost[k]
        /\ \A k \in DOMAIN toHost' : k \in DOMAIN toHost \/ toHost'[k] = m
    BY <2>1, <2>2
  <2>4. /\ \A k \in DOMAIN toHost, i \in Ids : IsAnswer(k, i) => IsAnswer(k, i)'
        /\ \A k \in DOMAIN toHost', i \in Ids : IsAnswer(k, i)' => k \in DOMAIN toHost /\ IsAnswer(k, i)
    BY <2>1, <2>3 DEF IsAnswer
  <2>5. UNCHANGED <<cmd, idOf, used, pending, clicked>>
    BY <1>7 DEF ToggleSecurity, hostVars, cardVars
  <2>6. \A c \in Cmds : clicked[c] # "none" => idOf[c] \in Ids
    BY DEF Sane, Named, TypeOK
  <2>7. ClicksSent'
    BY <2>3, <2>4, <2>5, <2>6 DEF Honest, ClicksSent
  <2>8. AnswersJustified'
    BY <2>3, <2>4, <2>5 DEF Honest, AnswersJustified, ClickedOf
  <2>9. AnswersNamed'
    BY <2>4, <2>5 DEF Honest, AnswersNamed
  <2>10. RunsSettled' /\ EveryRunWasApproved' /\ OneRunPerId'
    BY <2>5 DEF Honest, RunsSettled, EveryRunWasApproved, OneRunPerId, RanByApproval
  <2>11. QED
    BY <2>7, <2>8, <2>9, <2>10 DEF Honest
<1>8. CASE HandleApproval
  BY <1>8, HonestApproval
<1>9. CASE HandleSecurityMode
  <2>1. UNCHANGED <<cmd, idOf, used, pending, clicked>> /\ toHost # <<>> /\ toHost' = Tail(toHost)
    BY <1>9 DEF HandleSecurityMode, cardVars
  <2>2. \A i \in Ids : ~IsAnswer(1, i)
    BY <1>9, <2>1, HostHead DEF HandleSecurityMode, IsAnswer
  <2>3. ClicksSent' /\ AnswersJustified' /\ AnswersNamed'
    BY <2>1, <2>2, HonestHead
  <2>4. RunsSettled' /\ EveryRunWasApproved' /\ OneRunPerId'
    BY <2>1 DEF Honest, RunsSettled, EveryRunWasApproved, OneRunPerId, RanByApproval
  <2>5. QED
    BY <2>3, <2>4 DEF Honest
<1>10. QED
  BY <1>1, <1>2, <1>3, <1>4, <1>5, <1>6, <1>7, <1>8, <1>9 DEF Next, Handle

LEMMA AlwaysHonest == Spec => []Honest
  BY AlwaysSane, HonestInit, HonestNext, PTL DEF Spec

\* Whatever ids the clock gives to the calls of an answer, a command that ran through
\* a card has one with its id that the user approved before anything else
\* (extension.ts:100-106, 668-684).
THEOREM RunsWereApproved == Spec => []EveryRunWasApproved
<1>1. Honest => EveryRunWasApproved
  BY DEF Honest
<1>2. QED
  BY <1>1, AlwaysHonest, PTL

\* One id starts one command, however its cards are clicked (extension.ts:100-106).
THEOREM OneRunForAnId == Spec => []OneRunPerId
<1>1. Honest => OneRunPerId
  BY DEF Honest
<1>2. QED
  BY <1>1, AlwaysHonest, PTL

-----------------------------------------------------------------------------
(* Switch and provider.  Unless a change is on its way to the provider, the *)
(* last mode message to the view, or the switch itself, shows its mode, or  *)
(* the switch stands where the view's script sets it first.  A hidden view  *)
(* is such a view: nothing reaches it.                                      *)

Changing == \E p \in DOMAIN toHost : toHost[p].type = "setSecurityMode"

EchoAt(p) ==
    /\ toView[p].type = "mode" /\ toView[p].value = mode
    /\ \A o \in DOMAIN toView : o > p => toView[o].type # "mode"

NoEcho == \A o \in DOMAIN toView : toView[o].type # "mode"

Initial == ~told /\ shown = "secure"

HiddenInitial == ~visible => Initial /\ toView = <<>>

Told == /\ Changing \/ (\E p \in DOMAIN toView : EchoAt(p)) \/ (NoEcho /\ (shown = mode \/ Initial))
        /\ HiddenInitial

LEMMA ToldInit == Init => Told
  BY DEF Init, Told, NoEcho, Initial, HiddenInitial

\* Messages to the view that carry no mode may be added.
LEMMA ToldMore ==
    ASSUME Told, HiddenInitial', mode' = mode, shown' = shown, told' = told,
           \A k \in DOMAIN toHost : k \in DOMAIN toHost' /\ toHost'[k] = toHost[k],
           \A k \in DOMAIN toView : k \in DOMAIN toView' /\ toView'[k] = toView[k],
           \A k \in DOMAIN toView' : k \in DOMAIN toView \/ toView'[k].type # "mode"
    PROVE  Told'
<1>1. CASE Changing
  BY <1>1 DEF Told, Changing
<1>2. ASSUME NEW p \in DOMAIN toView, EchoAt(p) PROVE Told'
  <2>1. EchoAt(p)'
    BY <1>2 DEF EchoAt
  <2>2. QED
    BY <1>2, <2>1 DEF Told
<1>3. CASE NoEcho /\ (shown = mode \/ Initial)
  BY <1>3 DEF Told, NoEcho, Initial
<1>4. QED
  BY <1>1, <1>2, <1>3 DEF Told

LEMMA ToldReceive == ASSUME Sane, Told, Receive PROVE Told'
<1>1. /\ toView \in Seq(ViewMessage) /\ toView # <<>> /\ toView' = Tail(toView)
      /\ UNCHANGED <<mode, toHost, visible>>
  BY DEF Receive, ReceiveCard, ReceiveMode, hostVars, viewVars, Sane, TypeOK
<1>h. HiddenInitial'
  BY <1>1 DEF Told, HiddenInitial
<1>2. /\ Head(toView) = toView[1] /\ 1 \in DOMAIN toView
      /\ \A k \in DOMAIN toView' : k + 1 \in DOMAIN toView /\ toView'[k] = toView[k + 1]
      /\ \A k \in DOMAIN toView : k # 1 => k - 1 \in DOMAIN toView' /\ toView'[k - 1] = toView[k]
      /\ DOMAIN toView \subseteq Nat /\ DOMAIN toView' \subseteq Nat \ {0}
  BY <1>1
<1>3. CASE Changing
  BY <1>1, <1>h, <1>3 DEF Told, Changing
<1>4. ASSUME NEW p \in DOMAIN toView, EchoAt(p), p # 1 PROVE Told'
  <2>1. p - 1 \in DOMAIN toView' /\ toView'[p - 1] = toView[p]
    BY <1>2, <1>4
  <2>2. ASSUME NEW o \in DOMAIN toView', o > p - 1 PROVE toView'[o].type # "mode"
    <3>1. o + 1 \in DOMAIN toView /\ toView'[o] = toView[o + 1] /\ o + 1 > p
      BY <1>2, <2>2
    <3>2. QED
      BY <1>4, <3>1 DEF EchoAt
  <2>3. EchoAt(p - 1)'
    BY <1>1, <1>4, <2>1, <2>2 DEF EchoAt
  <2>4. QED
    BY <1>h, <2>1, <2>3 DEF Told
<1>5. CASE EchoAt(1)
  <2>1. ReceiveMode /\ shown' = mode
    BY <1>2, <1>5 DEF EchoAt, Receive, ReceiveCard, ReceiveMode
  <2>2. \A o \in DOMAIN toView' : o + 1 > 1
    BY <1>2
  <2>3. NoEcho'
    BY <1>2, <1>5, <2>2 DEF EchoAt, NoEcho
  <2>4. QED
    BY <1>1, <1>h, <2>1, <2>3 DEF Told
<1>6. CASE NoEcho /\ (shown = mode \/ Initial)
  <2>1. ReceiveCard /\ shown' = shown /\ told' = told
    BY <1>2, <1>6 DEF NoEcho, Receive, ReceiveCard, ReceiveMode, modeVars
  <2>2. NoEcho'
    BY <1>2, <1>6 DEF NoEcho
  <2>3. QED
    BY <1>1, <1>h, <1>6, <2>1, <2>2 DEF Told, Initial
<1>7. QED
  BY <1>3, <1>4, <1>5, <1>6 DEF Told

\* A mode message posted while the view is shown is the last one; posted to a
\* hidden view, it is lost, and the switch stands where the script sets it.
LEMMA ToldPost ==
    ASSUME Sane, Told, mode' \in Modes, Post(<<ModeMessage(mode')>>),
           UNCHANGED <<visible, shown, told>>
    PROVE  Told'
<1>1. CASE ~visible
  BY <1>1 DEF Post, Told, HiddenInitial, NoEcho, Initial
<1>2. CASE visible
  <2>1. PICK m : m = ModeMessage(mode')
    OBVIOUS
  <2>2. m.type = "mode" /\ m.value = mode' /\ toView' = toView \o <<m>>
    BY <1>2, <2>1 DEF Post, ModeMessage
  <2>3. PICK p \in DOMAIN toView' : toView'[p] = m /\ \A o \in DOMAIN toView' : ~(o > p)
    <3>1. /\ Len(toView) + 1 \in DOMAIN toView' /\ toView'[Len(toView) + 1] = m
          /\ \A o \in DOMAIN toView' : ~(o > Len(toView) + 1)
      BY <2>2 DEF Sane, TypeOK
    <3>2. QED
      BY <3>1
  <2>4. EchoAt(p)'
    BY <2>2, <2>3 DEF EchoAt
  <2>5. QED
    BY <1>2, <2>3, <2>4 DEF Told, HiddenInitial
<1>3. QED
  BY <1>1, <1>2

LEMMA ToldNext == ASSUME Sane, Told, [Next]_vars PROVE Told'
<1>1. CASE UNCHANGED <<mode, shown, told, visible, toHost, toView>>
  BY <1>1 DEF Told, Changing, EchoAt, NoEcho, Initial, HiddenInitial
<1>2. CASE UNCHANGED vars \/ ProposeFull \/ ClearList \/ \E c \in Cmds : ProcessEnds(c)
  BY <1>1, <1>2 DEF vars, hostVars, viewVars, modeVars, ProposeFull, ClearList, ProcessEnds
<1>3. CASE ProposeSecure
  <2>1. PICK B, q, ids, last : Proposed(B, q, ids, last)
    BY <1>3, ProposeSecureIs
  <2>2. PICK ms \in Seq(ViewMessage) : Post(ms) /\ \A j \in DOMAIN ms : ms[j].type = "approval"
    <3>1. Cards(q) \in Seq(ViewMessage) /\ \A j \in DOMAIN Cards(q) : Cards(q)[j].type = "approval"
      BY <2>1, CardsAre
    <3>2. QED
      BY <2>1, <3>1 DEF Proposed
  <2>3. /\ \A k \in DOMAIN toView : k \in DOMAIN toView' /\ toView'[k] = toView[k]
        /\ \A k \in DOMAIN toView' : k \in DOMAIN toView \/ toView'[k].type # "mode"
    BY <2>2, PostKeeps DEF Sane, TypeOK
  <2>4. HiddenInitial'
    BY <2>1, <2>2 DEF Proposed, Post, viewVars, modeVars, Told, HiddenInitial, Initial
  <2>5. QED
    BY <2>1, <2>3, <2>4, ToldMore DEF Proposed, modeVars
<1>4. ASSUME NEW c \in Cmds, ClickApprove(c) \/ ClickReject(c) PROVE Told'
  <2>1. PICK b \in BOOLEAN : Pressed(c, b)
    BY <1>4, ClickIs
  <2>2. PICK m : toHost' = Append(toHost, m)
    BY <2>1 DEF Pressed
  <2>3. \A k \in DOMAIN toHost : k \in DOMAIN toHost' /\ toHost'[k] = toHost[k]
    BY <2>2 DEF Sane, TypeOK
  <2>4. HiddenInitial'
    BY <2>1 DEF Pressed, viewVars, modeVars, Told, HiddenInitial, Initial
  <2>5. QED
    BY <2>1, <2>3, <2>4, ToldMore DEF Pressed, hostVars, modeVars
<1>5. CASE ToggleSecurity
  <2>1. PICK m : m.type = "setSecurityMode" /\ toHost' = Append(toHost, m)
    BY <1>5 DEF ToggleSecurity
  <2>2. Len(toHost) + 1 \in DOMAIN toHost' /\ toHost'[Len(toHost) + 1] = m
    BY <2>1 DEF Sane, TypeOK
  <2>3. HiddenInitial'
    BY <1>5 DEF ToggleSecurity, viewVars, HiddenInitial
  <2>4. QED
    BY <2>1, <2>2, <2>3 DEF Told, Changing
<1>6. CASE HandleApproval
  <2>1. toHost # <<>> /\ toHost' = Tail(toHost) /\ Head(toHost).type # "setSecurityMode"
    BY <1>6 DEF HandleApproval
  <2>2. UNCHANGED <<mode, shown, told, visible, toView>>
    BY <1>6 DEF HandleApproval, viewVars, modeVars
  <2>3. Changing => Changing'
    BY <2>1, HostHead DEF Changing
  <2>4. QED
    BY <2>2, <2>3 DEF Told, EchoAt, NoEcho, Initial, HiddenInitial
<1>7. CASE HandleSecurityMode
  <2>1. Head(toHost).value \in Modes
    BY <1>7, HostHead DEF HandleSecurityMode, HostMessage
  <2>2. QED
    BY <1>7, <2>1, ToldPost DEF HandleSecurityMode, StoreMode, viewVars, modeVars
<1>8. CASE PostInit
  BY <1>8, ToldPost DEF PostInit, hostVars, modeVars, Sane, TypeOK
<1>9. CASE Hide
  BY <1>9 DEF Hide, Told, NoEcho, Initial, HiddenInitial
<1>10. CASE Show
  BY <1>10 DEF Show, hostVars, modeVars, Told, NoEcho, Initial, HiddenInitial
<1>11. QED
  BY <1>2, <1>3, <1>4, <1>5, <1>6, <1>7, <1>8, <1>9, <1>10, ToldReceive DEF Next, Handle

\* However the clicks on the switch, the 'init' message, the echoes, and the hiding
\* and showing of the view cross, once none of them is in flight the switch shows
\* what the provider acts upon, or it was neither set nor told anything since the
\* view's script started and shows the stricter mode (extension.ts:10-12, 72-74,
\* 84-91, 108-112; webview.html toggleSecurity, updateSecurityUI).
THEOREM SwitchTellsMode == Spec => []ModeAgrees
<1>1. Sane /\ Told => ModeAgrees
  BY DEF Sane, TypeOK, Told, Changing, EchoAt, NoEcho, Initial, ModeAgrees
<1>2. Spec => []Told
  BY AlwaysSane, ToldInit, ToldNext, PTL DEF Spec
<1>3. QED
  BY <1>1, <1>2, AlwaysSane, PTL

-----------------------------------------------------------------------------
(* One terminal call per answer: ids are unique, and the tool is the gate.  *)

UniqueIds == \A c, d \in Cmds : idOf[c] = idOf[d] /\ idOf[c] # None => c = d

LEMMA UniqueInit == Init => UniqueIds
  BY DEF Init, UniqueIds

LEMMA UniqueNext == ASSUME MaxBatch = 1, Sane, UniqueIds, [Next]_vars PROVE UniqueIds'
<1>1. CASE ProposeSecure
  <2>1. PICK B, q, ids, last : Proposed(B, q, ids, last)
    BY <1>1, ProposeSecureIs
  <2>2. PICK x : B = {x}
    <3>1. Cardinality(B) \in Nat /\ Cardinality(B) # 0 /\ Cardinality(B) <= 1
      BY <2>1, FS_CardinalityType, FS_EmptySet DEF Proposed
    <3>2. Cardinality(B) = 1
      BY <3>1
    <3>3. QED
      BY <2>1, <3>2, FS_Singleton DEF Proposed
  <2>3. idOf'[x] \notin used /\ \A c \in Cmds : c # x => idOf'[c] = idOf[c]
    BY <2>1, <2>2 DEF Proposed
  <2>4. \A c \in Cmds : c # x /\ idOf'[c] # None => idOf'[c] \in used
    BY <2>3 DEF Sane, Named
  <2>5. QED
    BY <2>3, <2>4 DEF UniqueIds
<1>2. CASE UNCHANGED idOf
  BY <1>2 DEF UniqueIds
<1>3. ~ProposeSecure => UNCHANGED idOf
  BY DEF Next, vars, hostVars, ProposeFull, ProcessEnds, ClickApprove, ClickReject, ClearList,
      ToggleSecurity, PostInit, Hide, Show, Handle, HandleApproval, HandleSecurityMode, Receive, ReceiveCard, ReceiveMode
<1>4. QED
  BY <1>1, <1>2, <1>3

Stage(x, click) ==
    IF x = "idle" THEN "idle"
    ELSE IF x = "waiting"
         THEN IF click = "none" THEN "asked" ELSE IF click = "approve" THEN "approved" ELSE "refused"
         ELSE IF x = "rejected" THEN "refused" ELSE IF x = "running" THEN "running" ELSE "over"

LEMMA StageOf == ASSUME Sane PROVE stageOf = [c \in Cmds |-> Stage(cmd[c], clicked[c])]
  BY DEF Sane, TypeOK, Started, stageOf, Stage

LEMMA StageOfPrimed == ASSUME Sane' PROVE stageOf' = [c \in Cmds |-> Stage(cmd'[c], clicked'[c])]
  BY DEF Sane, TypeOK, Started, stageOf, Stage

\* What a step of one command means for the gate.
LEMMA GateMove ==
    ASSUME Sane, Sane', NEW c \in Cmds, mode' = mode,
           \A d \in Cmds \ {c} : cmd'[d] = cmd[d] /\ clicked'[d] = clicked[d]
    PROVE  stageOf' = [stageOf EXCEPT ![c] = Stage(cmd'[c], clicked'[c])]
  BY StageOf, StageOfPrimed

LEMMA GateStep ==
    ASSUME Sane, Sane', Honest, UniqueIds, [Next]_vars
    PROVE  [Gate!Next]_(Gate!gateVars)
<1>s. /\ stageOf = [c \in Cmds |-> Stage(cmd[c], clicked[c])]
      /\ stageOf' = [c \in Cmds |-> Stage(cmd'[c], clicked'[c])]
  BY StageOf, StageOfPrimed
<1>1. CASE UNCHANGED <<mode, cmd, clicked>>
  BY <1>1, <1>s DEF Gate!gateVars
<1>2. CASE ProposeFull
  <2>1. PICK B \in Batches : \E s \in [B -> Started] :
          cmd' = [c \in Cmds |-> IF c \in B THEN s[c] ELSE cmd[c]]
    BY <1>2 DEF ProposeFull
  <2>2. PICK s \in [B -> Started] : cmd' = [c \in Cmds |-> IF c \in B THEN s[c] ELSE cmd[c]]
    BY <2>1
  <2>3. mode = "full" /\ UNCHANGED <<mode, clicked>>
    BY <1>2 DEF ProposeFull, cardVars
  <2>4. B \in SUBSET {c \in Cmds : stageOf[c] = "idle"}
    BY <1>s DEF Batches, Stage
  <2>5. PICK t \in [B -> {"running", "over"}] :
           t = [c \in B |-> IF s[c] = "running" THEN "running" ELSE "over"]
    OBVIOUS
  <2>6. \A c \in Cmds : Stage(cmd'[c], clicked'[c]) = IF c \in B THEN t[c] ELSE stageOf[c]
    BY <1>s, <2>2, <2>3, <2>5 DEF Stage, Started
  <2>7. stageOf' = [c \in Cmds |-> IF c \in B THEN t[c] ELSE stageOf[c]]
    BY <1>s, <2>6
  <2>8. Gate!Autopilot
    BY <2>3, <2>4, <2>7 DEF Gate!Autopilot
  <2>9. QED
    BY <2>8 DEF Gate!Next
<1>3. CASE ProposeSecure
  <2>1. PICK B, q, ids, last : Proposed(B, q, ids, last)
    BY <1>3, ProposeSecureIs
  <2>2. UNCHANGED <<mode, clicked>> /\ \A c \in Cmds : cmd'[c] = IF c \in B THEN "waiting" ELSE cmd[c]
    BY <2>1 DEF Proposed, cardVars
  <2>3. B \subseteq Cmds /\ \A c \in B : cmd[c] = "idle" /\ clicked[c] = "none"
    BY <2>1 DEF Proposed, Sane, Named
  <2>4. B \in SUBSET {c \in Cmds : stageOf[c] = "idle"}
    BY <1>s, <2>3 DEF Stage
  <2>5. \A c \in Cmds : Stage(cmd'[c], clicked'[c]) = IF c \in B THEN "asked" ELSE stageOf[c]
    BY <1>s, <2>2, <2>3 DEF Stage
  <2>6. stageOf' = [c \in Cmds |-> IF c \in B THEN "asked" ELSE stageOf[c]]
    BY <1>s, <2>5
  <2>7. Gate!Ask
    BY <2>2, <2>4, <2>6 DEF Gate!Ask
  <2>8. QED
    BY <2>7 DEF Gate!Next
<1>4. ASSUME NEW c \in Cmds, ProcessEnds(c) PROVE Gate!Next
  <2>1. /\ cmd[c] = "running" /\ cmd'[c] = "ended" /\ UNCHANGED <<mode, clicked>>
        /\ \A d \in Cmds \ {c} : cmd'[d] = cmd[d]
    BY <1>4 DEF ProcessEnds, cardVars, Sane, TypeOK
  <2>2. stageOf[c] = "running" /\ stageOf' = [stageOf EXCEPT ![c] = "over"]
    BY <1>s, <2>1, GateMove DEF Stage
  <2>3. Gate!End(c)
    BY <2>1, <2>2 DEF Gate!End, Gate!Move
  <2>4. QED
    BY <2>3 DEF Gate!Next
<1>5. ASSUME NEW c \in Cmds, ClickApprove(c) \/ ClickReject(c) PROVE [Gate!Next]_(Gate!gateVars)
  <2>1. PICK b \in BOOLEAN : Pressed(c, b)
    BY <1>5, ClickIs
  <2>2. /\ UNCHANGED <<mode, cmd>> /\ \A d \in Cmds \ {c} : clicked'[d] = clicked[d]
        /\ clicked'[c] = IF clicked[c] = "none" THEN Choice(b) ELSE clicked[c]
    BY <2>1 DEF Pressed, FirstClick, hostVars, Sane, TypeOK
  <2>3. stageOf' = [stageOf EXCEPT ![c] = Stage(cmd[c], clicked'[c])]
    BY <2>2, GateMove
  <2>4. CASE cmd[c] = "waiting" /\ clicked[c] = "none"
    <3>1. stageOf[c] = "asked" /\ Stage(cmd[c], clicked'[c]) \in {"approved", "refused"}
      BY <1>s, <2>2, <2>4 DEF Stage, Choice
    <3>2. Gate!Decide(c)
      BY <2>2, <2>3, <3>1 DEF Gate!Decide, Gate!Move
    <3>3. QED
      BY <3>2 DEF Gate!Next
  <2>5. CASE ~(cmd[c] = "waiting" /\ clicked[c] = "none")
    <3>1. Stage(cmd[c], clicked'[c]) = stageOf[c]
      BY <1>s, <2>2, <2>5 DEF Stage
    <3>2. stageOf' = stageOf
      BY <1>s, <2>3, <3>1
    <3>3. QED
      BY <2>2, <3>2 DEF Gate!gateVars
  <2>6. QED
    BY <2>4, <2>5
<1>6. CASE ClearList \/ ToggleSecurity \/ PostInit \/ Hide \/ Show \/ Receive
  BY <1>1, <1>6 DEF ClearList, ToggleSecurity, PostInit, Hide, Show, Receive, ReceiveCard, ReceiveMode,
      hostVars, cardVars
<1>7. CASE HandleSecurityMode
  <2>1. mode' \in Modes /\ UNCHANGED <<cmd, clicked>>
    BY <1>7 DEF HandleSecurityMode, cardVars, Sane, TypeOK
  <2>2. Gate!SetMode
    BY <1>s, <2>1 DEF Modes, Gate!SetMode
  <2>3. QED
    BY <2>2 DEF Gate!Next
<1>8. CASE HandleApproval
  <2>1. toHost # <<>> /\ toHost' = Tail(toHost) /\ UNCHANGED <<mode, clicked>>
    BY <1>8 DEF HandleApproval, cardVars
  <2>2. PICK m \in HostMessage :
             /\ m = Head(toHost) /\ m.type = "terminalApproval"
             /\ m.id \in Ids /\ m.choice \in BOOLEAN
             /\ \/ /\ pending[m.id] = None
                   /\ UNCHANGED <<cmd, pending>>
                \/ /\ pending[m.id] \in Cmds
                   /\ cmd[pending[m.id]] = "waiting" /\ idOf[pending[m.id]] = m.id
                   /\ \E s \in IF m.choice THEN Started ELSE {"rejected"} :
                         cmd' = [cmd EXCEPT ![pending[m.id]] = s]
                   /\ pending' = [pending EXCEPT ![m.id] = None]
    BY <1>8, HandleApprovalIs
  <2>3. CASE UNCHANGED <<cmd, pending>>
    BY <1>1, <2>1, <2>3
  <2>4. ASSUME NEW c \in Cmds, c = pending[m.id], cmd[c] = "waiting", idOf[c] = m.id,
               NEW s \in IF m.choice THEN Started ELSE {"rejected"}, cmd' = [cmd EXCEPT ![c] = s]
        PROVE  [Gate!Next]_(Gate!gateVars)
    <3>1. ClickedOf(m.id, Choice(m.choice))
      <4>1. IsAnswer(1, m.id) /\ m = toHost[1] /\ pending[m.id] # None
        BY <2>1, <2>2, <2>4, HostHead, ApprovalAssumption DEF IsAnswer
      <4>2. QED
        BY <2>1, <2>2, <4>1, HeadJustified
    <3>2. clicked[c] = Choice(m.choice)
      BY <2>2, <2>4, <3>1, ApprovalAssumption DEF ClickedOf, UniqueIds
    <3>3. cmd'[c] = s /\ \A d \in Cmds \ {c} : cmd'[d] = cmd[d]
      BY <2>4 DEF Sane, TypeOK
    <3>4. stageOf' = [stageOf EXCEPT ![c] = Stage(s, clicked[c])]
      BY <2>1, <3>3, GateMove
    <3>5. CASE m.choice
      <4>1. stageOf[c] = "approved" /\ Stage(s, clicked[c]) \in {"running", "over"}
        BY <1>s, <2>4, <3>2, <3>5 DEF Stage, Choice, Started
      <4>2. Gate!Start(c)
        BY <2>1, <3>4, <4>1 DEF Gate!Start, Gate!Move
      <4>3. QED
        BY <4>2 DEF Gate!Next
    <3>6. CASE ~m.choice
      <4>1. stageOf[c] = "refused" /\ Stage(s, clicked[c]) = "refused"
        BY <1>s, <2>4, <3>2, <3>6 DEF Stage, Choice
      <4>2. stageOf' = stageOf
        BY <1>s, <3>4, <4>1
      <4>3. QED
        BY <2>1, <4>2 DEF Gate!gateVars
    <3>7. QED
      BY <3>5, <3>6
  <2>5. QED
    BY <2>2, <2>3, <2>4
<1>9. QED
  BY <1>1, <1>2, <1>3, <1>4, <1>5, <1>6, <1>7, <1>8 DEF Next, Handle, vars, hostVars, cardVars

\* With one terminal call in an answer every approval card is its command's own: the
\* tool does what ApprovalGate promises, for any number of answers
\* (extension.ts:100-106, 649-685).
THEOREM ToolIsGate == ASSUME MaxBatch = 1 PROVE Spec => ImplementsGate
<1>1. Init => Gate!Init
  <2> SUFFICES ASSUME Init PROVE Gate!Init
    OBVIOUS
  <2>1. stageOf = [c \in Cmds |-> "idle"]
    BY SaneInit, StageOf DEF Init, Stage
  <2>2. QED
    BY <2>1 DEF Init, StoredMode, Modes, Gate!Init
<1>2. Spec => []UniqueIds
  <2>1. Sane /\ UniqueIds /\ [Next]_vars => UniqueIds'
    BY UniqueNext
  <2>2. QED
    BY <2>1, UniqueInit, AlwaysSane, PTL DEF Spec
<1>3. Sane /\ Sane' /\ Honest /\ UniqueIds /\ [Next]_vars => [Gate!Next]_(Gate!gateVars)
  BY GateStep
<1>4. QED
  BY <1>1, <1>2, <1>3, AlwaysSane, AlwaysHonest, PTL DEF Spec, ImplementsGate, Gate!Spec
=============================================================================
