---------------------------- MODULE FileToolsProofs ----------------------------
(***************************************************************************)
(* Proofs about FileTools: its types, that a file gets only approved text, *)
(* that a rejected edit stays out, and that no uncontested proposal is lost, *)
(* for any number of files and calls.                                      *)
(***************************************************************************)
EXTENDS FileTools, Integers, TLAPS

-----------------------------------------------------------------------------
(* Types.  A call that has begun has a path, a card is that of a call that *)
(* has returned.                                                           *)

Begun ==
    /\ \A t \in Tools : pc[t] # "idle" => path[t] \in Path
    /\ \A e \in Edits : card[e] # "none" => pc[e] = "over"

Sane == TypeOK /\ Begun

LEMMA SaneInit == Init => Sane
  BY ToolsAssumption DEF Init, Sane, Begun, TypeOK, Contents, Path, NoProposals, Tools

LEMMA SaneStart == ASSUME Sane, NEW t \in Tools, Start(t) PROVE Sane'
<1>1. PICK n \in Paths(t) : path' = [path EXCEPT ![t] = n]
  BY DEF Start
<1>2. n \in Path
  BY DEF Paths, Path, fsPath
<1>3. PICK x \in NewTexts(t) : text' = [text EXCEPT ![t] = x]
  BY DEF Start
<1>4. x \in Contents
  BY DEF NewTexts, Contents
<1>5. TypeOK'
  BY <1>1, <1>2, <1>3, <1>4 DEF Sane, TypeOK, Start
<1>6. Begun'
  BY <1>1, <1>2 DEF Sane, TypeOK, Begun, Start, Tools
<1>7. QED
  BY <1>5, <1>6 DEF Sane

LEMMA SanePropose == ASSUME Sane, NEW t \in Tools, Propose(t) PROVE Sane'
<1>1. TypeOK'
  BY ToolsAssumption DEF Sane, Begun, TypeOK, Propose, Returns, historyVars, Tools
<1>2. Begun'
  BY DEF Sane, Begun, TypeOK, Propose, Returns, Tools
<1>3. QED
  BY <1>1, <1>2 DEF Sane

LEMMA SaneReplace == ASSUME Sane, NEW t \in Tools, Replace(t) PROVE Sane'
<1>1. PICK old \in Lines :
        /\ Has(path[t].file, old)
        /\ text' = [text EXCEPT ![t] = (disk[path[t].file] \ {old}) \cup {t}]
  BY DEF Replace
<1>2. path[t].file \in Files
  BY DEF Sane, Begun, Replace, Path
<1>3. (disk[path[t].file] \ {old}) \cup {t} \in Contents
  BY <1>1, <1>2 DEF Sane, TypeOK, Has, Contents, Replace
<1>4. TypeOK'
  BY <1>1, <1>3 DEF Sane, TypeOK, Replace, historyVars
<1>5. Begun'
  BY DEF Sane, Begun, TypeOK, Replace, Tools
<1>6. QED
  BY <1>4, <1>5 DEF Sane

LEMMA SaneToolFails == ASSUME Sane, NEW t \in Tools, ToolFails(t) PROVE Sane'
<1>1. TypeOK'
  BY DEF Sane, TypeOK, ToolFails, Returns, historyVars
<1>2. Begun'
  BY DEF Sane, Begun, TypeOK, ToolFails, Returns, Tools
<1>3. QED
  BY <1>1, <1>2 DEF Sane

LEMMA SaneWriteLands == ASSUME Sane, NEW t \in Tools, WriteLands(t) PROVE Sane'
<1>1. path[t].file \in Files
  BY DEF Sane, Begun, WriteLands, Path
<1>2. TypeOK'
  BY <1>1 DEF Sane, TypeOK, WriteLands, Returns, historyVars
<1>3. Begun'
  BY DEF Sane, Begun, TypeOK, WriteLands, Returns, Tools
<1>4. QED
  BY <1>2, <1>3 DEF Sane

LEMMA SaneTool == ASSUME Sane, NEW t \in Tools, Tool(t) PROVE Sane'
  BY SaneStart, SanePropose, SaneReplace, SaneToolFails, SaneWriteLands DEF Tool

LEMMA SaneUser == ASSUME Sane, User PROVE Sane'
<1>1. ASSUME NEW e \in Edits, NEW type \in Decisions, ClickCard(e, type) PROVE Sane'
  <2>1. path[e].file \in Files
    BY <1>1 DEF Sane, Begun, TypeOK, ClickCard, Path, Tools
  <2>2. [type |-> type, file |-> path[e].file, card |-> e] \in Decision
    BY <1>1, <2>1 DEF Decision, ClickCard
  <2>3. TypeOK'
    BY <1>1, <2>2 DEF Sane, TypeOK, ClickCard, Clicked, toolVars, historyVars
  <2>4. Begun'
    BY <1>1 DEF Sane, Begun, TypeOK, ClickCard, toolVars
  <2>5. QED
    BY <2>3, <2>4 DEF Sane
<1>2. ASSUME NEW type \in Decisions, ClickAll(type) PROVE Sane'
  <2>1. [type |-> type] \in Decision
    BY <1>2 DEF Decision, ClickAll
  <2>2. TypeOK'
    BY <1>2, <2>1 DEF Sane, TypeOK, ClickAll, toolVars
  <2>3. Begun'
    BY <1>2 DEF Sane, Begun, ClickAll, toolVars
  <2>4. QED
    BY <2>2, <2>3 DEF Sane
<1>3. CASE ClearList
  BY <1>3 DEF Sane, Begun, TypeOK, ClearList, toolVars, historyVars
<1>4. CASE SwitchMode
  BY <1>4 DEF Sane, Begun, TypeOK, SwitchMode, toolVars, historyVars
<1>5. QED
  BY <1>1, <1>2, <1>3, <1>4 DEF User

\* Taking the head of the queue, and what the head is.
LEMMA ReceiveType ==
    ASSUME toHost \in Seq(Decision), NEW type \in Decisions, Receive(type)
    PROVE  /\ toHost' \in Seq(Decision)
           /\ Head(toHost) \in Decision /\ Head(toHost).type = type
           /\ type \in CardDecisions => Head(toHost).file \in Files /\ Head(toHost).card \in Edits
  BY DEF Receive, Decision, CardDecisions, Decisions

\* What approveEdit finds for a card: at most the proposal of its file.
LEMMA LookupType ==
    ASSUME Sane, NEW m, m.file \in Files, m.card \in Edits, NEW h \in Lookup(m)
    PROVE  /\ h \in Handling
           /\ h.card = m.card /\ h.file = m.file
           /\ h.edit = pendingEdits[fsPath(m.file)] /\ h.edit \in Edits
<1>1. fsPath(m.file) \in Path
  BY DEF fsPath, Path
<1>2. pendingEdits[fsPath(m.file)] \in Edits \cup {None}
  BY <1>1 DEF Sane, TypeOK
<1>3. /\ h = [card |-> m.card, file |-> m.file, edit |-> pendingEdits[fsPath(m.file)]]
      /\ h.edit # None
  BY DEF Lookup
<1>4. QED
  BY <1>2, <1>3 DEF Handling

LEMMA DropType ==
    ASSUME Sane, NEW ns, Drop(ns)
    PROVE  /\ pendingEdits' \in [Path -> Edits \cup {None}]
           /\ sweep' \in Sweep \cup {None}
  BY DEF Sane, TypeOK, Drop, Sweep

LEMMA SweepOnType ==
    ASSUME Sane, NEW visited \in SUBSET Path, SweepOn(visited)
    PROVE  /\ pendingEdits' \in [Path -> Edits \cup {None}]
           /\ sweep' \in Sweep \cup {None}
           /\ taken' \subseteq Edits
  BY DEF Sane, TypeOK, SweepOn, Sweep, NoProposals

LEMMA SaneHandler == ASSUME Sane, Handler PROVE Sane'
<1>1. CASE HandleApprove
  <2>1. /\ toHost' \in Seq(Decision)
        /\ Head(toHost).file \in Files /\ Head(toHost).card \in Edits
    BY <1>1, ReceiveType DEF Sane, TypeOK, HandleApprove, CardDecisions, Decisions
  <2>2. Lookup(Head(toHost)) \in SUBSET Handling
    BY <2>1, LookupType
  <2>3. TypeOK'
    BY <1>1, <2>1, <2>2 DEF Sane, TypeOK, HandleApprove, toolVars, Handling
  <2>4. QED
    BY <1>1, <2>3 DEF Sane, Begun, HandleApprove, toolVars
<1>2. ASSUME NEW h \in applying, ApprovedWriteLands(h) PROVE Sane'
  <2>1. h.file \in Files /\ h.edit \in Edits
    BY DEF Sane, TypeOK, Handling
  <2>2. text[h.edit] \in Contents
    BY <2>1 DEF Sane, TypeOK, Tools
  <2>3. /\ pendingEdits' \in [Path -> Edits \cup {None}]
        /\ sweep' \in Sweep \cup {None}
    BY <1>2, DropType DEF ApprovedWriteLands
  <2>4. TypeOK'
    BY <1>2, <2>1, <2>2, <2>3 DEF Sane, TypeOK, ApprovedWriteLands, toolVars, historyVars
  <2>5. QED
    BY <1>2, <2>4 DEF Sane, Begun, ApprovedWriteLands, toolVars
<1>3. ASSUME NEW h \in applying, ApprovedWriteFails(h) PROVE Sane'
  BY <1>3 DEF Sane, TypeOK, Begun, ApprovedWriteFails, Handling, toolVars
<1>4. CASE HandleReject
  <2>1. /\ toHost' \in Seq(Decision)
        /\ Head(toHost).file \in Files
    BY <1>4, ReceiveType DEF Sane, TypeOK, HandleReject, CardDecisions, Decisions
  <2>2. pendingEdits[fsPath(Head(toHost).file)] \in Edits \cup {None}
    BY <2>1 DEF Sane, TypeOK, fsPath, Path
  <2>3. /\ pendingEdits' \in [Path -> Edits \cup {None}]
        /\ sweep' \in Sweep \cup {None}
    BY <1>4, DropType DEF HandleReject, DropRejected
  <2>4. TypeOK'
    BY <1>4, <2>1, <2>2, <2>3 DEF Sane, TypeOK, HandleReject, toolVars
  <2>5. QED
    BY <1>4, <2>4 DEF Sane, Begun, HandleReject, toolVars
<1>5. CASE HandleRejectAll
  <2>1. toHost' \in Seq(Decision)
    BY <1>5, ReceiveType DEF Sane, TypeOK, HandleRejectAll, Decisions
  <2>2. /\ pendingEdits' \in [Path -> Edits \cup {None}]
        /\ sweep' \in Sweep \cup {None}
    BY <1>5, DropType DEF HandleRejectAll, DropRejected
  <2>3. TypeOK'
    BY <1>5, <2>1, <2>2 DEF Sane, TypeOK, HandleRejectAll, toolVars
  <2>4. QED
    BY <1>5, <2>3 DEF Sane, Begun, HandleRejectAll, toolVars
<1>6. CASE HandleApproveAll
  <2>1. toHost' \in Seq(Decision)
    BY <1>6, ReceiveType DEF Sane, TypeOK, HandleApproveAll, Decisions
  <2>2. /\ pendingEdits' \in [Path -> Edits \cup {None}]
        /\ sweep' \in Sweep \cup {None}
        /\ taken' \subseteq Edits
    BY <1>6, SweepOnType DEF HandleApproveAll, VisitedFirst
  <2>3. TypeOK'
    BY <1>6, <2>1, <2>2 DEF Sane, TypeOK, HandleApproveAll, toolVars
  <2>4. QED
    BY <1>6, <2>3 DEF Sane, Begun, HandleApproveAll, toolVars
<1>7. CASE SweepWriteLands
  <2>1. sweep \in Sweep
    BY <1>7 DEF Sane, TypeOK, SweepWriteLands
  <2>2. sweep.at.file \in Files /\ sweep.edit \in Edits /\ sweep.visited \in SUBSET Path
    BY <2>1 DEF Sweep, Path
  <2>3. text[sweep.edit] \in Contents
    BY <2>2 DEF Sane, TypeOK, Tools
  <2>4. disk' \in [Files -> Contents]
    BY <1>7, <2>2, <2>3 DEF Sane, TypeOK, SweepWriteLands
  <2>5. /\ pendingEdits' \in [Path -> Edits \cup {None}]
        /\ sweep' \in Sweep \cup {None}
        /\ taken' \subseteq Edits
    BY <1>7, <2>2, SweepOnType DEF SweepWriteLands
  <2>6. TypeOK'
    BY <1>7, <2>4, <2>5 DEF Sane, TypeOK, SweepWriteLands, toolVars
  <2>7. QED
    BY <1>7, <2>6 DEF Sane, Begun, SweepWriteLands, toolVars
<1>8. CASE SweepWriteFails
  BY <1>8 DEF Sane, TypeOK, Begun, SweepWriteFails, Sweep, toolVars
<1>9. QED
  BY <1>1, <1>2, <1>3, <1>4, <1>5, <1>6, <1>7, <1>8 DEF Handler

LEMMA SaneNext == ASSUME Sane, [Next]_vars PROVE Sane'
<1>1. CASE UNCHANGED vars
  BY <1>1 DEF Sane, TypeOK, Begun, vars, toolVars, historyVars
<1>2. QED
  BY <1>1, SaneTool, SaneUser, SaneHandler DEF Next

LEMMA AlwaysSane == Spec => []Sane
  BY SaneInit, SaneNext, PTL DEF Spec

\* Every variable keeps its type, whatever tools, users and handlers do at once:
\* in particular no handler carries an edit that is not there
\* (extension.ts:766-773).
THEOREM TypeCorrect == Spec => []TypeOK
  BY AlwaysSane, PTL DEF Sane

-----------------------------------------------------------------------------
(* Only approved text.  A text on its way to a file is licensed like one    *)
(* that is in it; a write of a handler has the card it was clicked on.      *)

Licensed(e, f) ==
    \/ e \in trusted
    \/ \E c \in Edits : card[c] = "approved" /\ path[c].file = f

Faithful(m) ==
    /\ m.type = "approveEdit" => card[m.card] = "approved" /\ path[m.card].file = m.file
    /\ m.type = "approveAll" => trusted = Edits

TextsLicensed ==
    \A t \in Tools : pc[t] = "writing" /\ text[t] # None =>
        \A e \in Edits : e \in text[t] => Licensed(e, path[t].file)

HandlersLicensed == \A h \in applying : card[h.card] = "approved" /\ path[h.card].file = h.file
QueueFaithful == \A k \in DOMAIN toHost : Faithful(toHost[k])
SweepTrusted == sweep # None => trusted = Edits

Guarded == EditsWereApproved /\ TextsLicensed /\ HandlersLicensed /\ QueueFaithful /\ SweepTrusted

\* An approval and the path it was given for are never taken back.
Kept ==
    /\ trusted \subseteq trusted'
    /\ \A c \in Edits : card[c] = "approved" => card'[c] = "approved" /\ path'[c] = path[c]

LEMMA LicensedStays ==
    ASSUME Kept, NEW e, NEW f, Licensed(e, f)
    PROVE  Licensed(e, f)'
  BY DEF Kept, Licensed

LEMMA FaithfulStays ==
    ASSUME Kept, Sane', NEW m \in Decision, Faithful(m)
    PROVE  Faithful(m)'
<1>1. trusted = Edits => trusted' = Edits
  BY DEF Kept, Sane, TypeOK
<1>2. m.type = "approveEdit" => m.card \in Edits
  BY DEF Decision, CardDecisions
<1>3. QED
  BY <1>1, <1>2 DEF Kept, Faithful

LEMMA KeptNext == ASSUME Sane, [Next]_vars PROVE Kept
<1>1. ASSUME NEW t \in Tools, Tool(t) PROVE Kept
  <2>1. CASE Start(t)
    BY <2>1 DEF Kept, Start, Sane, Begun, TypeOK, Tools
  <2>2. CASE Propose(t)
    BY <2>2 DEF Kept, Propose, Sane, Begun, TypeOK, historyVars, Tools
  <2>3. CASE Replace(t) \/ ToolFails(t) \/ WriteLands(t)
    BY <2>3 DEF Kept, Replace, ToolFails, WriteLands, historyVars
  <2>4. QED
    BY <1>1, <2>1, <2>2, <2>3 DEF Tool
<1>2. CASE User
  <2>1. ASSUME NEW e \in Edits, NEW type \in Decisions, ClickCard(e, type) PROVE Kept
    BY <2>1 DEF Kept, ClickCard, Sane, TypeOK, toolVars, historyVars
  <2>2. ASSUME NEW type \in Decisions, ClickAll(type) PROVE Kept
    BY <2>2 DEF Kept, ClickAll, Sane, TypeOK, toolVars
  <2>3. CASE ClearList \/ SwitchMode
    BY <2>3 DEF Kept, ClearList, SwitchMode, Sane, TypeOK, toolVars, historyVars
  <2>4. QED
    BY <1>2, <2>1, <2>2, <2>3 DEF User
<1>3. CASE Handler
  BY <1>3 DEF Kept, Handler, HandleApprove, ApprovedWriteLands, ApprovedWriteFails,
      HandleReject, HandleRejectAll, HandleApproveAll, SweepWriteLands, SweepWriteFails,
      toolVars, historyVars
<1>4. CASE UNCHANGED vars
  BY <1>4 DEF Kept, vars, toolVars, historyVars
<1>5. QED
  BY <1>1, <1>2, <1>3, <1>4 DEF Next

\* The queue of decisions after a click and after the head is taken.
LEMMA QueueAppend ==
    ASSUME toHost \in Seq(Decision), NEW m \in Decision, toHost' = Append(toHost, m),
           NEW k \in DOMAIN toHost'
    PROVE  \/ k \in DOMAIN toHost /\ toHost'[k] = toHost[k]
           \/ toHost'[k] = m
  OBVIOUS

LEMMA QueueTail ==
    ASSUME toHost \in Seq(Decision), NEW type, Receive(type), NEW k \in DOMAIN toHost'
    PROVE  k + 1 \in DOMAIN toHost /\ toHost'[k] = toHost[k + 1]
  BY DEF Receive

LEMMA QueueKept ==
    ASSUME Sane, Guarded, Kept, Sane', UNCHANGED toHost \/ \E type \in Decisions : Receive(type)
    PROVE  QueueFaithful'
<1> SUFFICES ASSUME NEW k \in DOMAIN toHost' PROVE Faithful(toHost[k])'
  BY DEF QueueFaithful
<1>1. toHost \in Seq(Decision)
  BY DEF Sane, TypeOK
<1>2. PICK j \in DOMAIN toHost : toHost'[k] = toHost[j]
  <2>1. CASE UNCHANGED toHost
    BY <2>1
  <2>2. ASSUME NEW type \in Decisions, Receive(type)
        PROVE  \E j \in DOMAIN toHost : toHost'[k] = toHost[j]
    BY <1>1, <2>2, QueueTail
  <2>3. QED
    BY <2>1, <2>2
<1>3. PICK m \in Decision : m = toHost[j] /\ Faithful(m)
  BY <1>1 DEF Guarded, QueueFaithful
<1>4. Faithful(m)'
  BY <1>3, FaithfulStays
<1>5. QED
  BY <1>2, <1>3, <1>4 DEF Faithful

LEMMA QueueGrows ==
    ASSUME Sane, Guarded, Kept, Sane', NEW m \in Decision, toHost' = Append(toHost, m), Faithful(m)'
    PROVE  QueueFaithful'
<1> SUFFICES ASSUME NEW k \in DOMAIN toHost' PROVE Faithful(toHost[k])'
  BY DEF QueueFaithful
<1>1. toHost \in Seq(Decision)
  BY DEF Sane, TypeOK
<1>2. CASE k \in DOMAIN toHost /\ toHost'[k] = toHost[k]
  <2>1. PICK o \in Decision : o = toHost[k] /\ Faithful(o)
    BY <1>1, <1>2 DEF Guarded, QueueFaithful
  <2>2. Faithful(o)'
    BY <2>1, FaithfulStays
  <2>3. QED
    BY <1>2, <2>1, <2>2 DEF Faithful
<1>3. CASE toHost'[k] = m
  BY <1>3 DEF Faithful
<1>4. QED
  BY <1>1, <1>2, <1>3, QueueAppend

\* The parts of Guarded under the steps that do not touch what they speak of.
LEMMA DiskKept == ASSUME Guarded, Kept, UNCHANGED disk PROVE EditsWereApproved'
<1> SUFFICES ASSUME NEW f \in Files, NEW e \in Edits, Has(f, e)'
             PROVE  Licensed(e, f)'
  BY DEF EditsWereApproved, Licensed
<1>1. Licensed(e, f)
  BY DEF Guarded, EditsWereApproved, Licensed, Has
<1>2. QED
  BY <1>1, LicensedStays

LEMMA DiskWritten ==
    ASSUME Sane, Guarded, Kept, NEW g \in Files, NEW x, disk' = [disk EXCEPT ![g] = x],
           x # None => \A e \in Edits : e \in x => Licensed(e, g)
    PROVE  EditsWereApproved'
<1> SUFFICES ASSUME NEW f \in Files, NEW e \in Edits, Has(f, e)'
             PROVE  Licensed(e, f)'
  BY DEF EditsWereApproved, Licensed
<1>1. Licensed(e, f)
  BY DEF Sane, TypeOK, Guarded, EditsWereApproved, Licensed, Has
<1>2. QED
  BY <1>1, LicensedStays

LEMMA TextsKept ==
    ASSUME Guarded, Kept, UNCHANGED <<text, path>>,
           \A t \in Tools : pc'[t] = "writing" => pc[t] = "writing"
    PROVE  TextsLicensed'
<1> SUFFICES ASSUME NEW t \in Tools, pc'[t] = "writing", text'[t] # None,
                    NEW e \in Edits, e \in text'[t]
             PROVE  Licensed(e, path[t].file)'
  BY DEF TextsLicensed
<1>1. PICK f : f = path[t].file /\ Licensed(e, f)
  BY DEF Guarded, TextsLicensed
<1>2. Licensed(e, f)'
  BY <1>1, LicensedStays
<1>3. QED
  BY <1>1, <1>2 DEF Licensed

LEMMA HandlersKept ==
    ASSUME Sane, Guarded, Kept, applying' \subseteq applying
    PROVE  HandlersLicensed'
  BY DEF Sane, TypeOK, Handling, Guarded, HandlersLicensed, Kept

LEMMA SweepKept ==
    ASSUME Sane, Sane', Guarded, Kept, sweep' # None => sweep # None
    PROVE  SweepTrusted'
  BY DEF Sane, TypeOK, Guarded, SweepTrusted, Kept

-----------------------------------------------------------------------------
(* Each action keeps Guarded.                                               *)

LEMMA GuardedInit == Init => Guarded
  BY ToolsAssumption DEF Init, Guarded, EditsWereApproved, TextsLicensed, HandlersLicensed,
      QueueFaithful, SweepTrusted, Has, Tools

LEMMA GuardedTool ==
    ASSUME Sane, Sane', Kept, Guarded, NEW t \in Tools, Tool(t)
    PROVE  Guarded'
<1>1. /\ UNCHANGED <<toHost, applying, sweep>>
  BY DEF Tool, Start, Propose, Replace, ToolFails, WriteLands
<1>2. QueueFaithful' /\ HandlersLicensed' /\ SweepTrusted'
  BY <1>1, QueueKept, HandlersKept, SweepKept
<1>3. CASE Start(t)
  <2>1. EditsWereApproved'
    BY <1>3, DiskKept DEF Start
  <2>2. PICK x \in NewTexts(t) : text' = [text EXCEPT ![t] = x]
    BY <1>3 DEF Start
  <2>3. PICK n : path' = [path EXCEPT ![t] = n]
    BY <1>3 DEF Start
  <2>4. ASSUME NEW u \in Tools, pc'[u] = "writing", text'[u] # None,
               NEW e \in Edits, e \in text'[u]
        PROVE  Licensed(e, path[u].file)'
    <3>1. CASE u = t
      <4>1. t \in Edits /\ e = t
        BY <2>2, <2>4, <3>1, ToolsAssumption DEF NewTexts, Tools, Sane, TypeOK
      <4>2. t \in trusted'
        BY <1>3, <2>4, <3>1, <4>1 DEF Start, AsksFirst, Sane, TypeOK
      <4>3. QED
        BY <4>1, <4>2 DEF Licensed
    <3>2. CASE u # t
      <4>1. pc[u] = "writing" /\ text'[u] = text[u] /\ path'[u] = path[u]
        BY <1>3, <2>2, <2>3, <2>4, <3>2 DEF Start, Sane, TypeOK
      <4>2. PICK f : f = path[u].file /\ Licensed(e, f)
        BY <2>4, <4>1 DEF Guarded, TextsLicensed
      <4>3. Licensed(e, f)'
        BY <4>2, LicensedStays
      <4>4. QED
        BY <4>1, <4>2, <4>3 DEF Licensed
    <3>3. QED
      BY <3>1, <3>2
  <2>5. QED
    BY <1>2, <2>1, <2>4 DEF Guarded, TextsLicensed
<1>4. CASE Propose(t)
  <2>1. EditsWereApproved'
    BY <1>4, DiskKept DEF Propose
  <2>2. TextsLicensed'
    BY <1>4, TextsKept DEF Propose, Returns, Sane, TypeOK
  <2>3. QED
    BY <1>2, <2>1, <2>2 DEF Guarded
<1>5. CASE Replace(t)
  <2>1. EditsWereApproved'
    BY <1>5, DiskKept DEF Replace
  <2>2. PICK old \in Lines :
          /\ Has(path[t].file, old)
          /\ text' = [text EXCEPT ![t] = (disk[path[t].file] \ {old}) \cup {t}]
    BY <1>5 DEF Replace
  <2>3. path[t].file \in Files
    BY <1>5 DEF Sane, Begun, Replace, Path
  <2>4. ASSUME NEW u \in Tools, pc'[u] = "writing", text'[u] # None,
               NEW e \in Edits, e \in text'[u]
        PROVE  Licensed(e, path[u].file)'
    <3>1. PICK f : f = path[u].file /\ Licensed(e, f)
      <4>1. CASE u = t
        <5>1. e \in disk[path[t].file]
          BY <1>5, <2>2, <2>4, <4>1, ToolsAssumption DEF Replace, Sane, TypeOK
        <5>2. QED
          BY <2>2, <2>3, <4>1, <5>1 DEF Guarded, EditsWereApproved, Has, Licensed
      <4>2. CASE u # t
        BY <1>5, <2>2, <2>4, <4>2 DEF Replace, Sane, TypeOK, Guarded, TextsLicensed
      <4>3. QED
        BY <4>1, <4>2
    <3>2. Licensed(e, f)'
      BY <3>1, LicensedStays
    <3>3. QED
      BY <1>5, <3>1, <3>2 DEF Replace, Licensed
  <2>5. QED
    BY <1>2, <2>1, <2>4 DEF Guarded, TextsLicensed
<1>6. CASE ToolFails(t)
  <2>1. EditsWereApproved'
    BY <1>6, DiskKept DEF ToolFails
  <2>2. TextsLicensed'
    BY <1>6, TextsKept DEF ToolFails, Returns, Sane, TypeOK
  <2>3. QED
    BY <1>2, <2>1, <2>2 DEF Guarded
<1>7. CASE WriteLands(t)
  <2>1. path[t].file \in Files
    BY <1>7 DEF Sane, Begun, WriteLands, Path
  <2>2. text[t] # None => \A e \in Edits : e \in text[t] => Licensed(e, path[t].file)
    BY <1>7 DEF WriteLands, Guarded, TextsLicensed
  <2>3. EditsWereApproved'
    BY <1>7, <2>1, <2>2, DiskWritten DEF WriteLands
  <2>4. TextsLicensed'
    BY <1>7, TextsKept DEF WriteLands, Returns, Sane, TypeOK
  <2>5. QED
    BY <1>2, <2>3, <2>4 DEF Guarded
<1>8. QED
  BY <1>3, <1>4, <1>5, <1>6, <1>7 DEF Tool

LEMMA GuardedUser ==
    ASSUME Sane, Sane', Kept, Guarded, User
    PROVE  Guarded'
<1>1. UNCHANGED <<disk, toolVars, applying, sweep>>
  BY DEF User, ClickCard, ClickAll, ClearList, SwitchMode
<1>2. EditsWereApproved' /\ TextsLicensed' /\ HandlersLicensed' /\ SweepTrusted'
  BY <1>1, DiskKept, TextsKept, HandlersKept, SweepKept DEF toolVars
<1>3. QueueFaithful'
  <2>1. ASSUME NEW e \in Edits, NEW type \in Decisions, ClickCard(e, type) PROVE QueueFaithful'
    <3>1. PICK m : m = [type |-> type, file |-> path[e].file, card |-> e]
      OBVIOUS
    <3>2. path[e].file \in Files
      BY <2>1 DEF Sane, Begun, TypeOK, ClickCard, Path, Tools
    <3>3. m \in Decision
      BY <2>1, <3>1, <3>2 DEF Decision, ClickCard
    <3>4. card'[e] = Clicked(type) /\ path'[e] = path[e]
      BY <1>1, <2>1 DEF ClickCard, toolVars, Sane, TypeOK
    <3>5. Faithful(m)'
      BY <2>1, <3>1, <3>4 DEF Faithful, ClickCard, Clicked, CardDecisions
    <3>6. QED
      BY <2>1, <3>1, <3>3, <3>5, QueueGrows DEF ClickCard
  <2>2. ASSUME NEW type \in Decisions, ClickAll(type) PROVE QueueFaithful'
    <3> DEFINE m == [type |-> type]
    <3>1. m \in Decision
      BY <2>2 DEF Decision, ClickAll
    <3>2. Faithful(m)'
      BY <2>2 DEF Faithful, ClickAll, CardDecisions
    <3>3. QED
      BY <2>2, <3>1, <3>2, QueueGrows DEF ClickAll
  <2>3. CASE ClearList \/ SwitchMode
    BY <2>3, QueueKept DEF ClearList, SwitchMode
  <2>4. QED
    BY <2>1, <2>2, <2>3 DEF User
<1>4. QED
  BY <1>2, <1>3 DEF Guarded

LEMMA GuardedHandler ==
    ASSUME Sane, Sane', Kept, Guarded, Handler
    PROVE  Guarded'
<1>1. UNCHANGED toolVars /\ (UNCHANGED toHost \/ \E type \in Decisions : Receive(type))
  BY DEF Handler, HandleApprove, ApprovedWriteLands, ApprovedWriteFails,
      HandleReject, HandleRejectAll, HandleApproveAll, SweepWriteLands, SweepWriteFails,
      Decisions, CardDecisions
<1>2. QueueFaithful'
  BY <1>1, QueueKept
<1>3. TextsLicensed'
  BY <1>1, TextsKept DEF toolVars
<1>4. EditsWereApproved'
  <2>1. ASSUME NEW h \in applying, ApprovedWriteLands(h) PROVE EditsWereApproved'
    <3>1. h.file \in Files /\ h.card \in Edits
      BY DEF Sane, TypeOK, Handling
    <3>2. \A e \in Edits : Licensed(e, h.file)
      BY <3>1 DEF Guarded, HandlersLicensed, Licensed
    <3>3. QED
      BY <2>1, <3>1, <3>2, DiskWritten DEF ApprovedWriteLands
  <2>2. CASE SweepWriteLands
    <3>1. sweep \in Sweep /\ trusted = Edits
      BY <2>2 DEF Sane, TypeOK, SweepWriteLands, Guarded, SweepTrusted
    <3>2. sweep.at.file \in Files
      BY <3>1 DEF Sweep, Path
    <3>3. \A e \in Edits : Licensed(e, sweep.at.file)
      BY <3>1 DEF Licensed
    <3>4. CASE sweep.at.form = "absolute"
      BY <2>2, <3>2, <3>3, <3>4, DiskWritten DEF SweepWriteLands
    <3>5. CASE sweep.at.form # "absolute"
      BY <2>2, <3>5, DiskKept DEF SweepWriteLands
    <3>6. QED
      BY <3>4, <3>5
  <2>3. CASE UNCHANGED disk
    BY <2>3, DiskKept
  <2>4. QED
    BY <2>1, <2>2, <2>3 DEF Handler, HandleApprove, ApprovedWriteFails, HandleReject,
        HandleRejectAll, HandleApproveAll, SweepWriteFails
<1>5. HandlersLicensed'
  <2>1. CASE HandleApprove
    <3>1. PICK m : m = Head(toHost)
      OBVIOUS
    <3>2. m.type = "approveEdit" /\ m.file \in Files /\ m.card \in Edits
      BY <2>1, <3>1, ReceiveType DEF Sane, TypeOK, HandleApprove, CardDecisions, Decisions
    <3>3. Faithful(m)
      <4>1. toHost # <<>> /\ toHost \in Seq(Decision)
        BY <2>1 DEF HandleApprove, Receive, Sane, TypeOK
      <4>2. 1 \in DOMAIN toHost /\ m = toHost[1]
        BY <3>1, <4>1
      <4>3. QED
        BY <4>2 DEF Guarded, QueueFaithful
    <3>4. card[m.card] = "approved" /\ path[m.card].file = m.file
      BY <3>2, <3>3 DEF Faithful
    <3>5. ASSUME NEW h \in applying' PROVE card'[h.card] = "approved" /\ path'[h.card].file = h.file
      <4>1. h \in applying \/ h \in Lookup(m)
        BY <2>1, <3>1 DEF HandleApprove
      <4>2. h \in Lookup(m) => h.card = m.card /\ h.file = m.file
        BY <3>2, LookupType
      <4>3. h.card \in Edits /\ card[h.card] = "approved" /\ path[h.card].file = h.file
        BY <3>2, <3>4, <4>1, <4>2 DEF Guarded, HandlersLicensed, Sane, TypeOK, Handling
      <4>4. QED
        BY <4>3 DEF Kept
    <3>6. QED
      BY <3>5 DEF HandlersLicensed
  <2>2. CASE applying' \subseteq applying
    BY <2>2, HandlersKept
  <2>3. QED
    BY <2>1, <2>2 DEF Handler, ApprovedWriteLands, ApprovedWriteFails, HandleReject,
        HandleRejectAll, HandleApproveAll, SweepWriteLands, SweepWriteFails
<1>6. SweepTrusted'
  <2>1. CASE HandleApproveAll
    <3>1. PICK m : m = Head(toHost)
      OBVIOUS
    <3>2. toHost # <<>> /\ toHost \in Seq(Decision) /\ m.type = "approveAll"
      BY <2>1, <3>1 DEF HandleApproveAll, Receive, Sane, TypeOK
    <3>3. 1 \in DOMAIN toHost /\ m = toHost[1]
      BY <3>1, <3>2
    <3>4. trusted = Edits
      BY <3>2, <3>3 DEF Guarded, QueueFaithful, Faithful
    <3>5. QED
      BY <3>4 DEF SweepTrusted, Kept, Sane, TypeOK
  <2>2. CASE sweep' # None => sweep # None
    BY <2>2, SweepKept
  <2>3. QED
    BY <2>1, <2>2 DEF Handler, HandleApprove, ApprovedWriteLands, ApprovedWriteFails,
        HandleReject, HandleRejectAll, SweepWriteLands, SweepWriteFails,
        DropRejected, Drop
<1>7. QED
  BY <1>2, <1>3, <1>4, <1>5, <1>6 DEF Guarded

LEMMA GuardedNext == ASSUME Sane, Guarded, [Next]_vars PROVE Guarded'
<1>1. Sane' /\ Kept
  BY SaneNext, KeptNext
<1>2. CASE UNCHANGED vars
  <2>1. UNCHANGED <<disk, pc, path, text, toHost, applying, sweep>>
    BY <1>2 DEF vars, toolVars
  <2>2. QED
    BY <1>1, <2>1, DiskKept, TextsKept, HandlersKept, QueueKept, SweepKept DEF Guarded
<1>3. QED
  BY <1>1, <1>2, GuardedTool, GuardedUser, GuardedHandler DEF Next

\* In the secure mode the text of an edit reaches a file only through a card of
\* that file or the approval of all proposals, and a switch of the mode between the
\* steps of a call opens no other way (extension.ts:722-772).
THEOREM OnlyApprovedEdits == Spec => []EditsWereApproved
<1>1. Spec => []Guarded
  BY AlwaysSane, GuardedInit, GuardedNext, PTL DEF Spec
<1>2. QED
  BY <1>1, PTL DEF Guarded

-----------------------------------------------------------------------------
(* A rejected edit stays out.  What a file may have of an edit is due to a   *)
(* handler that took it, or to its own call when it asked nobody.            *)

Landed(e) ==
    \/ e \in taken
    \/ pc[e] = "writing"
    \/ pc[e] = "over" /\ result[e] # "pending"

RefusedProposed == \A e \in refused : e \notin taken /\ result[e] = "pending"
PendingIsOver == \A e \in Edits : result[e] = "pending" => pc[e] = "over"

ProposedOnce ==
    \A n \in Path : pendingEdits[n] # None =>
        /\ path[pendingEdits[n]] = n
        /\ result[pendingEdits[n]] = "pending"
        /\ pendingEdits[n] \notin refused

InHandTaken ==
    /\ \A h \in applying : h.edit \in taken
    /\ sweep # None => sweep.edit \in taken

DiskLanded == \A f \in Files : \A e \in Edits : Has(f, e) => Landed(e)

TextsLanded ==
    \A t \in Tools : pc[t] = "writing" /\ text[t] # None =>
        \A e \in Edits : e \in text[t] => Landed(e)

OwnText == \A d \in Edits : text[d] # None => \A e \in Edits : e \in text[d] => e = d

Out ==
    /\ RefusedProposed /\ PendingIsOver /\ ProposedOnce /\ InHandTaken
    /\ DiskLanded /\ TextsLanded /\ OwnText

LEMMA OutRefused == ASSUME Sane, Out PROVE RefusedStaysOut
<1> SUFFICES ASSUME NEW e \in refused, NEW f \in Files PROVE ~Has(f, e)
  BY DEF RefusedStaysOut
<1>1. e \in Edits
  BY DEF Sane, TypeOK
<1>2. ~Landed(e)
  BY <1>1 DEF Out, RefusedProposed, PendingIsOver, Landed
<1>3. QED
  BY <1>1, <1>2 DEF Out, DiskLanded

LEMMA OutInit == Init => Out
<1> SUFFICES ASSUME Init PROVE Out
  OBVIOUS
<1>1. \A t \in Tools : pc[t] = "idle" /\ text[t] = None /\ result[t] = None
  BY DEF Init
<1>2. Edits \subseteq Tools
  BY DEF Tools
<1>3. result \in [Tools -> {None}] /\ refused = {} /\ pendingEdits = NoProposals
  BY DEF Init
<1>4. DiskLanded
  BY ToolsAssumption DEF Init, DiskLanded, Has, Tools
<1>5. TextsLanded /\ OwnText
  BY <1>1, <1>2 DEF TextsLanded, OwnText
<1>6. RefusedProposed /\ ProposedOnce /\ InHandTaken
  BY <1>3 DEF Init, RefusedProposed, ProposedOnce, InHandTaken, NoProposals
<1>7. PendingIsOver
  BY <1>1, <1>2, ToolsAssumption DEF PendingIsOver
<1>8. QED
  BY <1>4, <1>5, <1>6, <1>7 DEF Out

\* A step of a call or of anybody else takes nothing back.
LandedKept == taken \subseteq taken' /\ \A e \in Edits : Landed(e) => Landed(e)'

LEMMA LandedByTool == ASSUME Sane, NEW t \in Tools, Tool(t) PROVE LandedKept
<1>1. CASE Start(t)
  BY <1>1 DEF LandedKept, Landed, Start, Sane, TypeOK, Tools
<1>2. CASE Propose(t)
  BY <1>2 DEF LandedKept, Landed, Propose, Returns, historyVars, Sane, TypeOK, Tools
<1>3. CASE Replace(t)
  BY <1>3 DEF LandedKept, Landed, Replace, historyVars, Sane, TypeOK, Tools
<1>4. CASE ToolFails(t) \/ WriteLands(t)
  BY <1>4 DEF LandedKept, Landed, ToolFails, WriteLands, Returns, historyVars, Sane, TypeOK, Tools
<1>5. QED
  BY <1>1, <1>2, <1>3, <1>4 DEF Tool

LEMMA LandedByOthers == ASSUME UNCHANGED toolVars, taken \subseteq taken' PROVE LandedKept
  BY DEF LandedKept, Landed, toolVars

\* What is in a file, or on its way, stays landed.
LEMMA DiskStaysLanded ==
    ASSUME Out, LandedKept, UNCHANGED disk
    PROVE  DiskLanded'
  BY DEF Out, DiskLanded, LandedKept, Has, Landed

LEMMA WriteStaysLanded ==
    ASSUME Sane, Out, LandedKept, NEW g \in Files, NEW x, disk' = [disk EXCEPT ![g] = x],
           x # None => \A e \in Edits : e \in x => Landed(e)'
    PROVE  DiskLanded'
<1> SUFFICES ASSUME NEW f \in Files, NEW e \in Edits, Has(f, e)'
             PROVE  Landed(e)'
  BY DEF DiskLanded
<1>1. CASE f = g
  BY <1>1 DEF Has, Sane, TypeOK
<1>2. CASE f # g
  <2>1. Has(f, e)
    BY <1>2 DEF Has, Sane, TypeOK
  <2>2. QED
    BY <2>1 DEF Out, DiskLanded, LandedKept
<1>3. QED
  BY <1>1, <1>2

LEMMA TextsStayLanded ==
    ASSUME Out, LandedKept, UNCHANGED text,
           \A t \in Tools : pc'[t] = "writing" => pc[t] = "writing"
    PROVE  TextsLanded' /\ OwnText'
<1>1. TextsLanded'
  BY DEF Out, TextsLanded, LandedKept
<1>2. OwnText'
  BY DEF Out, OwnText
<1>3. QED
  BY <1>1, <1>2

LEMMA OutTool == ASSUME Sane, Sane', Out, NEW t \in Tools, Tool(t) PROVE Out'
<1>1. LandedKept
  BY LandedByTool
<1>2. InHandTaken'
  BY DEF Tool, Start, Propose, Replace, ToolFails, WriteLands, historyVars, Out, InHandTaken
<1>3. CASE Start(t)
  <2>1. DiskLanded'
    BY <1>1, <1>3, DiskStaysLanded DEF Start
  <2>2. PICK x \in NewTexts(t) : text' = [text EXCEPT ![t] = x]
    BY <1>3 DEF Start
  <2>3. PICK n : path' = [path EXCEPT ![t] = n]
    BY <1>3 DEF Start
  <2>4. x # None => \A e \in Edits : e \in x => e = t
    BY ToolsAssumption DEF NewTexts, Tools
  <2>5. TextsLanded'
    <3> SUFFICES ASSUME NEW u \in Tools, pc'[u] = "writing", text'[u] # None,
                        NEW e \in Edits, e \in text'[u]
                 PROVE  Landed(e)'
      BY DEF TextsLanded
    <3>1. CASE u = t
      BY <2>2, <2>4, <3>1 DEF Landed, Sane, TypeOK
    <3>2. CASE u # t
      <4>1. pc[u] = "writing" /\ text[u] = text'[u]
        BY <1>3, <2>2, <3>2 DEF Start, Sane, TypeOK
      <4>2. QED
        BY <1>1, <4>1 DEF Out, TextsLanded, LandedKept
    <3>3. QED
      BY <3>1, <3>2
  <2>6. OwnText'
    <3> SUFFICES ASSUME NEW d \in Edits, text'[d] # None, NEW e \in Edits, e \in text'[d]
                 PROVE  e = d
      BY DEF OwnText
    <3>1. text'[d] = IF d = t THEN x ELSE text[d]
      BY <2>2 DEF Sane, TypeOK, Tools
    <3>2. QED
      BY <2>4, <3>1 DEF Out, OwnText
  <2>7. PendingIsOver' /\ RefusedProposed'
    BY <1>3 DEF Start, Out, PendingIsOver, RefusedProposed, Sane, TypeOK, Tools
  <2>8. ProposedOnce'
    <3> SUFFICES ASSUME NEW p \in Path, pendingEdits[p] # None
                 PROVE  path'[pendingEdits[p]] = p
      BY <1>3 DEF Start, Out, ProposedOnce
    <3>1. pendingEdits[p] \in Edits /\ result[pendingEdits[p]] = "pending"
      BY DEF Sane, TypeOK, Out, ProposedOnce
    <3>2. pendingEdits[p] # t
      BY <1>3, <3>1 DEF Start, Out, PendingIsOver
    <3>3. QED
      BY <2>3, <3>1, <3>2 DEF Out, ProposedOnce, Sane, TypeOK, Tools
  <2>9. QED
    BY <1>2, <2>1, <2>5, <2>6, <2>7, <2>8 DEF Out
<1>4. CASE Propose(t)
  <2>1. DiskLanded' /\ TextsLanded' /\ OwnText'
    BY <1>1, <1>4, DiskStaysLanded, TextsStayLanded DEF Propose, Returns, Sane, TypeOK
  <2>2. t \in Edits /\ t \notin refused /\ result[t] # "pending"
    BY <1>4 DEF Propose, Out, RefusedProposed, PendingIsOver
  <2>3. PendingIsOver' /\ RefusedProposed'
    BY <1>4 DEF Propose, Returns, historyVars, Out, PendingIsOver, RefusedProposed, Sane, TypeOK, Tools
  <2>4. ProposedOnce'
    <3> SUFFICES ASSUME NEW p \in Path, pendingEdits'[p] # None
                 PROVE  /\ path[pendingEdits'[p]] = p
                        /\ result'[pendingEdits'[p]] = "pending"
                        /\ pendingEdits'[p] \notin refused
      BY <1>4 DEF Propose, historyVars, ProposedOnce
    <3>1. result' = [result EXCEPT ![t] = "pending"]
      BY <1>4 DEF Propose, Returns
    <3>2. CASE p = path[t]
      <4>1. pendingEdits'[p] = t
        BY <1>4, <3>2 DEF Propose, Sane, TypeOK
      <4>2. QED
        BY <2>2, <3>1, <3>2, <4>1 DEF Sane, TypeOK
    <3>3. CASE p # path[t]
      <4>1. pendingEdits'[p] = pendingEdits[p]
        BY <1>4, <3>3 DEF Propose, Sane, TypeOK
      <4>2. QED
        BY <3>1, <4>1 DEF Out, ProposedOnce, Sane, TypeOK, Tools
    <3>4. QED
      BY <3>2, <3>3
  <2>5. QED
    BY <1>2, <2>1, <2>3, <2>4 DEF Out
<1>5. CASE Replace(t)
  <2>1. DiskLanded'
    BY <1>1, <1>5, DiskStaysLanded DEF Replace
  <2>2. PICK old \in Lines :
          /\ Has(path[t].file, old)
          /\ text' = [text EXCEPT ![t] = (disk[path[t].file] \ {old}) \cup {t}]
    BY <1>5 DEF Replace
  <2>3. path[t].file \in Files
    BY <1>5 DEF Sane, Begun, Replace, Path
  <2>4. TextsLanded'
    <3> SUFFICES ASSUME NEW u \in Tools, pc'[u] = "writing", text'[u] # None,
                        NEW e \in Edits, e \in text'[u]
                 PROVE  Landed(e)
      BY <1>1 DEF TextsLanded, LandedKept
    <3>1. CASE u = t
      <4>1. e \in disk[path[t].file]
        BY <1>5, <2>2, <3>1, ToolsAssumption DEF Replace, Sane, TypeOK
      <4>2. QED
        BY <2>2, <2>3, <4>1 DEF Out, DiskLanded, Has
    <3>2. CASE u # t
      BY <1>5, <2>2, <3>2 DEF Replace, Sane, TypeOK, Out, TextsLanded
    <3>3. QED
      BY <3>1, <3>2
  <2>5. OwnText'
    BY <1>5, <2>2, ToolsAssumption DEF Replace, Out, OwnText, Sane, TypeOK
  <2>6. PendingIsOver' /\ RefusedProposed' /\ ProposedOnce'
    BY <1>5, ToolsAssumption DEF Replace, historyVars, Out, PendingIsOver, RefusedProposed,
        ProposedOnce, Sane, TypeOK
  <2>7. QED
    BY <1>2, <2>1, <2>4, <2>5, <2>6 DEF Out
<1>6. CASE ToolFails(t) \/ WriteLands(t)
  <2>1. PICK r \in {"error", "success"} : Returns(t, r)
    BY <1>6 DEF ToolFails, WriteLands
  <2>2. pc[t] # "over" /\ UNCHANGED <<path, text, pendingEdits, historyVars>>
    BY <1>6 DEF ToolFails, WriteLands
  <2>3. TextsLanded' /\ OwnText'
    BY <1>1, <2>1, <2>2, TextsStayLanded DEF Returns, Sane, TypeOK
  <2>4. DiskLanded'
    <3>1. CASE ToolFails(t)
      BY <1>1, <3>1, DiskStaysLanded DEF ToolFails
    <3>2. CASE WriteLands(t)
      <4>1. path[t].file \in Files
        BY <3>2 DEF Sane, Begun, WriteLands, Path
      <4>2. text[t] # None => \A e \in Edits : e \in text[t] => Landed(e)'
        BY <1>1, <3>2 DEF WriteLands, Out, TextsLanded, LandedKept
      <4>3. QED
        BY <1>1, <3>2, <4>1, <4>2, WriteStaysLanded DEF WriteLands
    <3>3. QED
      BY <1>6, <3>1, <3>2
  <2>5. \A e \in Edits : result[e] = "pending" => e # t
    BY <2>2 DEF Out, PendingIsOver
  <2>6. PendingIsOver'
    BY <2>1 DEF Returns, Out, PendingIsOver, Sane, TypeOK, Tools
  <2>7. RefusedProposed'
    BY <2>1, <2>2, <2>5 DEF Returns, historyVars, Out, RefusedProposed, Sane, TypeOK, Tools
  <2>8. ProposedOnce'
    BY <2>1, <2>2, <2>5 DEF Returns, historyVars, Out, ProposedOnce, Sane, TypeOK, Tools
  <2>9. QED
    BY <1>2, <2>3, <2>4, <2>6, <2>7, <2>8 DEF Out
<1>7. QED
  BY <1>3, <1>4, <1>5, <1>6 DEF Tool

LEMMA OutUser == ASSUME Sane, Out, User PROVE Out'
<1>1. UNCHANGED <<disk, toolVars, pendingEdits, applying, sweep, taken, refused>>
  BY DEF User, ClickCard, ClickAll, ClearList, SwitchMode, historyVars
<1>2. LandedKept
  BY <1>1, LandedByOthers
<1>3. DiskLanded' /\ TextsLanded' /\ OwnText'
  BY <1>1, <1>2, DiskStaysLanded, TextsStayLanded DEF toolVars
<1>4. RefusedProposed' /\ PendingIsOver' /\ ProposedOnce' /\ InHandTaken'
  BY <1>1 DEF toolVars, Out, RefusedProposed, PendingIsOver, ProposedOnce, InHandTaken
<1>5. QED
  BY <1>3, <1>4 DEF Out

\* A handler that takes what is proposed leaves it proposed or drops it.
LEMMA TakenOut ==
    ASSUME Sane, Out, UNCHANGED <<toolVars, refused>>,
           \A n \in Path : pendingEdits'[n] \in {pendingEdits[n], None},
           taken \subseteq taken',
           \A e \in taken' : e \in taken \/ \E n \in Path : e = pendingEdits[n] /\ e # None
    PROVE  RefusedProposed' /\ PendingIsOver' /\ ProposedOnce'
<1>1. RefusedProposed'
  BY DEF Out, RefusedProposed, ProposedOnce, toolVars
<1>2. PendingIsOver'
  BY DEF Out, PendingIsOver, toolVars
<1>3. ProposedOnce'
  BY DEF Out, ProposedOnce, toolVars
<1>4. QED
  BY <1>1, <1>2, <1>3

\* A reject drops what it refuses.
LEMMA RefusedOut ==
    ASSUME Sane, Out, UNCHANGED <<toolVars, taken>>, NEW ns \in SUBSET Path, Drop(ns),
           refused' = refused \cup ({pendingEdits[n] : n \in ns} \ (taken \cup {None}))
    PROVE  RefusedProposed' /\ PendingIsOver' /\ ProposedOnce'
<1>1. \A n \in Path : pendingEdits'[n] = IF n \in ns THEN None ELSE pendingEdits[n]
  BY DEF Drop
<1>2. RefusedProposed'
  BY DEF Out, RefusedProposed, ProposedOnce, toolVars
<1>3. PendingIsOver'
  BY DEF Out, PendingIsOver, toolVars
<1>4. ProposedOnce'
  <2> SUFFICES ASSUME NEW p \in Path, pendingEdits'[p] # None
               PROVE  /\ path[pendingEdits'[p]] = p
                      /\ result[pendingEdits'[p]] = "pending"
                      /\ pendingEdits'[p] \notin refused'
    BY DEF ProposedOnce, toolVars
  <2>1. p \notin ns /\ pendingEdits'[p] = pendingEdits[p]
    BY <1>1
  <2>2. \A n \in ns : pendingEdits[n] # None => pendingEdits[n] # pendingEdits[p]
    BY <2>1 DEF Out, ProposedOnce
  <2>3. QED
    BY <2>1, <2>2 DEF Out, ProposedOnce
<1>5. QED
  BY <1>2, <1>3, <1>4

\* The loop of _approveAllEdits has taken what it carries.
LEMMA SweepOnTakes ==
    ASSUME Sane, NEW visited, SweepOn(visited)
    PROVE  /\ taken \subseteq taken'
           /\ \A e \in taken' : e \in taken \/ \E n \in Path : e = pendingEdits[n] /\ e # None
           /\ \A n \in Path : pendingEdits'[n] \in {pendingEdits[n], None}
           /\ sweep' # None => sweep'.edit \in taken'
  BY DEF SweepOn, NoProposals

LEMMA OutHandler == ASSUME Sane, Out, Handler PROVE Out'
<1>1. UNCHANGED toolVars
  BY DEF Handler, HandleApprove, ApprovedWriteLands, ApprovedWriteFails,
      HandleReject, HandleRejectAll, HandleApproveAll, SweepWriteLands, SweepWriteFails
<1>2. CASE HandleApprove
  <2>1. PICK m : m = Head(toHost) /\ m.file \in Files /\ m.card \in Edits
    BY <1>2, ReceiveType DEF Sane, TypeOK, HandleApprove, CardDecisions, Decisions
  <2>2. \A h \in Lookup(m) : h.edit = pendingEdits[fsPath(m.file)] /\ h.edit # None
    BY DEF Lookup
  <2>3. fsPath(m.file) \in Path
    BY <2>1 DEF fsPath, Path
  <2>4. taken' = taken \cup {h.edit : h \in Lookup(m)} /\ applying' = applying \cup Lookup(m)
    BY <1>2, <2>1 DEF HandleApprove
  <2>5. UNCHANGED <<disk, pendingEdits, sweep, refused>>
    BY <1>2 DEF HandleApprove
  <2>6. RefusedProposed' /\ PendingIsOver' /\ ProposedOnce'
    BY <1>1, <2>2, <2>3, <2>4, <2>5, TakenOut
  <2>7. InHandTaken'
    BY <2>4, <2>5 DEF Out, InHandTaken
  <2>8. LandedKept
    BY <1>1, <2>4, LandedByOthers
  <2>9. QED
    BY <1>1, <2>5, <2>6, <2>7, <2>8, DiskStaysLanded, TextsStayLanded DEF Out, toolVars
<1>3. ASSUME NEW h \in applying, ApprovedWriteLands(h) PROVE Out'
  <2>1. h.file \in Files /\ h.edit \in Edits
    BY DEF Sane, TypeOK, Handling
  <2>2. /\ UNCHANGED <<taken, refused>>
        /\ \A n \in Path : pendingEdits'[n] \in {pendingEdits[n], None}
        /\ sweep' # None => sweep # None /\ sweep'.edit = sweep.edit
    BY <1>3 DEF ApprovedWriteLands, Drop, historyVars, Sane, TypeOK, Sweep
  <2>3. RefusedProposed' /\ PendingIsOver' /\ ProposedOnce'
    BY <1>1, <2>2, TakenOut
  <2>4. InHandTaken'
    BY <1>3, <2>2 DEF ApprovedWriteLands, Out, InHandTaken
  <2>5. LandedKept
    BY <1>1, <2>2, LandedByOthers
  <2>6. text[h.edit] # None => \A e \in Edits : e \in text[h.edit] => Landed(e)'
    BY <2>1, <2>2 DEF Out, OwnText, InHandTaken, Landed
  <2>7. DiskLanded'
    BY <1>3, <2>1, <2>5, <2>6, WriteStaysLanded DEF ApprovedWriteLands
  <2>8. QED
    BY <1>1, <2>3, <2>4, <2>5, <2>7, TextsStayLanded DEF Out, toolVars
<1>4. CASE (\E h \in applying : ApprovedWriteFails(h)) \/ SweepWriteFails
  <2>1. /\ UNCHANGED <<disk, pendingEdits, taken, refused>>
        /\ applying' \subseteq applying /\ sweep' \in {sweep, None}
    BY <1>4 DEF ApprovedWriteFails, SweepWriteFails
  <2>2. RefusedProposed' /\ PendingIsOver' /\ ProposedOnce' /\ InHandTaken'
    BY <1>1, <2>1 DEF toolVars, Out, RefusedProposed, PendingIsOver, ProposedOnce, InHandTaken
  <2>3. LandedKept
    BY <1>1, <2>1, LandedByOthers
  <2>4. QED
    BY <1>1, <2>1, <2>2, <2>3, DiskStaysLanded, TextsStayLanded DEF Out, toolVars
<1>5. CASE HandleReject \/ HandleRejectAll
  <2>1. PICK ns \in SUBSET Path :
          /\ Drop(ns)
          /\ refused' = refused \cup ({pendingEdits[n] : n \in ns} \ (taken \cup {None}))
    <3>1. CASE HandleReject
      <4>1. fsPath(Head(toHost).file) \in Path
        BY <3>1, ReceiveType DEF Sane, TypeOK, HandleReject, CardDecisions, Decisions, fsPath, Path
      <4>2. PICK ns : ns = {fsPath(Head(toHost).file)}
        OBVIOUS
      <4>3. ns \in SUBSET Path /\ Drop(ns)
        BY <3>1, <4>1, <4>2 DEF HandleReject, DropRejected
      <4>4. {pendingEdits[n] : n \in ns} = {pendingEdits[fsPath(Head(toHost).file)]}
        BY <4>2
      <4>5. QED
        BY <3>1, <4>3, <4>4 DEF HandleReject
    <3>2. CASE HandleRejectAll
      BY <3>2 DEF HandleRejectAll, DropRejected
    <3>3. QED
      BY <1>5, <3>1, <3>2
  <2>2. UNCHANGED <<disk, taken, applying>>
    BY <1>5 DEF HandleReject, HandleRejectAll
  <2>3. RefusedProposed' /\ PendingIsOver' /\ ProposedOnce'
    BY <1>1, <2>1, <2>2, RefusedOut
  <2>4. sweep' # None => sweep # None /\ sweep'.edit = sweep.edit
    BY <2>1 DEF Drop, Sane, TypeOK, Sweep
  <2>5. InHandTaken'
    BY <2>2, <2>4 DEF Out, InHandTaken
  <2>6. LandedKept
    BY <1>1, <2>2, LandedByOthers
  <2>7. QED
    BY <1>1, <2>2, <2>3, <2>5, <2>6, DiskStaysLanded, TextsStayLanded DEF Out, toolVars
<1>6. CASE HandleApproveAll \/ SweepWriteLands
  <2>1. PICK visited : SweepOn(visited)
    BY <1>6 DEF HandleApproveAll, SweepWriteLands
  <2>2. UNCHANGED <<applying, refused>>
    BY <1>6 DEF HandleApproveAll, SweepWriteLands
  <2>3. RefusedProposed' /\ PendingIsOver' /\ ProposedOnce'
    BY <1>1, <2>1, <2>2, SweepOnTakes, TakenOut
  <2>4. InHandTaken' /\ taken \subseteq taken'
    BY <2>1, <2>2, SweepOnTakes DEF Out, InHandTaken
  <2>5. LandedKept
    BY <1>1, <2>4, LandedByOthers
  <2>6. DiskLanded'
    <3>1. CASE UNCHANGED disk
      BY <2>5, <3>1, DiskStaysLanded
    <3>2. CASE SweepWriteLands /\ sweep.at.form = "absolute"
      <4>1. sweep \in Sweep /\ sweep.edit \in taken
        BY <3>2 DEF Sane, TypeOK, SweepWriteLands, Out, InHandTaken
      <4>2. sweep.at.file \in Files /\ sweep.edit \in Edits
        BY <4>1 DEF Sweep, Path
      <4>3. text[sweep.edit] # None => \A e \in Edits : e \in text[sweep.edit] => Landed(e)'
        BY <2>4, <4>1, <4>2 DEF Out, OwnText, Landed
      <4>4. QED
        BY <2>5, <3>2, <4>2, <4>3, WriteStaysLanded DEF SweepWriteLands
    <3>3. QED
      BY <1>6, <3>1, <3>2 DEF HandleApproveAll, SweepWriteLands
  <2>7. QED
    BY <1>1, <2>3, <2>4, <2>5, <2>6, TextsStayLanded DEF Out, toolVars
<1>7. QED
  BY <1>2, <1>3, <1>4, <1>5, <1>6 DEF Handler

LEMMA OutNext == ASSUME Sane, Out, [Next]_vars PROVE Out'
<1>1. CASE UNCHANGED vars
  BY <1>1 DEF vars, toolVars, historyVars, Out, RefusedProposed, PendingIsOver, ProposedOnce,
      InHandTaken, DiskLanded, TextsLanded, OwnText, Has, Landed
<1>2. QED
  BY <1>1, SaneNext, OutTool, OutUser, OutHandler DEF Next

\* An edit that a reject took away before any handler had it is in no file and never
\* gets into one: not through another card of its file, nor through an approve-all
\* whose loop waits for a write (extension.ts:766-773).
THEOREM RejectIsFinal == Spec => []RefusedStaysOut
<1>1. Spec => []Out
  BY AlwaysSane, OutInit, OutNext, PTL DEF Spec
<1>2. QED
  BY <1>1, AlwaysSane, OutRefused, PTL

-----------------------------------------------------------------------------
(* A proposal that no other contests is not lost.  What a write carries, and *)
(* what the loop over all proposals has visited, was taken for its path; and *)
(* a click goes to the proposal itself.                                      *)

Decided(e) == e \in taken \cup refused

Sent(e, f) ==
    \E k \in DOMAIN toHost :
        toHost[k].type \in CardDecisions /\ toHost[k].card = e /\ toHost[k].file = f

\* A proposal under n was taken.
TakenAt(n) == \E d \in taken : path[d] = n /\ result[d] = "pending"

CarriedFor == \A h \in applying : path[h.edit] = fsPath(h.file) /\ result[h.edit] = "pending"
VisitedTaken == sweep # None => \A n \in sweep.visited : TakenAt(n)

Lone(e) == result[e] = "pending" /\ ~Contested(e)
InMap(e) == pendingEdits[path[e]] = e \/ Decided(e)
Pressed(e) == path[e].form = "absolute" /\ card[e] \in {"approved", "rejected"}
Heard(e) == Decided(e) \/ Sent(e, path[e].file)

LoneTracked == \A e \in Edits : Lone(e) => InMap(e) /\ (Pressed(e) => Heard(e))

Tracked == CarriedFor /\ VisitedTaken /\ LoneTracked

LEMMA TrackedStays == Tracked => LoneProposalsStay
  BY DEF Tracked, LoneTracked, LoneProposalsStay, Lone, InMap, Pressed, Heard, Decided, Sent

LEMMA TrackedInit == Init => Tracked
<1> SUFFICES ASSUME Init PROVE Tracked
  OBVIOUS
<1>1. \A e \in Edits : result[e] = None
  BY DEF Init, Tools
<1>2. LoneTracked
  BY <1>1, ToolsAssumption DEF LoneTracked, Lone
<1>3. CarriedFor /\ VisitedTaken
  BY DEF Init, CarriedFor, VisitedTaken
<1>4. QED
  BY <1>2, <1>3 DEF Tracked

\* A proposal keeps its path, and what became of it.
ProposalsKept ==
    /\ \A e \in Edits : result[e] = "pending" => result'[e] = "pending" /\ path'[e] = path[e]
    /\ taken \subseteq taken' /\ refused \subseteq refused'

LEMMA ProposalKept == ASSUME Sane, Out, [Next]_vars PROVE ProposalsKept
<1>1. ASSUME NEW t \in Tools, Tool(t) PROVE ProposalsKept
  <2>1. CASE Start(t)
    BY <2>1 DEF ProposalsKept, Start, Sane, TypeOK, Tools, Out, PendingIsOver
  <2>2. CASE Propose(t) \/ ToolFails(t) \/ WriteLands(t)
    BY <2>2 DEF ProposalsKept, Propose, ToolFails, WriteLands, Returns, historyVars, Sane, TypeOK,
        Tools, Out, PendingIsOver
  <2>3. CASE Replace(t)
    BY <2>3 DEF ProposalsKept, Replace, historyVars
  <2>4. QED
    BY <1>1, <2>1, <2>2, <2>3 DEF Tool
<1>2. CASE User
  BY <1>2 DEF ProposalsKept, User, ClickCard, ClickAll, ClearList, SwitchMode, toolVars, historyVars
<1>3. CASE Handler
  BY <1>3 DEF ProposalsKept, Handler, HandleApprove, ApprovedWriteLands, ApprovedWriteFails,
      HandleReject, HandleRejectAll, HandleApproveAll, SweepOn, SweepWriteLands, SweepWriteFails,
      toolVars, historyVars
<1>4. CASE UNCHANGED vars
  BY <1>4 DEF ProposalsKept, vars, toolVars, historyVars
<1>5. QED
  BY <1>1, <1>2, <1>3, <1>4 DEF Next

LEMMA TakenAtStays == ASSUME Sane, ProposalsKept, NEW n, TakenAt(n) PROVE TakenAt(n)'
  BY DEF Sane, TypeOK, ProposalsKept, TakenAt

LEMMA DecidedStays == ASSUME ProposalsKept, NEW e, Decided(e) PROVE Decided(e)'
  BY DEF ProposalsKept, Decided

\* Of two proposals made under one path neither is alone.
LEMMA LoneWas ==
    ASSUME ProposalsKept, NEW e \in Edits, result[e] = "pending", Lone(e)'
    PROVE  Lone(e) /\ path'[e] = path[e]
  BY DEF ProposalsKept, Lone, Contested

LEMMA LoneTaken ==
    ASSUME Sane, NEW e \in Edits, Lone(e), TakenAt(path[e])
    PROVE  e \in taken
  BY DEF Sane, TypeOK, Lone, Contested, TakenAt

\* The loop over all proposals, from what it has visited.
LEMMA SweepOnKeeps ==
    ASSUME Sane, Sane', Out, ProposalsKept, NEW visited \in SUBSET Path, SweepOn(visited),
           \A n \in visited : TakenAt(n)
    PROVE  /\ VisitedTaken'
           /\ \A e \in Edits : Lone(e) /\ pendingEdits[path[e]] = e =>
                 pendingEdits'[path[e]] = e \/ e \in taken'
<1>1. CASE sweep' = None
  <2>1. VisitedTaken'
    BY <1>1 DEF VisitedTaken
  <2>2. ASSUME NEW e \in Edits, Lone(e), pendingEdits[path[e]] = e
        PROVE  pendingEdits'[path[e]] = e \/ e \in taken'
    <3>1. CASE UNCHANGED pendingEdits
      BY <2>2, <3>1
    <3>2. CASE {n \in Path \ visited : pendingEdits[n] # None} = {}
      <4>1. path[e] \in Path
        BY <2>2 DEF Lone, Out, PendingIsOver, Sane, Begun, Tools
      <4>2. e # None
        BY ToolsAssumption DEF Tools
      <4>3. path[e] \in visited
        BY <2>2, <3>2, <4>1, <4>2
      <4>4. QED
        BY <2>2, <4>3, LoneTaken DEF ProposalsKept
    <3>3. QED
      BY <3>1, <3>2 DEF SweepOn
  <2>3. QED
    BY <2>1, <2>2
<1>2. CASE sweep' # None
  <2>1. PICK n \in Path :
          /\ pendingEdits[n] # None /\ pendingEdits' = pendingEdits
          /\ sweep' = [visited |-> visited \cup {n}, at |-> n, edit |-> pendingEdits[n]]
          /\ taken' = taken \cup {pendingEdits[n]}
    BY <1>2 DEF SweepOn
  <2>2. pendingEdits[n] \in Edits /\ path[pendingEdits[n]] = n /\ result[pendingEdits[n]] = "pending"
    BY <2>1 DEF Out, ProposedOnce, Sane, TypeOK
  <2>3. TakenAt(n)'
    BY <2>1, <2>2 DEF TakenAt, ProposalsKept
  <2>4. \A x \in visited : TakenAt(x)'
    BY TakenAtStays
  <2>5. sweep'.visited = visited \cup {n}
    BY <2>1
  <2>6. VisitedTaken'
    BY <2>3, <2>4, <2>5 DEF VisitedTaken
  <2>7. QED
    BY <2>1, <2>6
<1>3. QED
  BY <1>1, <1>2

\* Dropping what a path has, when that was taken or is being refused.
LEMMA DropKeeps ==
    ASSUME Sane, Tracked, ProposalsKept, NEW ns, Drop(ns)
    PROVE  /\ VisitedTaken'
           /\ \A n \in Path : n \notin ns => pendingEdits'[n] = pendingEdits[n]
<1>1. sweep' # None => sweep # None /\ sweep'.visited \subseteq sweep.visited
  BY DEF Drop, Sane, TypeOK, Sweep
<1>2. VisitedTaken'
  BY <1>1, TakenAtStays DEF Tracked, VisitedTaken
<1>3. QED
  BY <1>2 DEF Drop

\* The queue after a click still has what it had, and the click.
LEMMA SentStays ==
    ASSUME toHost \in Seq(Decision), NEW m \in Decision, toHost' = Append(toHost, m),
           NEW e, NEW f, Sent(e, f)
    PROVE  Sent(e, f)'
<1>1. PICK k \in DOMAIN toHost :
        toHost[k].type \in CardDecisions /\ toHost[k].card = e /\ toHost[k].file = f
  BY DEF Sent
<1>2. k \in DOMAIN toHost' /\ toHost'[k] = toHost[k]
  OBVIOUS
<1>3. QED
  BY <1>1, <1>2 DEF Sent

LEMMA JustSent ==
    ASSUME toHost \in Seq(Decision), NEW m \in Decision, toHost' = Append(toHost, m),
           m.type \in CardDecisions
    PROVE  Sent(m.card, m.file)'
<1>1. Len(toHost) + 1 \in DOMAIN toHost' /\ toHost'[Len(toHost) + 1] = m
  OBVIOUS
<1>2. QED
  BY <1>1 DEF Sent

\* When the head is taken, what was sent is still on its way or was that head.
LEMMA SentOrHead ==
    ASSUME toHost \in Seq(Decision), NEW type, Receive(type), NEW e, NEW f, Sent(e, f)
    PROVE  \/ Sent(e, f)'
           \/ Head(toHost).type \in CardDecisions /\ Head(toHost).card = e /\ Head(toHost).file = f
<1>1. PICK k \in DOMAIN toHost :
        toHost[k].type \in CardDecisions /\ toHost[k].card = e /\ toHost[k].file = f
  BY DEF Sent
<1>2. CASE k = 1
  BY <1>1, <1>2 DEF Receive
<1>3. CASE k # 1
  <2>1. k - 1 \in DOMAIN toHost' /\ toHost'[k - 1] = toHost[k]
    BY <1>3 DEF Receive
  <2>2. QED
    BY <1>1, <2>1 DEF Sent
<1>4. QED
  BY <1>2, <1>3

LEMMA TrackedTool == ASSUME Sane, Sane', Out, Tracked, NEW t \in Tools, Tool(t) PROVE Tracked'
<1>0. ProposalsKept
  BY ProposalKept DEF Next
<1>1. UNCHANGED <<toHost, applying, sweep, taken, refused>>
  BY DEF Tool, Start, Propose, Replace, ToolFails, WriteLands, historyVars
<1>2. CarriedFor'
  BY <1>0, <1>1 DEF Tracked, CarriedFor, ProposalsKept, Sane, TypeOK, Handling
<1>3. VisitedTaken'
  BY <1>0, <1>1, TakenAtStays DEF Tracked, VisitedTaken
<1>4. LoneTracked'
  <2> SUFFICES ASSUME NEW e \in Edits, Lone(e)' PROVE InMap(e)' /\ (Pressed(e)' => Heard(e)')
    BY DEF LoneTracked
  <2>0. e \in Tools
    BY DEF Tools
  <2>1. CASE result[e] = "pending"
    <3>1. Lone(e) /\ path'[e] = path[e]
      BY <1>0, <2>1, LoneWas
    <3>2. InMap(e) /\ (Pressed(e) => Heard(e))
      BY <3>1 DEF Tracked, LoneTracked
    <3>3. t # e /\ card'[e] = card[e]
      <4>1. pc[e] = "over"
        BY <2>1 DEF Out, PendingIsOver
      <4>2. t # e
        BY <4>1 DEF Tool, Start, Propose, Replace, ToolFails, WriteLands
      <4>3. QED
        BY <4>2 DEF Tool, Start, Propose, Replace, ToolFails, WriteLands, Sane, TypeOK
    <3>4. pendingEdits'[path[e]] = pendingEdits[path[e]]
      <4>1. CASE UNCHANGED pendingEdits
        BY <4>1
      <4>2. CASE Propose(t)
        <5>1. result'[t] = "pending" /\ t \in Edits /\ path'[t] = path[t]
          BY <4>2 DEF Propose, Returns, Sane, TypeOK
        <5>2. path[t] # path[e]
          BY <3>1, <3>3, <5>1 DEF Lone, Contested
        <5>3. QED
          BY <4>2, <5>2 DEF Propose, Sane, TypeOK
      <4>3. QED
        BY <4>1, <4>2 DEF Tool, Start, Replace, ToolFails, WriteLands
    <3>5. QED
      BY <1>1, <3>1, <3>2, <3>3, <3>4 DEF InMap, Pressed, Heard, Decided, Sent
  <2>2. CASE result[e] # "pending"
    <3>1. Propose(e)
      BY <2>0, <2>2 DEF Lone, Tool, Start, Propose, Replace, ToolFails, WriteLands, Returns, Sane, TypeOK
    <3>2. path[e] \in Path
      BY <2>0, <3>1 DEF Propose, Sane, Begun
    <3>3. pendingEdits'[path[e]] = e /\ path' = path /\ card'[e] \in {"shown", "gone"}
      BY <3>1, <3>2 DEF Propose, Sane, TypeOK
    <3>4. QED
      BY <3>3 DEF InMap, Pressed
  <2>3. QED
    BY <2>1, <2>2
<1>5. QED
  BY <1>2, <1>3, <1>4 DEF Tracked

LEMMA TrackedUser == ASSUME Sane, Out, Tracked, User PROVE Tracked'
<1>0. ProposalsKept
  BY ProposalKept DEF Next
<1>1. UNCHANGED <<toolVars, pendingEdits, applying, sweep, taken, refused>>
  BY DEF User, ClickCard, ClickAll, ClearList, SwitchMode, historyVars
<1>2. CarriedFor' /\ VisitedTaken'
  BY <1>1 DEF toolVars, Tracked, CarriedFor, VisitedTaken, TakenAt
<1>3. toHost \in Seq(Decision)
  BY DEF Sane, TypeOK
<1>4. LoneTracked'
  <2> SUFFICES ASSUME NEW e \in Edits, Lone(e), Pressed(e)' PROVE Heard(e)'
    BY <1>1 DEF toolVars, LoneTracked, Tracked, Lone, Contested, InMap, Decided
  <2>1. Pressed(e) => Heard(e)
    BY DEF Tracked, LoneTracked
  <2>2. ASSUME NEW d \in Edits, NEW type \in Decisions, ClickCard(d, type) PROVE Heard(e)'
    <3>1. PICK m : m = [type |-> type, file |-> path[d].file, card |-> d]
      OBVIOUS
    <3>2. path[d].file \in Files
      BY <2>2 DEF Sane, Begun, TypeOK, ClickCard, Path, Tools
    <3>3. m \in Decision /\ m.type \in CardDecisions
      BY <2>2, <3>1, <3>2 DEF Decision, ClickCard
    <3>4. toHost' = Append(toHost, m)
      BY <2>2, <3>1 DEF ClickCard
    <3>5. CASE d = e
      <4>1. Sent(m.card, m.file)'
        BY <1>3, <3>3, <3>4, JustSent
      <4>2. m.card = e /\ m.file = path[e].file
        BY <3>1, <3>5
      <4>3. QED
        BY <1>1, <4>1, <4>2 DEF toolVars, Heard, Sent
    <3>6. CASE d # e
      <4>1. card'[e] = card[e]
        BY <2>2, <3>6 DEF ClickCard, Sane, TypeOK
      <4>2. Heard(e)
        BY <1>1, <2>1, <4>1 DEF toolVars, Pressed
      <4>3. Sent(e, path[e].file) => Sent(e, path[e].file)'
        <5>1. \A f : Sent(e, f) => Sent(e, f)'
          BY <1>3, <3>3, <3>4, SentStays
        <5>2. QED
          BY <1>1, <5>1 DEF toolVars, Sent
      <4>4. QED
        BY <1>1, <4>2, <4>3 DEF toolVars, Heard, Sent, Decided
    <3>7. QED
      BY <3>5, <3>6
  <2>3. ASSUME NEW type \in Decisions, ClickAll(type) PROVE Heard(e)'
    <3>1. PICK m \in Decision : toHost' = Append(toHost, m)
      BY <2>3 DEF ClickAll, Decision
    <3>2. Heard(e)
      BY <1>1, <2>1, <2>3 DEF toolVars, ClickAll, Pressed
    <3>3. Sent(e, path[e].file) => Sent(e, path[e].file)'
      <4>1. \A f : Sent(e, f) => Sent(e, f)'
        BY <1>3, <3>1, SentStays
      <4>2. QED
        BY <1>1, <4>1 DEF toolVars, Sent
    <3>4. QED
      BY <1>1, <3>2, <3>3 DEF toolVars, Heard, Sent, Decided
  <2>4. ASSUME ClearList \/ SwitchMode PROVE Heard(e)'
    <3>1. card'[e] \in {"approved", "rejected"} => card[e] \in {"approved", "rejected"}
      BY <2>4 DEF ClearList, SwitchMode, Sane, TypeOK
    <3>2. Heard(e) /\ UNCHANGED toHost
      BY <1>1, <2>1, <2>4, <3>1 DEF toolVars, ClearList, SwitchMode, Pressed
    <3>3. QED
      BY <1>1, <3>2 DEF toolVars, Heard, Sent, Decided
  <2>5. QED
    BY <2>2, <2>3, <2>4 DEF User
<1>5. QED
  BY <1>2, <1>4 DEF Tracked

\* A handler that keeps the queue, or takes a message from it that no card sent.
LEMMA HeardStays ==
    ASSUME Sane, ProposalsKept, UNCHANGED toolVars, NEW e, Heard(e),
           \/ UNCHANGED toHost
           \/ \E type \in Decisions \ CardDecisions : Receive(type)
    PROVE  Heard(e)'
<1>1. CASE Decided(e)
  BY <1>1, DecidedStays DEF Heard
<1>2. CASE Sent(e, path[e].file)
  <2>1. Sent(e, path[e].file)'
    <3>1. CASE UNCHANGED toHost
      BY <1>2, <3>1 DEF toolVars, Sent
    <3>2. ASSUME NEW type \in Decisions \ CardDecisions, Receive(type)
          PROVE  Sent(e, path[e].file)'
      <4>1. Head(toHost).type \notin CardDecisions
        BY <3>2 DEF Receive
      <4>2. Sent(e, path[e].file)' \/ Head(toHost).type \in CardDecisions
        <5>1. PICK f : f = path[e].file
          OBVIOUS
        <5>2. path' = path
          BY DEF toolVars
        <5>3. Sent(e, f)' \/ Head(toHost).type \in CardDecisions
          BY <1>2, <3>2, <5>1, SentOrHead DEF Sane, TypeOK
        <5>4. QED
          BY <5>1, <5>2, <5>3 DEF Sent
      <4>3. QED
        BY <4>1, <4>2
    <3>3. QED
      BY <3>1, <3>2
  <2>2. QED
    BY <2>1 DEF Heard
<1>3. QED
  BY <1>1, <1>2 DEF Heard

\* What is left to show of a handler.
LEMMA LoneStays ==
    ASSUME Sane, ProposalsKept, Tracked, UNCHANGED <<toolVars, card>>,
           \A e \in Edits : Lone(e) /\ pendingEdits[path[e]] = e => InMap(e)',
           \A e \in Edits : Lone(e) /\ InMap(e) /\ Pressed(e) /\ Heard(e) => Heard(e)'
    PROVE  LoneTracked'
<1> SUFFICES ASSUME NEW e \in Edits, Lone(e)' PROVE InMap(e)' /\ (Pressed(e)' => Heard(e)')
  BY DEF LoneTracked
<1>1. Lone(e) /\ (Pressed(e)' => Pressed(e))
  BY DEF toolVars, Lone, Contested, Pressed
<1>2. InMap(e) /\ (Pressed(e) => Heard(e))
  BY <1>1 DEF Tracked, LoneTracked
<1>3. InMap(e)'
  BY <1>1, <1>2, DecidedStays DEF InMap
<1>4. QED
  BY <1>1, <1>2, <1>3

LEMMA TrackedHandler == ASSUME Sane, Sane', Out, Tracked, Handler PROVE Tracked'
<1>0. ProposalsKept
  BY ProposalKept DEF Next
<1>1. UNCHANGED <<toolVars, card>>
  BY DEF Handler, HandleApprove, ApprovedWriteLands, ApprovedWriteFails, HandleReject,
      HandleRejectAll, HandleApproveAll, SweepWriteLands, SweepWriteFails
<1>2. toHost \in Seq(Decision)
  BY DEF Sane, TypeOK
<1>3. \A e \in Edits : Lone(e) => path[e] \in Path
  BY DEF Lone, Out, PendingIsOver, Sane, Begun, Tools
<1>4. CASE HandleApprove
  <2>1. /\ Receive("approveEdit") /\ applying' = applying \cup Lookup(Head(toHost))
        /\ taken' = taken \cup {h.edit : h \in Lookup(Head(toHost))}
        /\ UNCHANGED <<pendingEdits, sweep>>
    BY <1>4 DEF HandleApprove
  <2>2. Head(toHost).file \in Files /\ Head(toHost).card \in Edits
    BY <1>2, <2>1, ReceiveType DEF Decisions, CardDecisions
  <2>3. CarriedFor'
    <3> SUFFICES ASSUME NEW h \in applying'
                 PROVE  path[h.edit] = fsPath(h.file) /\ result[h.edit] = "pending"
      BY <1>1 DEF CarriedFor, toolVars
    <3>1. CASE h \in applying
      BY <3>1 DEF Tracked, CarriedFor
    <3>2. CASE h \in Lookup(Head(toHost))
      <4>1. /\ h.file = Head(toHost).file /\ h.edit \in Edits
            /\ h.edit = pendingEdits[fsPath(h.file)]
        BY <2>2, <3>2, LookupType
      <4>2. fsPath(h.file) \in Path /\ h.edit # None
        BY <2>2, <4>1, ToolsAssumption DEF fsPath, Path, Tools
      <4>3. QED
        BY <4>1, <4>2 DEF Out, ProposedOnce
    <3>3. QED
      BY <2>1, <3>1, <3>2
  <2>4. VisitedTaken'
    BY <1>0, <2>1, TakenAtStays DEF Tracked, VisitedTaken
  <2>5. ASSUME NEW e \in Edits, Lone(e), InMap(e), Pressed(e), Heard(e) PROVE Heard(e)'
    <3>1. CASE Decided(e)
      BY <1>0, <3>1, DecidedStays DEF Heard
    <3>2. CASE ~Decided(e)
      <4>1. Sent(e, path[e].file) /\ pendingEdits[path[e]] = e
        BY <2>5, <3>2 DEF Heard, InMap
      <4>2. PICK f : f = path[e].file
        OBVIOUS
      <4>3. CASE Sent(e, f)'
        BY <1>1, <4>2, <4>3 DEF toolVars, Heard, Sent
      <4>4. CASE Head(toHost).card = e /\ Head(toHost).file = f
        <5>1. fsPath(f) = path[e]
          BY <1>3, <2>5, <4>2 DEF Pressed, fsPath, Path
        <5>2. PICK h : h = [card |-> e, file |-> f, edit |-> e]
          OBVIOUS
        <5>3. e # None
          BY ToolsAssumption DEF Tools
        <5>4. h \in Lookup(Head(toHost))
          BY <4>1, <4>4, <5>1, <5>2, <5>3 DEF Lookup
        <5>5. e \in taken'
          BY <2>1, <5>2, <5>4
        <5>6. QED
          BY <5>5 DEF Heard, Decided
      <4>5. QED
        BY <1>2, <2>1, <4>1, <4>2, <4>3, <4>4, SentOrHead
    <3>3. QED
      BY <3>1, <3>2
  <2>6. LoneTracked'
    <3>1. \A e \in Edits : pendingEdits[path[e]] = e => InMap(e)'
      BY <1>1, <2>1 DEF toolVars, InMap
    <3>2. QED
      BY <1>0, <1>1, <2>5, <3>1, LoneStays
  <2>7. QED
    BY <2>3, <2>4, <2>6 DEF Tracked
<1>5. ASSUME NEW h \in applying, ApprovedWriteLands(h) PROVE Tracked'
  <2>1. /\ Drop({fsPath(h.file)}) /\ applying' \subseteq applying /\ UNCHANGED <<toHost, taken>>
    BY <1>5 DEF ApprovedWriteLands, historyVars
  <2>2. /\ VisitedTaken'
        /\ \A n \in Path : n \notin {fsPath(h.file)} => pendingEdits'[n] = pendingEdits[n]
    BY <1>0, <2>1, DropKeeps
  <2>3. CarriedFor'
    BY <1>1, <2>1 DEF toolVars, Tracked, CarriedFor
  <2>4. h.edit \in taken /\ path[h.edit] = fsPath(h.file) /\ result[h.edit] = "pending"
    BY DEF Out, InHandTaken, Tracked, CarriedFor
  <2>5. ASSUME NEW e \in Edits, Lone(e), pendingEdits[path[e]] = e PROVE InMap(e)'
    <3>1. CASE path[e] = fsPath(h.file)
      <4>1. e \in taken
        BY <2>4, <2>5, <3>1, LoneTaken DEF TakenAt
      <4>2. QED
        BY <2>1, <4>1 DEF InMap, Decided
    <3>2. CASE path[e] # fsPath(h.file)
      BY <1>1, <1>3, <2>2, <2>5, <3>2 DEF toolVars, InMap
    <3>3. QED
      BY <3>1, <3>2
  <2>6. LoneTracked'
    <3>1. \A e \in Edits : Heard(e) => Heard(e)'
      BY <1>0, <1>1, <2>1, HeardStays
    <3>2. QED
      BY <1>0, <1>1, <2>5, <3>1, LoneStays
  <2>7. QED
    BY <2>2, <2>3, <2>6 DEF Tracked
<1>6. CASE (\E h \in applying : ApprovedWriteFails(h)) \/ SweepWriteFails
  <2>1. /\ UNCHANGED <<pendingEdits, toHost, taken, refused>>
        /\ applying' \subseteq applying /\ sweep' \in {sweep, None}
    BY <1>6 DEF ApprovedWriteFails, SweepWriteFails
  <2>2. CarriedFor' /\ VisitedTaken'
    BY <1>1, <2>1 DEF toolVars, Tracked, CarriedFor, VisitedTaken, TakenAt
  <2>3. LoneTracked'
    <3>1. \A e \in Edits : Heard(e) => Heard(e)'
      BY <1>0, <1>1, <2>1, HeardStays
    <3>2. \A e \in Edits : pendingEdits[path[e]] = e => InMap(e)'
      BY <1>1, <2>1 DEF toolVars, InMap
    <3>3. QED
      BY <1>0, <1>1, <3>1, <3>2, LoneStays
  <2>4. QED
    BY <2>2, <2>3 DEF Tracked
<1>7. CASE HandleReject
  <2>1. /\ Receive("rejectEdit") /\ UNCHANGED <<applying, taken>>
        /\ Drop({fsPath(Head(toHost).file)})
        /\ refused' = refused \cup ({pendingEdits[fsPath(Head(toHost).file)]} \ (taken \cup {None}))
    BY <1>7 DEF HandleReject, DropRejected
  <2>2. /\ VisitedTaken'
        /\ \A n \in Path : n \notin {fsPath(Head(toHost).file)} => pendingEdits'[n] = pendingEdits[n]
    BY <1>0, <2>1, DropKeeps
  <2>3. CarriedFor'
    BY <1>1, <2>1 DEF toolVars, Tracked, CarriedFor
  <2>4. ASSUME NEW e \in Edits, pendingEdits[fsPath(Head(toHost).file)] = e PROVE Decided(e)'
    <3>1. e # None
      BY ToolsAssumption DEF Tools
    <3>2. QED
      BY <2>1, <2>4, <3>1 DEF Decided
  <2>5. ASSUME NEW e \in Edits, Lone(e), pendingEdits[path[e]] = e PROVE InMap(e)'
    <3>1. CASE path[e] = fsPath(Head(toHost).file)
      BY <2>4, <2>5, <3>1 DEF InMap
    <3>2. CASE path[e] # fsPath(Head(toHost).file)
      BY <1>1, <1>3, <2>2, <2>5, <3>2 DEF toolVars, InMap
    <3>3. QED
      BY <3>1, <3>2
  <2>6. ASSUME NEW e \in Edits, Lone(e), InMap(e), Pressed(e), Heard(e) PROVE Heard(e)'
    <3>1. CASE Decided(e)
      BY <1>0, <3>1, DecidedStays DEF Heard
    <3>2. CASE ~Decided(e)
      <4>1. Sent(e, path[e].file) /\ pendingEdits[path[e]] = e
        BY <2>6, <3>2 DEF Heard, InMap
      <4>2. PICK f : f = path[e].file
        OBVIOUS
      <4>3. CASE Sent(e, f)'
        BY <1>1, <4>2, <4>3 DEF toolVars, Heard, Sent
      <4>4. CASE Head(toHost).file = f
        <5>1. fsPath(f) = path[e]
          BY <1>3, <2>6, <4>2 DEF Pressed, fsPath, Path
        <5>2. QED
          BY <2>4, <4>1, <4>4, <5>1 DEF Heard
      <4>5. QED
        BY <1>2, <2>1, <4>1, <4>2, <4>3, <4>4, SentOrHead
    <3>3. QED
      BY <3>1, <3>2
  <2>7. LoneTracked'
    BY <1>0, <1>1, <2>5, <2>6, LoneStays
  <2>8. QED
    BY <2>2, <2>3, <2>7 DEF Tracked
<1>8. CASE HandleRejectAll
  <2>1. /\ Receive("rejectAll") /\ UNCHANGED <<applying, taken>> /\ Drop(Path)
        /\ refused' = refused \cup ({pendingEdits[n] : n \in Path} \ (taken \cup {None}))
    BY <1>8 DEF HandleRejectAll, DropRejected
  <2>2. CarriedFor' /\ VisitedTaken'
    BY <1>0, <1>1, <2>1, DropKeeps DEF toolVars, Tracked, CarriedFor
  <2>3. ASSUME NEW e \in Edits, Lone(e), pendingEdits[path[e]] = e PROVE InMap(e)'
    <3>1. e # None
      BY ToolsAssumption DEF Tools
    <3>2. QED
      BY <1>3, <2>1, <2>3, <3>1 DEF InMap, Decided
  <2>4. \A e \in Edits : Heard(e) => Heard(e)'
    BY <1>0, <1>1, <2>1, HeardStays DEF Decisions, CardDecisions
  <2>5. LoneTracked'
    BY <1>0, <1>1, <2>3, <2>4, LoneStays
  <2>6. QED
    BY <2>2, <2>5 DEF Tracked
<1>9. CASE HandleApproveAll \/ SweepWriteLands
  <2>1. PICK visited \in SUBSET Path : SweepOn(visited) /\ \A n \in visited : TakenAt(n)
    <3>1. CASE HandleApproveAll
      <4>1. SweepOn({})
        BY <3>1 DEF HandleApproveAll, VisitedFirst
      <4>2. QED
        BY <4>1
    <3>2. CASE SweepWriteLands
      <4>1. sweep # None /\ sweep \in Sweep /\ SweepOn(sweep.visited)
        BY <3>2 DEF SweepWriteLands, Sane, TypeOK
      <4>2. sweep.visited \in SUBSET Path
        BY <4>1 DEF Sweep
      <4>3. QED
        BY <4>1, <4>2 DEF Tracked, VisitedTaken
    <3>3. QED
      BY <1>9, <3>1, <3>2
  <2>2. /\ VisitedTaken'
        /\ \A e \in Edits : Lone(e) /\ pendingEdits[path[e]] = e =>
              pendingEdits'[path[e]] = e \/ e \in taken'
    BY <1>0, <2>1, SweepOnKeeps
  <2>3. CarriedFor'
    BY <1>1, <1>9 DEF HandleApproveAll, SweepWriteLands, toolVars, Tracked, CarriedFor
  <2>4. \A e \in Edits : Heard(e) => Heard(e)'
    <3>1. UNCHANGED toHost \/ Receive("approveAll")
      BY <1>9 DEF HandleApproveAll, SweepWriteLands
    <3>2. QED
      BY <1>0, <1>1, <3>1, HeardStays DEF Decisions, CardDecisions
  <2>5. \A e \in Edits : Lone(e) /\ pendingEdits[path[e]] = e => InMap(e)'
    BY <1>1, <2>2 DEF toolVars, InMap, Decided
  <2>6. LoneTracked'
    BY <1>0, <1>1, <2>4, <2>5, LoneStays
  <2>7. QED
    BY <2>2, <2>3, <2>6 DEF Tracked
<1>10. QED
  BY <1>4, <1>5, <1>6, <1>7, <1>8, <1>9 DEF Handler

LEMMA TrackedNext == ASSUME Sane, Sane', Out, Tracked, [Next]_vars PROVE Tracked'
<1>1. CASE UNCHANGED vars
  BY <1>1 DEF vars, toolVars, historyVars, Tracked, CarriedFor, VisitedTaken, LoneTracked, TakenAt,
      Lone, Contested, InMap, Pressed, Heard, Decided, Sent
<1>2. QED
  BY <1>1, TrackedTool, TrackedUser, TrackedHandler DEF Next

\* No await of a handler loses a proposal that is alone under its path: it stays until
\* it is taken or refused, and a click on its card, if the path is absolute, leads to
\* one of the two (extension.ts:740, 766-773; webview.html:679-685).
THEOREM LoneProposalIsKept == Spec => []LoneProposalsStay
<1>1. Spec => []Out
  BY AlwaysSane, OutInit, OutNext, PTL DEF Spec
<1>2. Spec => []Tracked
  BY <1>1, AlwaysSane, TrackedInit, TrackedNext, PTL DEF Spec
<1>3. QED
  BY <1>2, TrackedStays, PTL
=============================================================================
