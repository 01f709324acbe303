-------------------------- MODULE ConversationStore --------------------------
(***************************************************************************)
(* Where the Watch.ai extension keeps conversations: the list              *)
(* 'watch-ai.history' in globalState and one Firestore document per        *)
(* conversation.  _saveToHistory writes both; the first thing a resolved   *)
(* view does is to fetch the documents and, when there are any, to replace *)
(* the list by them.  The requests are sent without awaiting an answer and *)
(* their failures are only logged.                                         *)
(*                                                                         *)
(* AgentLoop models the runs; here a run is a message of the user that     *)
(* enters the transcript and, some time later, a save of whatever          *)
(* transcript the provider then has.  A transcript is the set of the       *)
(* user's messages it holds, which is what the saved copy keeps of it.     *)
(***************************************************************************)
EXTENDS Naturals, Sequences, FiniteSets, Subsequence

CONSTANTS
    Ids,           \* conversation ids (Date.now() of the first save)
    None,
    Cap,           \* 50: conversations the local list keeps
    MaxMessages,   \* messages of the user (bound of the instance)
    MaxLosses,     \* requests that may fail or die with the process (bound)
    MaxQueue,      \* requests on their way when the user deletes (bound)
    Reorders,      \* may a request overtake an earlier one?
    Offered        \* what the webview can post besides sendMessage and newChat

Messages == 1..MaxMessages
Conversation == [id: Ids, msgs: SUBSET Messages, time: Nat]

ASSUME StoreAssumption ==
    /\ None \notin Ids /\ None \notin Conversation
    /\ Cap \in Nat \ {0}
    /\ MaxMessages \in Nat /\ MaxLosses \in Nat /\ MaxQueue \in Nat
    /\ Reorders \in BOOLEAN
    /\ Offered \subseteq {"loadChat", "deleteChat"}

VARIABLES
    transcript,    \* _currentTranscript
    active,        \* _activeConversationId
    linked,        \* _currentTranscript is the array of a stored entry
    sent,          \* how many messages the user has sent
    runs,          \* agent loops under way
    clock,         \* Date.now(), one tick per save
    local,         \* globalState 'watch-ai.history', first entry first
    list,          \* getConversations(): none, asked, or answered with docs
    net,           \* PATCH and DELETE requests on their way
    cloud,         \* the Firestore collection 'conversations'
    lost,          \* requests lost so far
    saved,         \* history: the last save of each conversation
    deleted,       \* history: the conversations the user has deleted
    replaced       \* history: has a cloud list ever replaced the local one?

chatVars == <<transcript, active, linked>>
runVars == <<sent, runs, clock>>
hostVars == <<chatVars, runVars, local, list>>
cloudVars == <<net, cloud, lost>>
historyVars == <<saved, deleted, replaced>>
vars == <<hostVars, cloudVars, historyVars>>

Request == [op: {"PATCH"}, doc: Conversation] \cup [op: {"DELETE"}, id: Ids]

NoList == [stage |-> "none", docs |-> <<>>]

Stored(h) == {h[p].id : p \in DOMAIN h}
Without(h, i) == Kept(h, {p \in DOMAIN h : h[p].id # i})

-----------------------------------------------------------------------------
Init ==
    /\ transcript = {} /\ active = None /\ linked = FALSE
    /\ sent = 0 /\ runs = 0 /\ clock = 0
    /\ local = <<>> /\ list = NoList
    /\ net = <<>> /\ cloud = [i \in Ids |-> None] /\ lost = 0
    /\ saved = [i \in Ids |-> None] /\ deleted = {} /\ replaced = FALSE

-----------------------------------------------------------------------------
(* The conversation on the screen.                                         *)

\* While _currentTranscript is the array of a stored entry a push grows that
\* entry too, until globalState hands out another copy of it.
GrowLinked ==
    \/ /\ linked' = linked
       /\ local' = [p \in DOMAIN local |-> IF local[p].id = active
                                          THEN [local[p] EXCEPT !.msgs = transcript']
                                          ELSE local[p]]
    \/ linked' = FALSE /\ UNCHANGED local

Send ==
    /\ sent < MaxMessages
    /\ sent' = sent + 1 /\ runs' = runs + 1
    /\ transcript' = transcript \cup {sent'}
    /\ IF linked THEN GrowLinked ELSE UNCHANGED <<local, linked>>
    /\ UNCHANGED <<active, clock, list, cloudVars, historyVars>>

NewChat ==
    /\ transcript # {}
    /\ transcript' = {} /\ active' = None /\ linked' = FALSE
    /\ UNCHANGED <<runVars, local, list, cloudVars, historyVars>>

\* _loadChat, from the list that showHistory has posted.
LoadChat ==
    /\ "loadChat" \in Offered
    /\ \E p \in DOMAIN local :
          /\ transcript' = local[p].msgs
          /\ active' = local[p].id
    /\ linked' = TRUE
    /\ UNCHANGED <<runVars, local, list, cloudVars, historyVars>>

\* _deleteChat: also of the conversation on the screen.
DeleteChat ==
    /\ "deleteChat" \in Offered /\ Len(net) < MaxQueue
    /\ \E i \in Stored(local) :
          /\ local' = Without(local, i)
          /\ net' = Append(net, [op |-> "DELETE", id |-> i])
          /\ deleted' = deleted \cup {i}
    /\ linked' = FALSE
    /\ UNCHANGED <<transcript, active, runVars, list, cloud, lost, saved, replaced>>

-----------------------------------------------------------------------------
(* _saveToHistory.  A definition named like another with a suffix is a      *)
(* mutant: a plausible slip that the runs must detect.                      *)

\* slice(0, 50).
TrimLate(h) == [p \in DOMAIN h \cap 1..(Cap + 1) |-> h[p]]
Trim(h) == [p \in DOMAIN h \cap 1..Cap |-> h[p]]

\* splice and unshift: the saved entry comes first.  An active conversation
\* that is not in the list (any more) is not put back.
UpdateInPlace(h, c) == [p \in DOMAIN h |-> IF h[p].id = c.id THEN c ELSE h[p]]
Update(h, c) == IF c.id \in Stored(h) THEN <<c>> \o Without(h, c.id) ELSE h

\* saveConversation, for new and old conversations alike.
PatchWhenListed(c) ==
    net' = IF c.id \in Stored(local) \/ saved[c.id] = None
           THEN Append(net, [op |-> "PATCH", doc |-> c]) ELSE net
Patch(c) == net' = Append(net, [op |-> "PATCH", doc |-> c])

\* The end of a run.  An empty transcript makes _handleAgentMessage report
\* an error before anything is saved.
RunEnds ==
    /\ runs > 0 /\ runs' = runs - 1
    /\ IF transcript = {}
       THEN UNCHANGED <<chatVars, clock, local, net, saved>>
       ELSE \E i \in IF active # None THEN {active} ELSE {j \in Ids : saved[j] = None} :
               LET c == [id |-> i, msgs |-> transcript, time |-> clock + 1] IN
               /\ local' = Trim(IF active # None THEN Update(local, c) ELSE <<c>> \o local)
               /\ active' = i /\ linked' = FALSE
               /\ clock' = clock + 1
               /\ Patch(c)
               /\ saved' = [saved EXCEPT ![i] = c]
               /\ UNCHANGED transcript
    /\ UNCHANGED <<sent, list, cloud, lost, deleted, replaced>>

-----------------------------------------------------------------------------
(* The cloud.                                                              *)

Apply(m) == IF m.op = "PATCH" THEN [cloud EXCEPT ![m.doc.id] = m.doc]
            ELSE [cloud EXCEPT ![m.id] = None]

Position == IF Reorders THEN DOMAIN net ELSE DOMAIN net \cap {1}
Dropped(p) == SubSeq(net, 1, p - 1) \o SubSeq(net, p + 1, Len(net))

\* A request reaches Firestore ...
Arrive ==
    /\ \E p \in Position : cloud' = Apply(net[p]) /\ net' = Dropped(p)
    /\ UNCHANGED <<hostVars, lost, historyVars>>

\* ... or fails, which is only logged.
Lose ==
    /\ lost < MaxLosses /\ lost' = lost + 1
    /\ \E p \in Position : net' = Dropped(p)
    /\ UNCHANGED <<hostVars, cloud, historyVars>>

\* Half a second after the view is resolved the documents are asked for.
ViewResolved ==
    /\ list = NoList
    /\ list' = [stage |-> "asked", docs |-> <<>>]
    /\ UNCHANGED <<chatVars, runVars, local, cloudVars, historyVars>>

Documents == {cloud[i] : i \in Ids} \ {None}

\* sort((a, b) => b.timestamp - a.timestamp)
NewestFirst(h) == \A p, q \in DOMAIN h : p < q => h[p].time > h[q].time

\* One page of the documents, and the token of the next page is ignored; or []
\* when the request fails.
ListAnswered ==
    /\ list.stage = "asked"
    /\ \E page \in SUBSET Documents : \E h \in [1..Cardinality(page) -> page] :
          NewestFirst(h) /\ list' = [stage |-> "answered", docs |-> h]
    /\ UNCHANGED <<chatVars, runVars, local, cloudVars, historyVars>>

\* if (cloudHistory.length > 0) (mutant: the guard is forgotten).
ReplaceAlways(h) == local' = h /\ replaced' = (replaced \/ h # <<>>)
Replace(h) == IF h = <<>> THEN UNCHANGED <<local, replaced>>
              ELSE local' = h /\ replaced' = TRUE

ListReceived ==
    /\ list.stage = "answered"
    /\ Replace(list.docs)
    /\ list' = NoList
    /\ linked' = (linked /\ list.docs = <<>>)
    /\ UNCHANGED <<transcript, active, runVars, cloudVars, saved, deleted>>

\* The editor is closed and opened again: globalState survives, the provider's
\* fields do not, nor do the requests that were not sent in time.
Restart ==
    /\ transcript # {} \/ runs > 0 \/ list # NoList
    /\ transcript' = {} /\ active' = None /\ linked' = FALSE
    /\ runs' = 0 /\ list' = NoList
    /\ \E n \in 0..Len(net) : /\ lost + (Len(net) - n) <= MaxLosses
                              /\ lost' = lost + (Len(net) - n)
                              /\ net' = SubSeq(net, 1, n)
    /\ UNCHANGED <<sent, clock, local, cloud, historyVars>>

-----------------------------------------------------------------------------
Next == \/ Send \/ RunEnds \/ NewChat \/ LoadChat \/ DeleteChat
        \/ Arrive \/ Lose
        \/ ViewResolved \/ ListAnswered \/ ListReceived
        \/ Restart

Spec == Init /\ [][Next]_vars

\* A request that is not lost reaches Firestore.
FairSpec == Spec /\ WF_vars(Arrive)

-----------------------------------------------------------------------------
(* Properties.                                                             *)

TypeOK ==
    /\ transcript \subseteq Messages /\ active \in Ids \cup {None} /\ linked \in BOOLEAN
    /\ sent \in 0..MaxMessages /\ runs \in 0..sent /\ clock \in 0..sent
    /\ local \in Seq(Conversation) /\ (Len(local) <= Cap \/ replaced)
    /\ list \in [stage: {"none", "asked", "answered"}, docs: Seq(Conversation)]
    /\ net \in Seq(Request)
    /\ cloud \in [Ids -> Conversation \cup {None}]
    /\ lost \in 0..MaxLosses
    /\ saved \in [Ids -> Conversation \cup {None}]
    /\ deleted \subseteq Ids /\ replaced \in BOOLEAN

\* The history lists each conversation once, the most recently saved first
\* (extension.ts:198-199, 210, 213, 854), so that slice(0, 50) drops the
\* oldest ones.
LocalOrdered ==
    /\ NewestFirst(local)
    /\ \A p, q \in DOMAIN local : local[p].id = local[q].id => p = q

Newer(i) == {j \in Ids : saved[j] # None /\ saved[j].time > saved[i].time}

\* Without the cloud the history is safe: as long as no list of documents has
\* replaced it, it holds the last Cap saved conversations with everything that
\* was ever saved of them, whatever failed and however often the editor was
\* restarted (extension.ts:78, 194-200, 214).
LocalKept ==
    ~replaced =>
        \A i \in Ids \ deleted :
           saved[i] # None /\ Cardinality(Newer(i)) < Cap =>
              \E p \in DOMAIN local : /\ local[p].id = i
                                      /\ saved[i].msgs \subseteq local[p].msgs

InFlight(i) == {p \in DOMAIN net : net[p].op = "PATCH" /\ net[p].doc.id = i}

Locally(i, m) == \E p \in DOMAIN local : local[p].id = i /\ m \in local[p].msgs

\* Whatever was saved of a conversation is in its document or on its way there.
CloudKept ==
    \A i \in Ids : saved[i] # None => \A m \in saved[i].msgs :
        \/ cloud[i] # None /\ m \in cloud[i].msgs
        \/ \E p \in InFlight(i) : m \in net[p].doc.msgs

\* ... and arrives there for good.
EventuallySynced ==
    \A i \in Ids :
        saved[i] # None ~> cloud[i] # None /\ saved[i].msgs \subseteq cloud[i].msgs

\* README.md:9: "Chat history is automatically synced and persisted": what was
\* saved is in the local history, in the cloud or on its way there.
HistoryPersisted ==
    \A i \in Ids : saved[i] # None => \A m \in saved[i].msgs :
        \/ Locally(i, m)
        \/ cloud[i] # None /\ m \in cloud[i].msgs
        \/ \E p \in InFlight(i) : m \in net[p].doc.msgs
=============================================================================
