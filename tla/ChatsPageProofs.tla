-------------------------- MODULE ChatsPageProofs --------------------------
(***************************************************************************)
(* Proofs about ChatsPage, for any chats, finitely many messages and any   *)
(* number of events and calls under way.                                   *)
(***************************************************************************)
EXTENDS ChatsPage, TLAPS, FiniteSetTheorems, SequenceTheorems

\* Only messages of chat c are in the panel, or in an answer that fills it.
IsOf(panel, c) == \A m \in Msg : panel[m] # "no" => ChatOf[m] = c

\* An answer of loadMessages has messages of the chat it was asked for.
LoadsInv == \A i \in DOMAIN msgLoads : IsOf(msgLoads[i].items, msgLoads[i].chat)

\* What fills the panel is for the open chat, and if nothing does the panel is full.
PanelInv ==
    "switched" \notin mishaps =>
        /\ \A i \in DOMAIN msgLoads : msgLoads[i].chat = selected
        /\ \A m \in Own : sends[m] \in {"asked", "served"} => ChatOf[m] = selected
        /\ msgLoads = <<>> => IsOf(shown, selected)

\* The page has heard that the viewer is out of chat c.
Heard(c) ==
    /\ chats[c] = "removed"
    /\ <<"removed", c>> \notin due
    /\ \A i \in DOMAIN events : events[i] # [type |-> "removed", chat |-> c]

\* Neither the page nor an answer of loadChats has a chat the page heard that of.
Out(c) == list[c] = Absent /\ selected # c /\ chatLoad.items[c] = Absent

RemovedInv == mishaps \cap {"lost", "outdated"} = {} => \A c \in Chat : Heard(c) => Out(c)

PageInv == PageTypeOK /\ LoadsInv /\ PanelInv /\ RemovedInv

\* What is shown, on its way to the panel or about to be marked is or was stored, in a
\* chat the viewer has been in.
StoredInv ==
    /\ \A m \in Msg : rows[m] # "none" => chats[ChatOf[m]] # "none"
    /\ \A m \in Msg : shown[m] # "no" \/ patches[m] # NoChat => rows[m] # "none"
    /\ \A i \in DOMAIN msgLoads, m \in Msg : msgLoads[i].items[m] # "no" => rows[m] # "none"
    /\ \A m \in Own : sends[m] = "served" => rows[m] # "none"

\* Unless more are due, the last counts on their way leave out no unread message.
CountsInv ==
    "lost" \notin mishaps /\ <<"unread">> \notin due =>
        \A i \in DOMAIN events :
            events[i].type = "unread" /\ (\A j \in DOMAIN events : i < j => events[j].type # "unread") =>
                \A c \in Chat : UnreadCounts[c] <= events[i].counts[c]

\* What the panel has when every call of loadMessages under way is heard, unless the
\* last of them has still to be served.
Coming == msgLoads # <<>> /\ msgLoads[Len(msgLoads)].pc = "asked"

View == IF msgLoads = <<>> THEN shown ELSE msgLoads[Len(msgLoads)].items

\* Unread messages of the open chat that are in view, but for those being marked.
InCount == {m \in Msg : ChatOf[m] = selected /\ View[m] # "no" /\ rows[m] = "unread" /\ patches[m] = NoChat}

NewsToCome == <<"unread">> \in due \/ \E i \in DOMAIN events : events[i].type = "unread"

\* Of what is not purged, nothing is in the panel, on its way there or about to be
\* marked but what is in view; the list counts no message that is not; and of those
\* that are not, counts are to come.
InStep ==
    /\ \A m \in Msg : rows[m] # "gone" /\ ChatOf[m] = selected /\ (shown[m] # "no" \/ patches[m] # NoChat) =>
         View[m] # "no"
    /\ \A i \in DOMAIN msgLoads, m \in Msg :
         rows[m] # "gone" /\ ChatOf[m] = selected /\ msgLoads[i].items[m] # "no" => View[m] # "no"
    /\ list[selected] # Absent => list[selected] <= Cardinality(InCount)
    /\ \A m \in Msg : ChatOf[m] = selected /\ Stored(m) /\ View[m] = "no" =>
         (m \in Own /\ sends[m] = "served") \/ (rows[m] = "unread" /\ NewsToCome)

Undisturbed == mishaps = {} /\ selected # NoChat /\ chats[selected] # "removed" /\ ~Coming

OpenInv == Undisturbed => InStep

CompleteInv == StoredInv /\ CountsInv /\ OpenInv

-----------------------------------------------------------------------------

(* Types.                                                                  *)

\* A sequence without one of its elements has the others only.
LEMMA Without ==
    ASSUME NEW S, NEW s \in Seq(S), NEW i \in DOMAIN s
    PROVE  /\ RemoveAt(s, i) \in Seq(S)
           /\ \A j \in DOMAIN RemoveAt(s, i) : \E k \in DOMAIN s : RemoveAt(s, i)[j] = s[k]
<1> DEFINE R == {s[k] : k \in DOMAIN s}
<1>1. Len(s) \in Nat /\ DOMAIN s = 1..Len(s) /\ i \in 1..Len(s) /\ R \subseteq S
  BY LenProperties, ElementOfSeq
<1>2. SubSeq(s, 1, i - 1) \in Seq(R)
  <2>1. \A j \in 1..(i - 1) : s[j] \in R
    BY <1>1
  <2> QED
    BY <1>1, <2>1, SubSeqProperties
<1>3. SubSeq(s, i + 1, Len(s)) \in Seq(R)
  <2>1. \A j \in (i + 1)..Len(s) : s[j] \in R
    BY <1>1
  <2> QED
    BY <1>1, <2>1, SubSeqProperties
<1>4. RemoveAt(s, i) \in Seq(R)
  BY <1>2, <1>3, ConcatProperties DEF RemoveAt
<1>5. RemoveAt(s, i) \in Seq(S)
  BY <1>1, <1>4, SeqMonotonic
<1>6. \A j \in DOMAIN RemoveAt(s, i) : RemoveAt(s, i)[j] \in R
  BY <1>4, ElementOfSeq, LenProperties
<1> QED
  BY <1>5, <1>6

\* No more messages are unread in a chat than there are messages.
LEMMA CountsTyped ==
    ASSUME PageTypeOK
    PROVE  UnreadCounts \in Counts /\ Cardinality(Msg) \in Nat
<1>1. Cardinality(Msg) \in Nat
  BY PageIsTyped, FS_CardinalityType
<1>2. ASSUME NEW T \in SUBSET Msg PROVE Cardinality(T) \in 0..Cardinality(Msg)
  BY <1>1, <1>2, PageIsTyped, FS_Subset, FS_CardinalityType
<1>3. \A c \in Chat : Cardinality({m \in Msg : ChatOf[m] = c /\ rows[m] = "unread"})
                        \in 0..Cardinality(Msg)
  BY <1>2
<1> QED
  BY <1>1, <1>3 DEF UnreadCounts, Counts

LEMMA EmptyTyped ==
    /\ EmptyList \in List /\ EmptyPanel \in Panel
    /\ NoChatLoad \in ChatLoad /\ [NoChatLoad EXCEPT !.pc = "asked"] \in ChatLoad
    /\ \A c \in Chat : Asked(c) \in MsgLoad /\ [Asked(c) EXCEPT !.pc = "failed"] \in MsgLoad
BY DEF EmptyList, List, EmptyPanel, Panel, NoChatLoad, ChatLoad, Asked, MsgLoad

LEMMA TypesInit ==
    ASSUME Init
    PROVE  PageTypeOK
<1>1. /\ chats \in [Chat -> {"none", "member", "removed"}]
      /\ rows \in [Msg -> {"none", "unread", "read", "gone"}]
      /\ due \subseteq Note /\ marked \subseteq Msg /\ mishaps \subseteq Mishap
      /\ selected \in Chat \cup {NoChat}
      /\ patches \in [Msg -> Chat \cup {NoChat}]
      /\ sends \in [Own -> {"none", "asked", "served", "done"}]
  BY DEF Init
<1>2. events \in Seq(Event) /\ msgLoads \in Seq(MsgLoad)
  BY EmptySeq DEF Init
<1>3. list \in List /\ shown \in Panel /\ chatLoad \in ChatLoad
  BY EmptyTyped DEF Init
<1> QED
  BY <1>1, <1>2, <1>3 DEF PageTypeOK

LEMMA AskMessagesTyped ==
    ASSUME PageTypeOK, NEW c \in Chat, AskMessages(c)
    PROVE  msgLoads' \in Seq(MsgLoad)
BY EmptyTyped, AppendProperties DEF AskMessages, PageTypeOK

LEMMA ShowTyped ==
    ASSUME PageTypeOK, NEW c \in Chat \cup {NoChat}, Show(c)
    PROVE  /\ selected' \in Chat \cup {NoChat} /\ shown' \in Panel /\ marked' \subseteq Msg
           /\ msgLoads' \in Seq(MsgLoad)
<1>1. msgLoads' \in Seq(MsgLoad)
  BY AskMessagesTyped DEF Show, PageTypeOK
<1> QED
  BY <1>1, EmptyTyped DEF Show, PageTypeOK

\* The types of what a server step leaves alone.
LEMMA ServerTyped ==
    ASSUME PageTypeOK, UNCHANGED <<listVars, panelVars, callVars>>,
           chats' \in [Chat -> {"none", "member", "removed"}],
           rows' \in [Msg -> {"none", "unread", "read", "gone"}],
           due' \subseteq Note, events' \in Seq(Event), mishaps' \subseteq Mishap
    PROVE  PageTypeOK'
BY DEF PageTypeOK, listVars, panelVars, callVars

LEMMA MembersTyped ==
    ASSUME PageTypeOK, NEW c \in Chat, Add(c) \/ RemoveViewer(c)
    PROVE  PageTypeOK'
<1>1. chats' \in [Chat -> {"none", "member", "removed"}] /\ rows' \in [Msg -> {"none", "unread", "read", "gone"}]
  BY DEF Add, RemoveViewer, PageTypeOK
<1>2. due' \subseteq Note
  BY DEF Add, RemoveViewer, PageTypeOK, Note
<1> QED
  BY <1>1, <1>2, ServerTyped DEF Add, RemoveViewer, PageTypeOK

LEMMA RowsTyped ==
    ASSUME PageTypeOK, NEW m \in Msg, Read(m) \/ \E row \in {"unread", "read"} : Post(m, row)
    PROVE  /\ rows' \in [Msg -> {"none", "unread", "read", "gone"}] /\ due' \subseteq Note
           /\ UNCHANGED <<chats, events>>
BY DEF Read, Post, PageTypeOK, Note

LEMMA OthersTyped ==
    ASSUME PageTypeOK, NEW m \in Msg, OthersPost(m) \/ ReadElsewhere(m)
    PROVE  PageTypeOK'
<1>1. /\ rows' \in [Msg -> {"none", "unread", "read", "gone"}] /\ due' \subseteq Note
      /\ UNCHANGED <<chats, events>>
  BY RowsTyped DEF OthersPost, ReadElsewhere
<1>2. mishaps' \subseteq Mishap
  BY DEF OthersPost, ReadElsewhere, Happens, PageTypeOK, Mishap
<1> QED
  BY <1>1, <1>2, ServerTyped DEF OthersPost, ReadElsewhere, PageTypeOK

LEMMA PurgeTyped ==
    ASSUME PageTypeOK, NEW S \in SUBSET Expiring, Purge(S)
    PROVE  PageTypeOK'
<1>1. rows' \in [Msg -> {"none", "unread", "read", "gone"}] /\ mishaps' \subseteq Mishap
  BY DEF Purge, Happens, PageTypeOK, Mishap
<1> QED
  BY <1>1, ServerTyped DEF Purge, PageTypeOK

LEMMA NotifyTyped ==
    ASSUME PageTypeOK, NotifyUnread \/ Drop \/ \E n \in due : Notify(n) \/ Skip(n)
    PROVE  PageTypeOK'
<1>1. ASSUME NEW e \in Event, Sends(e) PROVE events' \in Seq(Event)
  BY <1>1, AppendProperties DEF Sends, PageTypeOK
<1>2. CASE NotifyUnread
  <2>1. [type |-> "unread", counts |-> UnreadCounts] \in Event
    BY CountsTyped DEF Event
  <2>2. events' \in Seq(Event)
    BY <1>1, <1>2, <2>1 DEF NotifyUnread
  <2> QED
    BY <1>2, <2>2, ServerTyped DEF NotifyUnread, PageTypeOK
<1>3. CASE Drop
  <2>1. events' \in Seq(Event) /\ mishaps' \subseteq Mishap
    BY <1>3, EmptySeq DEF Drop, Loses, PageTypeOK, Mishap
  <2> QED
    BY <1>3, <2>1, ServerTyped DEF Drop, PageTypeOK
<1>4. ASSUME NEW n \in due, Notify(n) PROVE PageTypeOK'
  <2>1. n \in {"added", "removed"} \X Chat
    BY <1>4 DEF Notify, PageTypeOK, Note
  <2>2. [type |-> n[1], chat |-> n[2]] \in Event
    BY <2>1 DEF Event
  <2>3. events' \in Seq(Event)
    BY <1>1, <1>4, <2>2 DEF Notify
  <2> QED
    BY <1>4, <2>3, ServerTyped DEF Notify, PageTypeOK
<1>5. ASSUME NEW n \in due, Skip(n) PROVE PageTypeOK'
  <2>1. mishaps' \subseteq Mishap
    BY <1>5 DEF Skip, Loses, PageTypeOK, Mishap
  <2> QED
    BY <1>5, <2>1, ServerTyped DEF Skip, PageTypeOK
<1> QED
  BY <1>2, <1>3, <1>4, <1>5

\* The types of what a step of the page leaves alone.
LEMMA PageTyped ==
    ASSUME PageTypeOK, UNCHANGED serverVars,
           list' \in List, chatLoad' \in ChatLoad,
           selected' \in Chat \cup {NoChat}, shown' \in Panel, marked' \subseteq Msg,
           msgLoads' \in Seq(MsgLoad),
           patches' \in [Msg -> Chat \cup {NoChat}],
           sends' \in [Own -> {"none", "asked", "served", "done"}],
           mishaps' \subseteq Mishap
    PROVE  PageTypeOK'
BY DEF PageTypeOK, serverVars

LEMMA SelectTyped ==
    ASSUME PageTypeOK, NEW c \in Chat, Select(c)
    PROVE  PageTypeOK'
<1>1. /\ selected' \in Chat \cup {NoChat} /\ shown' \in Panel /\ marked' \subseteq Msg
      /\ msgLoads' \in Seq(MsgLoad)
  BY ShowTyped DEF Select
<1>2. mishaps' \subseteq Mishap
  BY DEF Select, Happens, PageTypeOK, Mishap
<1> QED
  BY <1>1, <1>2, PageTyped DEF Select, PageTypeOK, listVars, callVars

LEMMA ChatsTyped ==
    ASSUME PageTypeOK, ServeChats \/ HearChats \/ LoseChats
    PROVE  PageTypeOK'
<1>1. CASE ServeChats
  <2>1. \A c \in Chat : UnreadCounts[c] \in 0..Cardinality(Msg)
    BY CountsTyped DEF Counts
  <2>2. chatLoad' \in ChatLoad
    BY <1>1, <2>1 DEF ServeChats, ChatLoad, List
  <2> QED
    BY <1>1, <2>2, PageTyped DEF ServeChats, PageTypeOK, panelVars, callVars
<1>2. CASE HearChats
  <2>1. list' \in List /\ chatLoad' \in ChatLoad
    BY <1>2, EmptyTyped DEF HearChats, PageTypeOK, ChatLoad
  <2>2. \E c \in Chat \cup {NoChat} : Show(c)
    BY <1>2 DEF HearChats, Listed
  <2>3. /\ selected' \in Chat \cup {NoChat} /\ shown' \in Panel /\ marked' \subseteq Msg
        /\ msgLoads' \in Seq(MsgLoad)
    BY <2>2, ShowTyped
  <2>4. mishaps' \subseteq Mishap
    BY <1>2 DEF HearChats, PageTypeOK, Mishap
  <2> QED
    BY <1>2, <2>1, <2>3, <2>4, PageTyped DEF HearChats, PageTypeOK, callVars
<1>3. CASE LoseChats
  <2>1. chatLoad' \in ChatLoad /\ mishaps' \subseteq Mishap
    BY <1>3, EmptyTyped DEF LoseChats, Loses, PageTypeOK, Mishap
  <2> QED
    BY <1>3, <2>1, PageTyped DEF LoseChats, PageTypeOK, panelVars, callVars
<1> QED
  BY <1>1, <1>2, <1>3

LEMMA MessagesTyped ==
    ASSUME PageTypeOK, NEW i \in DOMAIN msgLoads,
           ServeMessages(i) \/ HearMessages(i) \/ LoseMessages(i)
    PROVE  PageTypeOK'
<1>1. i \in 1..Len(msgLoads) /\ msgLoads[i] \in MsgLoad
  BY LenProperties, ElementOfSeq DEF PageTypeOK
<1>2. msgLoads[i].chat \in Chat /\ msgLoads[i].items \in Panel
  BY <1>1 DEF MsgLoad
<1>3. CASE ServeMessages(i)
  <2>1. PICK x : /\ msgLoads' = [msgLoads EXCEPT ![i] = x]
                 /\ \/ x = [Asked(msgLoads[i].chat) EXCEPT !.pc = "failed"]
                    \/ x = [pc |-> "served", chat |-> msgLoads[i].chat, items |->
                              [m \in Msg |-> IF ChatOf[m] = msgLoads[i].chat /\ Stored(m) THEN rows[m] ELSE "no"]]
    BY <1>3 DEF ServeMessages
  <2>2. x \in MsgLoad
    <3>1. [m \in Msg |-> IF ChatOf[m] = msgLoads[i].chat /\ Stored(m) THEN rows[m] ELSE "no"]
            \in Panel
      BY DEF Panel, Stored, PageTypeOK
    <3>2. [Asked(msgLoads[i].chat) EXCEPT !.pc = "failed"] \in MsgLoad
      BY <1>2, EmptyTyped
    <3> QED
      BY <1>2, <2>1, <3>1, <3>2 DEF MsgLoad
  <2>3. msgLoads' \in Seq(MsgLoad)
    BY <1>1, <2>1, <2>2, ExceptSeq DEF PageTypeOK
  <2>4. mishaps' \subseteq Mishap
    BY <1>3 DEF ServeMessages, Happens, PageTypeOK, Mishap
  <2> QED
    BY <1>3, <2>3, <2>4, PageTyped DEF ServeMessages, PageTypeOK, listVars, callVars
<1>4. CASE HearMessages(i)
  <2>1. msgLoads' \in Seq(MsgLoad)
    BY <1>4, Without DEF HearMessages, PageTypeOK
  <2>2. shown' \in Panel /\ mishaps' \subseteq Mishap
    BY <1>2, <1>4 DEF HearMessages, Happens, PageTypeOK, Mishap
  <2> QED
    BY <1>4, <2>1, <2>2, PageTyped DEF HearMessages, PageTypeOK, listVars, callVars
<1>5. CASE LoseMessages(i)
  <2>1. msgLoads' = [msgLoads EXCEPT ![i] = [Asked(msgLoads[i].chat) EXCEPT !.pc = "failed"]]
    BY <1>5 DEF LoseMessages
  <2>2. msgLoads' \in Seq(MsgLoad)
    BY <1>1, <1>2, <2>1, EmptyTyped, ExceptSeq DEF PageTypeOK
  <2>3. mishaps' \subseteq Mishap
    BY <1>5 DEF LoseMessages, Loses, PageTypeOK, Mishap
  <2> QED
    BY <1>5, <2>2, <2>3, PageTyped DEF LoseMessages, PageTypeOK, listVars, callVars
<1> QED
  BY <1>3, <1>4, <1>5

LEMMA TickTyped ==
    ASSUME PageTypeOK, Tick
    PROVE  PageTypeOK'
<1>1. shown' \in Panel
  BY DEF Tick, PageTypeOK, Panel
<1> QED
  BY <1>1, PageTyped DEF Tick, PageTypeOK, listVars, callVars

LEMMA MarkTyped ==
    ASSUME PageTypeOK, NEW m \in Msg, Mark(m)
    PROVE  PageTypeOK'
<1>1. selected \in Chat /\ list[selected] \in 0..Cardinality(Msg)
  BY DEF Mark, InView, Listed, PageTypeOK, List
<1>2. (IF list[selected] = 0 THEN 0 ELSE list[selected] - 1) \in 0..Cardinality(Msg)
  BY <1>1, CountsTyped
<1>3. list' \in List
  BY <1>1, <1>2 DEF Mark, PageTypeOK, List
<1>4. shown' \in Panel /\ marked' \subseteq Msg /\ patches' \in [Msg -> Chat \cup {NoChat}]
  BY <1>1 DEF Mark, PageTypeOK, Panel
<1> QED
  BY <1>3, <1>4, PageTyped DEF Mark, PageTypeOK

LEMMA PatchTyped ==
    ASSUME PageTypeOK, NEW m \in Msg, ServePatch(m) \/ FailPatch(m)
    PROVE  PageTypeOK'
<1>1. patches[m] \in Chat /\ patches' \in [Msg -> Chat \cup {NoChat}]
  BY DEF ServePatch, FailPatch, PageTypeOK
<1>2. CASE ServePatch(m)
  <2>1. /\ rows' \in [Msg -> {"none", "unread", "read", "gone"}] /\ due' \subseteq Note
        /\ UNCHANGED <<chats, events>>
    BY <1>2, RowsTyped DEF ServePatch
  <2> QED
    BY <1>1, <1>2, <2>1 DEF ServePatch, PageTypeOK, listVars, panelVars
<1>3. CASE FailPatch(m)
  <2>1. msgLoads' \in Seq(MsgLoad) /\ chatLoad' \in ChatLoad
    BY <1>1, <1>3, AskMessagesTyped, EmptyTyped DEF FailPatch, AskChats
  <2>2. mishaps' \subseteq Mishap
    BY <1>3 DEF FailPatch, PageTypeOK, Mishap
  <2> QED
    BY <1>1, <1>3, <2>1, <2>2, PageTyped DEF FailPatch, PageTypeOK
<1> QED
  BY <1>2, <1>3

LEMMA SendTyped ==
    ASSUME PageTypeOK, NEW m \in Own, Send(m) \/ ServeSend(m) \/ HearSend(m) \/ FailSend(m)
    PROVE  PageTypeOK'
<1>1. m \in Msg /\ ChatOf[m] \in Chat
  BY PageIsTyped
<1>2. sends' \in [Own -> {"none", "asked", "served", "done"}]
  BY DEF Send, ServeSend, HearSend, FailSend, PageTypeOK
<1>3. CASE Send(m)
  BY <1>2, <1>3, PageTyped DEF Send, PageTypeOK, listVars, panelVars
<1>4. CASE ServeSend(m)
  <2>1. /\ rows' \in [Msg -> {"none", "unread", "read", "gone"}] /\ due' \subseteq Note
        /\ UNCHANGED <<chats, events>>
    BY <1>1, <1>4, RowsTyped DEF ServeSend
  <2> QED
    BY <1>2, <1>4, <2>1 DEF ServeSend, PageTypeOK, listVars, panelVars
<1>5. CASE HearSend(m)
  <2>1. shown' \in Panel
    BY <1>1, <1>5 DEF HearSend, PageTypeOK, Panel
  <2>2. list' \in List
    BY <1>1, <1>5, CountsTyped DEF HearSend, PageTypeOK, List
  <2>3. mishaps' \subseteq Mishap
    BY <1>5 DEF HearSend, Happens, PageTypeOK, Mishap
  <2> QED
    BY <1>2, <1>5, <2>1, <2>2, <2>3, PageTyped DEF HearSend, PageTypeOK
<1>6. CASE FailSend(m)
  <2>1. mishaps' \subseteq Mishap
    BY <1>6 DEF FailSend, Loses, PageTypeOK, Mishap
  <2> QED
    BY <1>2, <1>6, <2>1, PageTyped DEF FailSend, PageTypeOK, listVars, panelVars
<1> QED
  BY <1>3, <1>4, <1>5, <1>6

LEMMA ArrivesTyped ==
    ASSUME PageTypeOK, NEW type, Arrives(type)
    PROVE  /\ Head(events) \in Event /\ events' \in Seq(Event)
           /\ type = "unread" => Head(events).counts \in Counts
           /\ type = "removed" => Head(events).chat \in Chat
BY HeadTailProperties DEF Arrives, PageTypeOK, Event

LEMMA EventTyped ==
    ASSUME PageTypeOK, HearUnread \/ HearAdded \/ HearRemoved
    PROVE  PageTypeOK'
<1>1. CASE HearUnread
  <2>1. PICK counts \in Counts : counts = Head(events).counts
    BY <1>1, ArrivesTyped DEF HearUnread
  <2>2. msgLoads' \in Seq(MsgLoad)
    BY <1>1, AskMessagesTyped DEF HearUnread, IsNews, PageTypeOK
  <2>3. list' = CountsIn(list, counts)
    BY <1>1, <2>1 DEF HearUnread
  <2>4. list' \in List
    BY <2>3, CountsTyped DEF CountsIn, Counts, List, PageTypeOK
  <2>5. events' \in Seq(Event)
    BY <1>1, ArrivesTyped DEF HearUnread
  <2> QED
    BY <1>1, <2>2, <2>4, <2>5 DEF HearUnread, Arrives, PageTypeOK, callVars
<1>2. CASE HearAdded
  <2>1. events' \in Seq(Event) /\ chatLoad' \in ChatLoad
    BY <1>2, ArrivesTyped, EmptyTyped DEF HearAdded, AskChats
  <2> QED
    BY <1>2, <2>1 DEF HearAdded, Arrives, PageTypeOK, panelVars, callVars
<1>3. CASE HearRemoved
  <2>1. events' \in Seq(Event) /\ Head(events).chat \in Chat
    BY <1>3, ArrivesTyped DEF HearRemoved
  <2>2. list' \in List
    BY <1>3, <2>1 DEF HearRemoved, PageTypeOK, List
  <2>3. \E c \in Chat \cup {NoChat} : Show(c)
    BY <1>3 DEF HearRemoved, PageTypeOK
  <2>4. /\ selected' \in Chat \cup {NoChat} /\ shown' \in Panel /\ marked' \subseteq Msg
        /\ msgLoads' \in Seq(MsgLoad)
    BY <2>3, ShowTyped
  <2>5. mishaps' \subseteq Mishap
    BY <1>3 DEF HearRemoved, PageTypeOK, Mishap
  <2> QED
    BY <1>3, <2>1, <2>2, <2>4, <2>5 DEF HearRemoved, Arrives, PageTypeOK, callVars
<1> QED
  BY <1>1, <1>2, <1>3

LEMMA TypesStep ==
    ASSUME PageTypeOK, [Next]_vars
    PROVE  PageTypeOK'
<1>1. CASE UNCHANGED vars
  BY <1>1 DEF vars, serverVars, listVars, panelVars, callVars, PageTypeOK
<1> QED
  BY <1>1, MembersTyped, SelectTyped, OthersTyped, PurgeTyped, NotifyTyped, ChatsTyped, MessagesTyped,
     TickTyped, MarkTyped, PatchTyped, SendTyped, EventTyped
  DEF Next

\* Whatever the server, the network and the page do, the variables have their
\* types: an event that is handled is one of those the page knows, a count is
\* never below zero nor above the number of messages, and a call under way is for
\* a chat (loadChats, loadMessages, handleMarkMessageRead, handleChatUnread).
THEOREM PageTypesCorrect == Spec => []PageTypeOK
<1>1. Init => PageTypeOK
  BY TypesInit
<1>2. PageTypeOK /\ [Next]_vars => PageTypeOK'
  BY TypesStep
<1> QED
  BY <1>1, <1>2, PTL DEF Spec

-----------------------------------------------------------------------------
(* The panel.                                                              *)

LEMMA MishapsGrow ==
    ASSUME [Next]_vars
    PROVE  mishaps \subseteq mishaps'
<1>1. ASSUME NEW c \in Chat, Add(c) \/ RemoveViewer(c) \/ Select(c) PROVE mishaps \subseteq mishaps'
  BY <1>1 DEF Add, RemoveViewer, Select, Happens
<1>2. ASSUME NEW m \in Msg, OthersPost(m) \/ ReadElsewhere(m) PROVE mishaps \subseteq mishaps'
  BY <1>2 DEF OthersPost, ReadElsewhere, Happens
<1>3. CASE NotifyUnread \/ Drop \/ \E n \in due : Notify(n) \/ Skip(n)
  BY <1>3 DEF NotifyUnread, Drop, Notify, Skip, Loses
<1>4. CASE ServeChats \/ HearChats \/ LoseChats
  BY <1>4 DEF ServeChats, HearChats, LoseChats, Loses
<1>5. ASSUME NEW i \in DOMAIN msgLoads, ServeMessages(i) \/ HearMessages(i) \/ LoseMessages(i)
      PROVE  mishaps \subseteq mishaps'
  BY <1>5 DEF ServeMessages, HearMessages, LoseMessages, Happens, Loses
<1>6. ASSUME NEW m \in Msg, Mark(m) \/ ServePatch(m) \/ FailPatch(m) PROVE mishaps \subseteq mishaps'
  BY <1>6 DEF Mark, ServePatch, FailPatch
<1>7. ASSUME NEW m \in Own, Send(m) \/ ServeSend(m) \/ HearSend(m) \/ FailSend(m)
      PROVE  mishaps \subseteq mishaps'
  BY <1>7 DEF Send, ServeSend, HearSend, FailSend, Happens, Loses
<1>8. CASE HearUnread \/ HearAdded \/ HearRemoved
  BY <1>8 DEF HearUnread, HearAdded, HearRemoved
<1>9. CASE Tick \/ UNCHANGED vars
  BY <1>9 DEF Tick, vars
<1>10. ASSUME NEW S \in SUBSET Expiring, Purge(S) PROVE mishaps \subseteq mishaps'
  BY <1>10 DEF Purge, Happens
<1> QED
  BY <1>1, <1>2, <1>3, <1>4, <1>5, <1>6, <1>7, <1>8, <1>9, <1>10 DEF Next

\* A call that is begun is the last one, and has no messages yet.
LEMMA AskMessagesStep ==
    ASSUME PageTypeOK, LoadsInv, NEW c \in Chat, AskMessages(c)
    PROVE  /\ LoadsInv' /\ msgLoads' # <<>>
           /\ \A i \in DOMAIN msgLoads' : msgLoads'[i].chat = c \/ \E j \in DOMAIN msgLoads :
                                            msgLoads'[i].chat = msgLoads[j].chat
<1>1. /\ Asked(c) \in MsgLoad /\ msgLoads \in Seq(MsgLoad) /\ Len(msgLoads) \in Nat
      /\ msgLoads' = Append(msgLoads, Asked(c))
  BY EmptyTyped, LenProperties DEF AskMessages, PageTypeOK
<1>2. /\ msgLoads' # <<>> /\ msgLoads' \in Seq(MsgLoad) /\ Len(msgLoads') = Len(msgLoads) + 1
      /\ \A i \in 1..Len(msgLoads) : msgLoads'[i] = msgLoads[i]
      /\ msgLoads'[Len(msgLoads) + 1] = Asked(c)
  BY <1>1, AppendProperties
<1>3. DOMAIN msgLoads = 1..Len(msgLoads) /\ DOMAIN msgLoads' = 1..Len(msgLoads')
  BY <1>1, <1>2, LenProperties
<1>4. ASSUME NEW i \in DOMAIN msgLoads', i \notin DOMAIN msgLoads PROVE i = Len(msgLoads) + 1
  BY <1>1, <1>2, <1>3, <1>4
<1>5. IsOf(Asked(c).items, c) /\ Asked(c).chat = c
  BY DEF Asked, EmptyPanel, IsOf
<1>6. ASSUME NEW i \in DOMAIN msgLoads'
      PROVE  /\ IsOf(msgLoads'[i].items, msgLoads'[i].chat)
             /\ msgLoads'[i].chat = c \/ \E j \in DOMAIN msgLoads : msgLoads'[i].chat = msgLoads[j].chat
  <2>1. CASE i \in DOMAIN msgLoads
    BY <1>2, <1>3, <2>1 DEF LoadsInv
  <2>2. CASE i \notin DOMAIN msgLoads
    BY <1>2, <1>4, <1>5, <2>2
  <2> QED
    BY <2>1, <2>2
<1> QED
  BY <1>2, <1>6 DEF LoadsInv, IsOf

\* If another chat opens while nothing fills the panel, its messages are asked
\* for; without a chat the panel is empty.
LEMMA ShowStep ==
    ASSUME PageTypeOK, LoadsInv, PanelInv, NEW c \in Chat \cup {NoChat}, Show(c),
           sends' = sends, mishaps \subseteq mishaps', Switches => "switched" \in mishaps'
    PROVE  LoadsInv' /\ PanelInv'
<1>1. CASE c = selected
  <2>1. selected' = selected /\ msgLoads' = msgLoads /\ shown' = shown
    BY <1>1 DEF Show
  <2> QED
    BY <2>1 DEF LoadsInv, PanelInv, IsOf
<1>2. CASE c # selected /\ c = NoChat
  <2>1. selected' = c /\ msgLoads' = msgLoads /\ shown' = EmptyPanel
    BY <1>2 DEF Show
  <2>2. IsOf(shown', selected')
    BY <2>1 DEF IsOf, EmptyPanel
  <2>3. ASSUME "switched" \notin mishaps' PROVE ~Filling
    BY <1>2, <2>1, <2>3 DEF Switches
  <2> QED
    BY <2>1, <2>2, <2>3 DEF LoadsInv, PanelInv, IsOf, Filling
<1>3. CASE c # selected /\ c # NoChat
  <2>1. selected' = c /\ AskMessages(c) /\ c \in Chat
    BY <1>3 DEF Show
  <2>2. ASSUME "switched" \notin mishaps' PROVE ~Filling
    BY <1>3, <2>1, <2>2 DEF Switches
  <2>3. "switched" \notin mishaps' => \A i \in DOMAIN msgLoads' : msgLoads'[i].chat = selected'
    BY <2>1, <2>2, AskMessagesStep DEF Filling
  <2>4. LoadsInv' /\ msgLoads' # <<>>
    BY <2>1, AskMessagesStep
  <2> QED
    BY <2>2, <2>3, <2>4 DEF PanelInv, Filling
<1> QED
  BY <1>1, <1>2, <1>3

\* Messages are asked for under the open chat, or under another one that is noted.
LEMMA ReloadStep ==
    ASSUME PageTypeOK, LoadsInv, PanelInv, NEW c \in Chat, AskMessages(c),
           UNCHANGED <<selected, shown, sends>>, mishaps \subseteq mishaps',
           c # selected => "switched" \in mishaps'
    PROVE  LoadsInv' /\ PanelInv'
<1>1. LoadsInv' /\ msgLoads' # <<>>
  BY AskMessagesStep
<1>2. ASSUME "switched" \notin mishaps' PROVE \A i \in DOMAIN msgLoads' : msgLoads'[i].chat = selected'
  BY <1>2, AskMessagesStep DEF PanelInv
<1> QED
  BY <1>1, <1>2 DEF PanelInv

\* A call that is answered, or fails, stays one for its chat.
LEMMA AnswerStep ==
    ASSUME PageTypeOK, LoadsInv, PanelInv, NEW i \in DOMAIN msgLoads, NEW x \in MsgLoad,
           msgLoads' = [msgLoads EXCEPT ![i] = x],
           x.chat = msgLoads[i].chat, IsOf(x.items, x.chat),
           UNCHANGED <<selected, shown, sends>>, mishaps \subseteq mishaps'
    PROVE  LoadsInv' /\ PanelInv'
<1>1. DOMAIN msgLoads' = DOMAIN msgLoads
  BY DEF PageTypeOK
<1>2. \A j \in DOMAIN msgLoads : msgLoads'[j] = IF j = i THEN x ELSE msgLoads[j]
  BY DEF PageTypeOK
<1>3. msgLoads # <<>>
  OBVIOUS
<1> QED
  BY <1>1, <1>2, <1>3 DEF LoadsInv, PanelInv, IsOf

LEMMA MessagesStep ==
    ASSUME PageTypeOK, LoadsInv, PanelInv, mishaps \subseteq mishaps', NEW i \in DOMAIN msgLoads,
           ServeMessages(i) \/ HearMessages(i) \/ LoseMessages(i)
    PROVE  LoadsInv' /\ PanelInv'
<1>1. msgLoads[i] \in MsgLoad /\ msgLoads[i].chat \in Chat /\ msgLoads[i].items \in Panel
  <2>1. msgLoads[i] \in MsgLoad
    BY LenProperties, ElementOfSeq DEF PageTypeOK
  <2> QED
    BY <2>1 DEF MsgLoad
<1>2. PICK f : f = [Asked(msgLoads[i].chat) EXCEPT !.pc = "failed"]
  OBVIOUS
<1>3. f \in MsgLoad /\ f.chat = msgLoads[i].chat /\ IsOf(f.items, f.chat)
  <2>1. f.chat = msgLoads[i].chat /\ f.items = EmptyPanel
    BY <1>2 DEF Asked
  <2> QED
    BY <1>1, <1>2, <2>1, EmptyTyped DEF IsOf, EmptyPanel
<1>4. CASE ServeMessages(i)
  <2>1. PICK p : p = [m \in Msg |-> IF ChatOf[m] = msgLoads[i].chat /\ Stored(m) THEN rows[m] ELSE "no"]
    OBVIOUS
  <2>2. p \in Panel /\ IsOf(p, msgLoads[i].chat)
    BY <2>1 DEF Panel, Stored, PageTypeOK, IsOf
  <2>3. PICK x : x = [pc |-> "served", chat |-> msgLoads[i].chat, items |-> p]
    OBVIOUS
  <2>4. x \in MsgLoad /\ x.chat = msgLoads[i].chat /\ IsOf(x.items, x.chat)
    BY <1>1, <2>2, <2>3 DEF MsgLoad
  <2>5. msgLoads' = [msgLoads EXCEPT ![i] = x] \/ msgLoads' = [msgLoads EXCEPT ![i] = f]
    BY <1>2, <1>4, <2>1, <2>3 DEF ServeMessages
  <2>6. UNCHANGED <<selected, shown, sends>>
    BY <1>4 DEF ServeMessages, callVars
  <2> QED
    BY <1>3, <2>4, <2>5, <2>6, AnswerStep
<1>5. CASE HearMessages(i)
  <2>1. /\ shown' = msgLoads[i].items /\ msgLoads' = RemoveAt(msgLoads, i)
        /\ selected' = selected /\ sends' = sends
    BY <1>5 DEF HearMessages, callVars
  <2>2. \A j \in DOMAIN msgLoads' : \E k \in DOMAIN msgLoads : msgLoads'[j] = msgLoads[k]
    BY <2>1, Without DEF PageTypeOK
  <2>3. LoadsInv'
    BY <2>2 DEF LoadsInv, IsOf
  <2>4. IsOf(shown', msgLoads[i].chat)
    BY <2>1 DEF LoadsInv, IsOf
  <2> QED
    BY <2>1, <2>2, <2>3, <2>4 DEF PanelInv, IsOf
<1>6. CASE LoseMessages(i)
  <2>1. msgLoads' = [msgLoads EXCEPT ![i] = f] /\ UNCHANGED <<selected, shown, sends>>
    BY <1>2, <1>6 DEF LoseMessages, callVars
  <2> QED
    BY <1>3, <2>1, AnswerStep
<1> QED
  BY <1>4, <1>5, <1>6

\* Steps that neither open a chat nor ask for messages.
LEMMA PanelStays ==
    ASSUME LoadsInv, PanelInv, mishaps \subseteq mishaps', UNCHANGED <<selected, msgLoads>>,
           \A m \in Msg : shown'[m] # "no" => shown[m] # "no" \/ ("switched" \notin mishaps => ChatOf[m] = selected),
           \A m \in Own : sends'[m] \in {"asked", "served"} =>
                            sends[m] \in {"asked", "served"} \/ ChatOf[m] = selected
    PROVE  LoadsInv' /\ PanelInv'
BY DEF LoadsInv, PanelInv, IsOf

LEMMA SendStep ==
    ASSUME PageTypeOK, LoadsInv, PanelInv, mishaps \subseteq mishaps', NEW m \in Own,
           Send(m) \/ ServeSend(m) \/ HearSend(m) \/ FailSend(m)
    PROVE  LoadsInv' /\ PanelInv'
<1>1. m \in Msg /\ ChatOf[m] \in Chat /\ NoChat \notin Chat
  BY PageIsTyped
<1>2. CASE Send(m)
  <2>1. ChatOf[m] = selected /\ UNCHANGED <<selected, msgLoads, shown>>
    BY <1>1, <1>2 DEF Send, InView, panelVars
  <2>2. \A o \in Own : o # m => sends'[o] = sends[o]
    BY <1>2 DEF Send, PageTypeOK
  <2> QED
    BY <2>1, <2>2, PanelStays
<1>3. CASE ServeSend(m)
  <2>1. UNCHANGED <<selected, msgLoads, shown>> /\ sends[m] = "asked"
    BY <1>3 DEF ServeSend, panelVars
  <2>2. \A o \in Own : o # m => sends'[o] = sends[o]
    BY <1>3 DEF ServeSend, PageTypeOK
  <2> QED
    BY <2>1, <2>2, PanelStays
<1>4. CASE HearSend(m)
  <2>1. UNCHANGED <<selected, msgLoads>> /\ sends[m] = "served"
    BY <1>4 DEF HearSend
  <2>2. "switched" \notin mishaps => ChatOf[m] = selected
    BY <2>1 DEF PanelInv
  <2>3. \A o \in Own : sends'[o] \in {"asked", "served"} => sends[o] \in {"asked", "served"}
    BY <1>4 DEF HearSend, PageTypeOK
  <2>4. \A o \in Msg : o # m => shown'[o] = shown[o]
    BY <1>1, <1>4 DEF HearSend, PageTypeOK, Panel
  <2> QED
    BY <2>1, <2>2, <2>3, <2>4, PanelStays
<1>5. CASE FailSend(m)
  <2>1. UNCHANGED <<selected, msgLoads, shown>>
    BY <1>5 DEF FailSend, panelVars
  <2>2. \A o \in Own : sends'[o] \in {"asked", "served"} => sends[o] \in {"asked", "served"}
    BY <1>5 DEF FailSend, PageTypeOK
  <2> QED
    BY <2>1, <2>2, PanelStays
<1> QED
  BY <1>2, <1>3, <1>4, <1>5

LEMMA PatchStep ==
    ASSUME PageTypeOK, LoadsInv, PanelInv, mishaps \subseteq mishaps', NEW m \in Msg,
           Mark(m) \/ ServePatch(m) \/ FailPatch(m)
    PROVE  LoadsInv' /\ PanelInv'
<1>1. CASE Mark(m)
  <2>1. UNCHANGED <<selected, msgLoads, sends>> /\ shown[m] = "unread"
    BY <1>1 DEF Mark
  <2>2. \A o \in Msg : o # m => shown'[o] = shown[o]
    BY <1>1 DEF Mark, PageTypeOK, Panel
  <2> QED
    BY <2>1, <2>2, PanelStays
<1>2. CASE ServePatch(m)
  <2>1. UNCHANGED <<selected, msgLoads, shown, sends>>
    BY <1>2 DEF ServePatch, panelVars
  <2> QED
    BY <2>1, PanelStays
<1>3. CASE FailPatch(m)
  <2>1. PICK c \in Chat : c = patches[m]
    BY <1>3 DEF FailPatch, PageTypeOK
  <2>2. AskMessages(c) /\ UNCHANGED <<selected, shown, sends>> /\ (c # selected => "switched" \in mishaps')
    BY <1>3, <2>1 DEF FailPatch
  <2> QED
    BY <2>2, ReloadStep
<1> QED
  BY <1>1, <1>2, <1>3

LEMMA PanelStep ==
    ASSUME PageTypeOK, LoadsInv, PanelInv, [Next]_vars
    PROVE  LoadsInv' /\ PanelInv'
<1> DEFINE Same == UNCHANGED <<selected, msgLoads, shown, sends>>
<1>1. mishaps \subseteq mishaps'
  BY MishapsGrow
<1>2. ASSUME Same PROVE LoadsInv' /\ PanelInv'
  BY <1>1, <1>2, PanelStays
<1>3. ASSUME NEW c \in Chat, Add(c) \/ RemoveViewer(c) PROVE Same
  BY <1>3 DEF Add, RemoveViewer, panelVars, callVars
<1>4. ASSUME NEW m \in Msg, OthersPost(m) \/ ReadElsewhere(m) PROVE Same
  BY <1>4 DEF OthersPost, ReadElsewhere, panelVars, callVars
<1>5. CASE NotifyUnread \/ Drop \/ (\E n \in due : Notify(n) \/ Skip(n)) \/ ServeChats \/ LoseChats
  <2>1. Same
    BY <1>5 DEF NotifyUnread, Drop, Notify, Skip, ServeChats, LoseChats, panelVars, callVars
  <2> QED
    BY <1>2, <2>1
<1>6. CASE HearAdded \/ UNCHANGED vars
  <2>1. Same
    BY <1>6 DEF HearAdded, vars, panelVars, callVars
  <2> QED
    BY <1>2, <2>1
<1>7. ASSUME NEW c \in Chat, Select(c) PROVE LoadsInv' /\ PanelInv'
  <2>1. Show(c) /\ sends' = sends /\ (Switches => "switched" \in mishaps')
    BY <1>7 DEF Select, Happens, Switches, callVars
  <2> QED
    BY <1>1, <2>1, ShowStep
<1>8. CASE HearChats
  <2>1. \E c \in Chat \cup {NoChat} : Show(c)
    BY <1>8 DEF HearChats, Listed
  <2>2. sends' = sends /\ (Switches => "switched" \in mishaps')
    BY <1>8 DEF HearChats, callVars
  <2> QED
    BY <1>1, <2>1, <2>2, ShowStep
<1>9. CASE HearRemoved
  <2>1. \E c \in Chat \cup {NoChat} : Show(c)
    BY <1>9 DEF HearRemoved, PageTypeOK
  <2>2. sends' = sends /\ (Switches => "switched" \in mishaps')
    BY <1>9 DEF HearRemoved, callVars
  <2> QED
    BY <1>1, <2>1, <2>2, ShowStep
<1>10. CASE HearUnread
  <2>1. CASE IsNews(Head(events).counts)
    <3>1. PICK c \in Chat : c = selected
      BY <2>1 DEF IsNews, PageTypeOK
    <3>2. AskMessages(c) /\ UNCHANGED <<selected, shown, sends>>
      BY <1>10, <2>1, <3>1 DEF HearUnread, callVars
    <3> QED
      BY <1>1, <3>1, <3>2, ReloadStep
  <2>2. CASE ~IsNews(Head(events).counts)
    <3>1. Same
      BY <1>10, <2>2 DEF HearUnread, callVars
    <3> QED
      BY <1>2, <3>1
  <2> QED
    BY <2>1, <2>2
<1>11. ASSUME NEW S \in SUBSET Expiring, Purge(S) PROVE Same
  BY <1>11 DEF Purge, panelVars, callVars
<1>12. CASE Tick
  <2>1. UNCHANGED <<selected, msgLoads, sends>> /\ \A m \in Msg : shown'[m] # "no" => shown[m] # "no"
    BY <1>12 DEF Tick, callVars
  <2> QED
    BY <1>1, <2>1, PanelStays
<1> QED
  BY <1>1, <1>2, <1>3, <1>4, <1>5, <1>6, <1>7, <1>8, <1>9, <1>10, <1>11, <1>12, MessagesStep, SendStep, PatchStep DEF Next

-----------------------------------------------------------------------------
(* Chats the viewer is removed from.                                       *)

\* What is in the connection is handled next, or stays in it.
LEMMA ArrivesStep ==
    ASSUME PageTypeOK, NEW type, Arrives(type)
    PROVE  \A i \in DOMAIN events : events[i] = Head(events) \/ \E j \in DOMAIN events' : events'[j] = events[i]
<1>1. /\ events \in Seq(Event) /\ events # <<>> /\ events' = Tail(events)
      /\ Len(events) \in Nat /\ DOMAIN events = 1..Len(events)
  BY LenProperties DEF Arrives, PageTypeOK
<1>2. /\ Tail(events) \in Seq(Event) /\ Len(Tail(events)) = Len(events) - 1
      /\ \A i \in 1..Len(Tail(events)) : Tail(events)[i] = events[i + 1]
  BY <1>1, HeadTailProperties
<1>3. DOMAIN events' = 1..(Len(events) - 1)
  BY <1>1, <1>2, LenProperties
<1>4. Head(events) = events[1]
  BY <1>1
<1>5. ASSUME NEW i \in DOMAIN events, i # 1
      PROVE  i - 1 \in DOMAIN events' /\ events'[i - 1] = events[i]
  <2>1. i - 1 \in 1..(Len(events) - 1) /\ (i - 1) + 1 = i
    BY <1>1, <1>5
  <2> QED
    BY <1>1, <1>2, <1>3, <2>1
<1> QED
  BY <1>4, <1>5

\* What is sent is in the connection, and so is what was in it before.
LEMMA SendsStep ==
    ASSUME PageTypeOK, NEW e \in Event, Sends(e)
    PROVE  /\ \A i \in DOMAIN events : i \in DOMAIN events' /\ events'[i] = events[i]
           /\ \E i \in DOMAIN events' : events'[i] = e
<1>1. /\ events \in Seq(Event) /\ events' = Append(events, e)
      /\ Len(events) \in Nat /\ DOMAIN events = 1..Len(events)
  BY LenProperties DEF Sends, PageTypeOK
<1>2. /\ events' \in Seq(Event) /\ Len(events') = Len(events) + 1
      /\ \A i \in 1..Len(events) : events'[i] = events[i]
      /\ events'[Len(events) + 1] = e
  BY <1>1, AppendProperties
<1>3. DOMAIN events' = 1..(Len(events) + 1)
  BY <1>2, LenProperties
<1> QED
  BY <1>1, <1>2, <1>3

\* The page hears that the viewer is out of a chat from the event only, unless
\* the event or its notification is lost.
LEMMA HeardStep ==
    ASSUME PageTypeOK, [Next]_vars, NEW c \in Chat, Heard(c)', "lost" \notin mishaps'
    PROVE  Heard(c) \/ (HearRemoved /\ Head(events).chat = c)
<1> DEFINE removed == [type |-> "removed", chat |-> c]
<1>1. ASSUME NEW d \in Chat, Add(d) \/ RemoveViewer(d) PROVE Heard(c)
  <2>1. c # d
    BY <1>1 DEF Add, RemoveViewer, Heard, PageTypeOK
  <2> QED
    BY <1>1, <2>1 DEF Add, RemoveViewer, Heard, PageTypeOK
<1>2. ASSUME NEW m \in Msg, OthersPost(m) \/ ReadElsewhere(m) \/ ServePatch(m) PROVE Heard(c)
  BY <1>2 DEF OthersPost, ReadElsewhere, ServePatch, Post, Read, Heard
<1>3. ASSUME NEW m \in Own, ServeSend(m) PROVE Heard(c)
  BY <1>3 DEF ServeSend, Post, Heard
<1>4. CASE NotifyUnread
  <2>1. [type |-> "unread", counts |-> UnreadCounts] \in Event
    BY CountsTyped DEF Event
  <2>2. \A i \in DOMAIN events : i \in DOMAIN events' /\ events'[i] = events[i]
    BY <1>4, <2>1, SendsStep DEF NotifyUnread
  <2>3. <<"removed", c>> # <<"unread">>
    OBVIOUS
  <2>4. chats[c] = "removed" /\ <<"removed", c>> \notin due
    BY <1>4, <2>3 DEF NotifyUnread, Heard
  <2> QED
    BY <2>2, <2>4 DEF Heard
<1>5. ASSUME NEW n \in due, Notify(n) PROVE Heard(c)
  <2>1. n \in {"added", "removed"} \X Chat
    BY <1>5 DEF Notify, PageTypeOK, Note
  <2>2. PICK e : e = [type |-> n[1], chat |-> n[2]]
    OBVIOUS
  <2>3. e \in Event /\ Sends(e)
    BY <1>5, <2>1, <2>2 DEF Notify, Event
  <2>4. /\ \A i \in DOMAIN events : i \in DOMAIN events' /\ events'[i] = events[i]
        /\ \E i \in DOMAIN events' : events'[i] = e
    BY <2>3, SendsStep
  <2>5. e # removed
    BY <2>4 DEF Heard
  <2>6. n # <<"removed", c>>
    BY <2>2, <2>5
  <2>7. chats[c] = "removed" /\ <<"removed", c>> \notin due
    BY <1>5, <2>6 DEF Notify, Heard
  <2> QED
    BY <2>4, <2>7 DEF Heard
<1>6. ASSUME Drop \/ \E n \in due : Skip(n) PROVE FALSE
  BY <1>6 DEF Drop, Skip, Loses
<1>7. ASSUME UNCHANGED serverVars PROVE Heard(c)
  BY <1>7 DEF serverVars, Heard
<1>8. ASSUME NEW d \in Chat, Select(d) PROVE UNCHANGED serverVars
  BY <1>8 DEF Select
<1>9. CASE ServeChats \/ HearChats \/ LoseChats
  BY <1>7, <1>9 DEF ServeChats, HearChats, LoseChats
<1>10. ASSUME NEW i \in DOMAIN msgLoads, ServeMessages(i) \/ HearMessages(i) \/ LoseMessages(i)
       PROVE  UNCHANGED serverVars
  BY <1>10 DEF ServeMessages, HearMessages, LoseMessages
<1>11. ASSUME NEW m \in Msg, Mark(m) \/ FailPatch(m) PROVE UNCHANGED serverVars
  BY <1>11 DEF Mark, FailPatch
<1>12. ASSUME NEW m \in Own, Send(m) \/ HearSend(m) \/ FailSend(m) PROVE UNCHANGED serverVars
  BY <1>12 DEF Send, HearSend, FailSend
<1>13. ASSUME NEW type, Arrives(type), Head(events) # removed PROVE Heard(c)
  BY <1>13, ArrivesStep DEF Heard, Arrives
<1>14. CASE HearUnread
  <2>1. Arrives("unread") /\ Head(events).type = "unread"
    BY <1>14 DEF HearUnread, Arrives
  <2> QED
    BY <1>13, <2>1
<1>15. CASE HearAdded
  <2>1. Arrives("added") /\ Head(events).type = "added"
    BY <1>15 DEF HearAdded, Arrives
  <2> QED
    BY <1>13, <2>1
<1>16. CASE HearRemoved
  <2>1. Arrives("removed")
    BY <1>16 DEF HearRemoved
  <2>2. CASE Head(events).chat # c
    BY <1>13, <2>1, <2>2
  <2> QED
    BY <1>16, <2>2
<1>17. CASE Tick \/ UNCHANGED vars
  BY <1>7, <1>17 DEF Tick, vars
<1>18. ASSUME NEW S \in SUBSET Expiring, Purge(S) PROVE Heard(c)
  BY <1>18 DEF Purge, Heard
<1> QED
  BY <1>1, <1>2, <1>3, <1>4, <1>5, <1>6, <1>7, <1>8, <1>9, <1>10, <1>11, <1>12, <1>14, <1>15, <1>16, <1>17,
     <1>18
  DEF Next

\* A chat that the viewer is not in does not come back to the page.
LEMMA OutStays ==
    ASSUME PageTypeOK, [Next]_vars, NEW c \in Chat, chats[c] = "removed", Out(c)
    PROVE  Out(c)'
<1> NoChat \notin Chat
  BY PageIsTyped
<1>1. ASSUME UNCHANGED <<list, selected, chatLoad>> PROVE Out(c)'
  BY <1>1 DEF Out
<1>2. ASSUME NEW d \in Chat, Add(d) \/ RemoveViewer(d) PROVE UNCHANGED <<list, selected, chatLoad>>
  BY <1>2 DEF Add, RemoveViewer, listVars, panelVars
<1>3. ASSUME NEW d \in Chat, Select(d) PROVE Out(c)'
  BY <1>3 DEF Select, Show, Out, Listed, listVars
<1>4. ASSUME NEW m \in Msg, OthersPost(m) \/ ReadElsewhere(m) PROVE UNCHANGED <<list, selected, chatLoad>>
  BY <1>4 DEF OthersPost, ReadElsewhere, listVars, panelVars
<1>5. CASE NotifyUnread \/ Drop \/ \E n \in due : Notify(n) \/ Skip(n)
  BY <1>1, <1>5 DEF NotifyUnread, Drop, Notify, Skip, listVars, panelVars
<1>6. CASE ServeChats
  <2>1. chatLoad'.items[c] = Absent /\ UNCHANGED <<list, selected>>
    BY <1>6 DEF ServeChats, panelVars
  <2> QED
    BY <2>1 DEF Out
<1>7. CASE HearChats
  <2>1. list'[c] = Absent /\ chatLoad' = NoChatLoad
    BY <1>7 DEF HearChats, Out
  <2>2. c \notin Listed(chatLoad.items) /\ selected # c
    BY DEF Out, Listed
  <2>3. selected' # c
    BY <1>7, <2>2 DEF HearChats, Show
  <2> QED
    BY <2>1, <2>3 DEF Out, NoChatLoad, EmptyList
<1>8. CASE LoseChats
  BY <1>8 DEF LoseChats, panelVars, Out, NoChatLoad, EmptyList
<1>9. ASSUME NEW i \in DOMAIN msgLoads, ServeMessages(i) \/ HearMessages(i) \/ LoseMessages(i)
      PROVE  UNCHANGED <<list, selected, chatLoad>>
  BY <1>9 DEF ServeMessages, HearMessages, LoseMessages, listVars
<1>10. ASSUME NEW m \in Msg, Mark(m) PROVE Out(c)'
  BY <1>10 DEF Mark, Out, PageTypeOK, List
<1>11. ASSUME NEW m \in Msg, ServePatch(m) PROVE UNCHANGED <<list, selected, chatLoad>>
  BY <1>11 DEF ServePatch, listVars, panelVars
<1>12. ASSUME NEW m \in Msg, FailPatch(m) PROVE Out(c)'
  BY <1>12 DEF FailPatch, AskChats, Out, NoChatLoad, EmptyList
<1>13. ASSUME NEW m \in Own, Send(m) \/ ServeSend(m) \/ FailSend(m)
       PROVE  UNCHANGED <<list, selected, chatLoad>>
  BY <1>13 DEF Send, ServeSend, FailSend, listVars, panelVars
<1>14. ASSUME NEW m \in Own, HearSend(m) PROVE Out(c)'
  BY <1>14 DEF HearSend, Out, PageTypeOK, List
<1>15. CASE HearUnread
  BY <1>15 DEF HearUnread, CountsIn, Out
<1>16. CASE HearAdded
  BY <1>16 DEF HearAdded, AskChats, panelVars, Out, NoChatLoad, EmptyList
<1>17. CASE HearRemoved
  <2>1. list'[c] = Absent
    BY <1>17 DEF HearRemoved, Out, PageTypeOK, List
  <2> QED
    BY <1>17, <2>1 DEF HearRemoved, Show, Out
<1>18. CASE Tick \/ UNCHANGED vars
  BY <1>1, <1>18 DEF Tick, vars, listVars, panelVars
<1>19. ASSUME NEW S \in SUBSET Expiring, Purge(S) PROVE UNCHANGED <<list, selected, chatLoad>>
  BY <1>19 DEF Purge, listVars, panelVars
<1> QED
  BY <1>1, <1>2, <1>3, <1>4, <1>5, <1>6, <1>7, <1>8, <1>9, <1>10, <1>11, <1>12, <1>13, <1>14, <1>15, <1>16,
     <1>17, <1>18, <1>19
  DEF Next

LEMMA RemovedStep ==
    ASSUME PageTypeOK, RemovedInv, [Next]_vars
    PROVE  RemovedInv'
<1> SUFFICES ASSUME mishaps' \cap {"lost", "outdated"} = {}, NEW c \in Chat, Heard(c)'
             PROVE  Out(c)'
  BY DEF RemovedInv
<1>1. mishaps \cap {"lost", "outdated"} = {} /\ "lost" \notin mishaps' /\ "outdated" \notin mishaps'
  BY MishapsGrow
<1>2. CASE Heard(c)
  BY <1>1, <1>2, OutStays DEF RemovedInv, Heard
<1>3. CASE HearRemoved /\ Head(events).chat = c
  <2>1. list'[c] = Absent /\ selected' # c
    BY <1>3, PageIsTyped DEF HearRemoved, Show, PageTypeOK, List
  <2>2. chatLoad.items[c] = Absent /\ chatLoad' = chatLoad
    BY <1>1, <1>3 DEF HearRemoved
  <2> QED
    BY <2>1, <2>2 DEF Out
<1> QED
  BY <1>1, <1>2, <1>3, HeardStep

-----------------------------------------------------------------------------

LEMMA InvInit == Init => PageInv
<1> SUFFICES ASSUME Init PROVE PageInv
  OBVIOUS
<1>1. PageTypeOK
  BY TypesInit
<1>2. LoadsInv /\ PanelInv
  BY DEF Init, LoadsInv, PanelInv, IsOf, EmptyPanel
<1>3. RemovedInv
  BY DEF Init, RemovedInv, Heard
<1> QED
  BY <1>1, <1>2, <1>3 DEF PageInv

LEMMA InvStep == PageInv /\ [Next]_vars => PageInv'
BY TypesStep, PanelStep, RemovedStep DEF PageInv

LEMMA InvAlways == Spec => []PageInv
BY InvInit, InvStep, PTL DEF Spec

\* If the open chat never changed under a call that fills the panel, messages in
\* the panel are of the open chat once no such call is under way, for any number
\* of calls of loadMessages and createMessage whose answers come in any order
\* (setSelectedChatId and its effect, loadMessages, handleSendMessage).
THEOREM PanelFollowsOpenChat == Spec => []PanelIsOfOpenChat
<1>1. PageInv => PanelIsOfOpenChat
  BY DEF PageInv, PanelInv, IsOf, PanelIsOfOpenChat, Filling
<1> QED
  BY <1>1, InvAlways, PTL

\* A chat that the viewer was removed from never comes back to the page that has
\* heard of it, whatever else is under way, unless the event was lost or the
\* answer of a loadChats was on its way past it (handleChatRemoved, loadChats).
THEOREM RemovedChatsStayOut == Spec => []RemovedStaysOut
<1>1. PageInv => RemovedStaysOut
  BY DEF PageInv, RemovedInv, Heard, Out, RemovedStaysOut
<1> QED
  BY <1>1, InvAlways, PTL

-----------------------------------------------------------------------------
(* The open chat's messages.                                               *)

\* What is stored stays so, and so does that the viewer has been in a chat.
LEMMA StaysStored ==
    ASSUME PageTypeOK, [Next]_vars
    PROVE  /\ \A m \in Msg : rows[m] # "none" => rows'[m] # "none"
           /\ \A c \in Chat : chats[c] # "none" => chats'[c] # "none"
<1>1. ASSUME UNCHANGED <<chats, rows>>
      PROVE  /\ \A m \in Msg : rows[m] # "none" => rows'[m] # "none"
             /\ \A c \in Chat : chats[c] # "none" => chats'[c] # "none"
  BY <1>1
<1>2. ASSUME NEW c \in Chat, Add(c) \/ RemoveViewer(c)
      PROVE  /\ \A m \in Msg : rows[m] # "none" => rows'[m] # "none"
             /\ \A d \in Chat : chats[d] # "none" => chats'[d] # "none"
  BY <1>2 DEF Add, RemoveViewer, PageTypeOK
<1>3. ASSUME NEW m \in Msg, Read(m) \/ \E row \in {"unread", "read"} : Post(m, row)
      PROVE  /\ \A o \in Msg : rows[o] # "none" => rows'[o] # "none"
             /\ \A c \in Chat : chats[c] # "none" => chats'[c] # "none"
  BY <1>3 DEF Read, Post, PageTypeOK
<1>4. ASSUME NEW m \in Msg \ Own, OthersPost(m) \/ ReadElsewhere(m)
      PROVE  Read(m) \/ \E row \in {"unread", "read"} : Post(m, row)
  BY <1>4 DEF OthersPost, ReadElsewhere
<1>5. ASSUME NEW m \in Own, ServeSend(m) PROVE Post(m, "read") /\ m \in Msg
  BY <1>5, PageIsTyped DEF ServeSend
<1>6. ASSUME NEW m \in Msg, ServePatch(m) PROVE Read(m)
  BY <1>6 DEF ServePatch
<1>7. ASSUME NEW c \in Chat, Select(c) PROVE UNCHANGED <<chats, rows>>
  BY <1>7 DEF Select, serverVars
<1>8. CASE NotifyUnread \/ Drop \/ \E n \in due : Notify(n) \/ Skip(n)
  BY <1>1, <1>8 DEF NotifyUnread, Drop, Notify, Skip
<1>9. CASE ServeChats \/ HearChats \/ LoseChats
  BY <1>1, <1>9 DEF ServeChats, HearChats, LoseChats, serverVars
<1>10. ASSUME NEW i \in DOMAIN msgLoads, ServeMessages(i) \/ HearMessages(i) \/ LoseMessages(i)
       PROVE  UNCHANGED <<chats, rows>>
  BY <1>10 DEF ServeMessages, HearMessages, LoseMessages, serverVars
<1>11. ASSUME NEW m \in Msg, Mark(m) \/ FailPatch(m) PROVE UNCHANGED <<chats, rows>>
  BY <1>11 DEF Mark, FailPatch, serverVars
<1>12. ASSUME NEW m \in Own, Send(m) \/ HearSend(m) \/ FailSend(m) PROVE UNCHANGED <<chats, rows>>
  BY <1>12 DEF Send, HearSend, FailSend, serverVars
<1>13. CASE HearUnread \/ HearAdded \/ HearRemoved \/ Tick \/ UNCHANGED vars
  BY <1>1, <1>13 DEF HearUnread, HearAdded, HearRemoved, Arrives, Tick, vars, serverVars
<1>14. CASE \E m \in Msg \ Own : OthersPost(m) \/ ReadElsewhere(m)
  BY <1>3, <1>4, <1>14
<1>15. CASE \E m \in Own : Send(m) \/ ServeSend(m) \/ HearSend(m) \/ FailSend(m)
  BY <1>1, <1>3, <1>5, <1>12, <1>15
<1>16. CASE \E m \in Msg : Mark(m) \/ ServePatch(m) \/ FailPatch(m)
  BY <1>1, <1>3, <1>6, <1>11, <1>16
<1>17. CASE \E c \in Chat : Add(c) \/ RemoveViewer(c) \/ Select(c)
  BY <1>1, <1>2, <1>7, <1>17
<1>18. CASE \E i \in DOMAIN msgLoads : ServeMessages(i) \/ HearMessages(i) \/ LoseMessages(i)
  BY <1>1, <1>10, <1>18
<1>19. ASSUME NEW S \in SUBSET Expiring, Purge(S)
       PROVE  UNCHANGED chats /\ \A m \in Msg : rows[m] # "none" => rows'[m] # "none"
  BY <1>19 DEF Purge
<1> QED
  BY <1>8, <1>9, <1>13, <1>14, <1>15, <1>16, <1>17, <1>18, <1>19 DEF Next

\* A message is posted to a chat that the viewer is in or has been in.
LEMMA PostedToKnown ==
    ASSUME PageTypeOK, [Next]_vars, \A m \in Msg : rows[m] # "none" => chats[ChatOf[m]] # "none"
    PROVE  \A m \in Msg : rows'[m] # "none" => chats'[ChatOf[m]] # "none"
<1>1. ASSUME NEW m \in Msg, rows'[m] # "none", rows[m] = "none" PROVE chats[ChatOf[m]] # "none"
  <2>1. ASSUME rows' = rows PROVE FALSE
    BY <1>1, <2>1
  <2>2. ASSUME NEW c \in Chat, RemoveViewer(c) PROVE FALSE
    BY <1>1, <2>2 DEF RemoveViewer
  <2>3. ASSUME NEW o \in Msg, NEW row, Post(o, row) PROVE chats[ChatOf[m]] # "none"
    BY <1>1, <2>3 DEF Post, PageTypeOK
  <2>4. ASSUME NEW o \in Msg, Read(o) PROVE FALSE
    BY <1>1, <2>4 DEF Read, Stored, PageTypeOK
  <2>5. CASE \E c \in Chat : Add(c) \/ RemoveViewer(c) \/ Select(c)
    BY <2>1, <2>2, <2>5 DEF Add, Select, serverVars
  <2>6. CASE \E o \in Msg \ Own : OthersPost(o) \/ ReadElsewhere(o)
    BY <2>3, <2>4, <2>6 DEF OthersPost, ReadElsewhere
  <2>7. CASE NotifyUnread \/ Drop \/ \E n \in due : Notify(n) \/ Skip(n)
    BY <2>1, <2>7 DEF NotifyUnread, Drop, Notify, Skip
  <2>8. CASE ServeChats \/ HearChats \/ LoseChats
    BY <2>1, <2>8 DEF ServeChats, HearChats, LoseChats, serverVars
  <2>9. CASE \E i \in DOMAIN msgLoads : ServeMessages(i) \/ HearMessages(i) \/ LoseMessages(i)
    BY <2>1, <2>9 DEF ServeMessages, HearMessages, LoseMessages, serverVars
  <2>10. CASE \E o \in Msg : Mark(o) \/ ServePatch(o) \/ FailPatch(o)
    BY <2>1, <2>4, <2>10 DEF Mark, ServePatch, FailPatch, serverVars
  <2>11. CASE \E o \in Own : Send(o) \/ ServeSend(o) \/ HearSend(o) \/ FailSend(o)
    BY <2>1, <2>3, <2>11, PageIsTyped DEF Send, ServeSend, HearSend, FailSend, serverVars
  <2>12. CASE HearUnread \/ HearAdded \/ HearRemoved \/ Tick \/ UNCHANGED vars
    BY <2>1, <2>12 DEF HearUnread, HearAdded, HearRemoved, Arrives, Tick, vars, serverVars
  <2>13. ASSUME NEW S \in SUBSET Expiring, Purge(S) PROVE FALSE
    BY <1>1, <2>13 DEF Purge, Stored
  <2> QED
    BY <2>5, <2>6, <2>7, <2>8, <2>9, <2>10, <2>11, <2>12, <2>13 DEF Next
<1>2. \A m \in Msg : ChatOf[m] \in Chat
  BY PageIsTyped
<1> QED
  BY <1>1, <1>2, StaysStored

\* The calls of loadMessages after one more is begun.
LEMMA AskedIsLast ==
    ASSUME PageTypeOK, NEW c \in Chat, AskMessages(c)
    PROVE  /\ \A i \in DOMAIN msgLoads' :
                (i \in DOMAIN msgLoads /\ msgLoads'[i] = msgLoads[i]) \/ msgLoads'[i].items = EmptyPanel
           /\ Coming'
<1>1. /\ Asked(c) \in MsgLoad /\ msgLoads \in Seq(MsgLoad) /\ Len(msgLoads) \in Nat
      /\ msgLoads' = Append(msgLoads, Asked(c))
  BY EmptyTyped, LenProperties DEF AskMessages, PageTypeOK
<1>2. /\ msgLoads' # <<>> /\ msgLoads' \in Seq(MsgLoad) /\ Len(msgLoads') = Len(msgLoads) + 1
      /\ \A i \in 1..Len(msgLoads) : msgLoads'[i] = msgLoads[i]
      /\ msgLoads'[Len(msgLoads) + 1] = Asked(c)
  BY <1>1, AppendProperties
<1>3. DOMAIN msgLoads = 1..Len(msgLoads) /\ DOMAIN msgLoads' = 1..Len(msgLoads')
  BY <1>1, <1>2, LenProperties
<1>4. Asked(c).items = EmptyPanel /\ Asked(c).pc = "asked"
  BY DEF Asked
<1>5. ASSUME NEW i \in DOMAIN msgLoads'
      PROVE  (i \in DOMAIN msgLoads /\ msgLoads'[i] = msgLoads[i]) \/ msgLoads'[i].items = EmptyPanel
  <2>1. i \in DOMAIN msgLoads \/ i = Len(msgLoads) + 1
    BY <1>1, <1>2, <1>3
  <2> QED
    BY <1>2, <1>3, <1>4, <2>1
<1>6. Coming'
  BY <1>2, <1>4 DEF Coming
<1> QED
  BY <1>5, <1>6

\* What changes the panel, the calls of loadMessages, those of markMessageRead and
\* those of createMessage.
PanelChange ==
    \/ shown' = shown \/ shown' = EmptyPanel \/ Tick
    \/ (\E i \in DOMAIN msgLoads : HearMessages(i))
    \/ (\E m \in Msg : Mark(m)) \/ (\E m \in Own : HearSend(m))

LoadsChange ==
    \/ msgLoads' = msgLoads
    \/ \E c \in Chat : AskMessages(c)
    \/ \E i \in DOMAIN msgLoads : ServeMessages(i) \/ HearMessages(i) \/ LoseMessages(i)

PatchesChange ==
    patches' = patches \/ \E m \in Msg : Mark(m) \/ patches' = [patches EXCEPT ![m] = NoChat]

SendsChange ==
    \/ sends' = sends
    \/ \E m \in Own : ServeSend(m) \/ \E s \in {"asked", "done"} : sends' = [sends EXCEPT ![m] = s]

LEMMA ShowChanges ==
    ASSUME PageTypeOK, NEW c \in Chat \cup {NoChat}, Show(c)
    PROVE  PanelChange /\ LoadsChange
BY DEF Show, PanelChange, LoadsChange, PageTypeOK

LEMMA CallsChange ==
    ASSUME PageTypeOK, [Next]_vars
    PROVE  PanelChange /\ LoadsChange /\ PatchesChange /\ SendsChange
<1> DEFINE All == PanelChange /\ LoadsChange /\ PatchesChange /\ SendsChange
<1>1. ASSUME UNCHANGED <<shown, msgLoads, patches, sends>> PROVE All
  BY <1>1 DEF PanelChange, LoadsChange, PatchesChange, SendsChange
<1>2. ASSUME UNCHANGED <<patches, sends>>, NEW c \in Chat \cup {NoChat}, Show(c) PROVE All
  BY <1>2, ShowChanges DEF PatchesChange, SendsChange
<1>3. CASE \E c \in Chat : Add(c) \/ RemoveViewer(c)
  BY <1>1, <1>3 DEF Add, RemoveViewer, panelVars, callVars
<1>4. CASE \E c \in Chat : Select(c)
  BY <1>2, <1>4 DEF Select, callVars
<1>5. CASE \E m \in Msg \ Own : OthersPost(m) \/ ReadElsewhere(m)
  BY <1>1, <1>5 DEF OthersPost, ReadElsewhere, panelVars, callVars
<1>6. CASE NotifyUnread \/ Drop \/ \E n \in due : Notify(n) \/ Skip(n)
  BY <1>1, <1>6 DEF NotifyUnread, Drop, Notify, Skip, panelVars, callVars
<1>7. CASE ServeChats \/ LoseChats \/ HearAdded \/ UNCHANGED vars
  BY <1>1, <1>7 DEF ServeChats, LoseChats, HearAdded, vars, panelVars, callVars
<1>8. CASE HearChats
  <2>1. \E c \in Chat \cup {NoChat} : Show(c)
    BY <1>8 DEF HearChats, Listed
  <2> QED
    BY <1>2, <1>8, <2>1 DEF HearChats, callVars
<1>9. CASE \E i \in DOMAIN msgLoads : ServeMessages(i) \/ HearMessages(i) \/ LoseMessages(i)
  <2>1. PanelChange
    BY <1>9 DEF PanelChange, ServeMessages, LoseMessages
  <2>2. LoadsChange
    BY <1>9 DEF LoadsChange
  <2>3. UNCHANGED <<patches, sends>>
    BY <1>9 DEF ServeMessages, HearMessages, LoseMessages, callVars
  <2> QED
    BY <2>1, <2>2, <2>3 DEF PatchesChange, SendsChange
<1>10. ASSUME NEW m \in Msg, Mark(m) PROVE All
  <2>1. UNCHANGED <<msgLoads, sends>>
    BY <1>10 DEF Mark
  <2> QED
    BY <1>10, <2>1 DEF PanelChange, LoadsChange, PatchesChange, SendsChange
<1>11. ASSUME NEW m \in Msg, ServePatch(m) PROVE All
  BY <1>11 DEF ServePatch, panelVars, PanelChange, LoadsChange, PatchesChange, SendsChange
<1>12. ASSUME NEW m \in Msg, FailPatch(m) PROVE All
  <2>1. patches[m] \in Chat /\ AskMessages(patches[m])
    BY <1>12 DEF FailPatch, PageTypeOK
  <2>2. shown' = shown /\ sends' = sends /\ patches' = [patches EXCEPT ![m] = NoChat]
    BY <1>12 DEF FailPatch
  <2> QED
    BY <2>1, <2>2 DEF PanelChange, LoadsChange, PatchesChange, SendsChange
<1>13. ASSUME NEW m \in Own, Send(m) \/ ServeSend(m) \/ FailSend(m) PROVE All
  <2>1. UNCHANGED <<shown, msgLoads, patches>>
    BY <1>13 DEF Send, ServeSend, FailSend, panelVars
  <2>2. SendsChange
    BY <1>13 DEF Send, FailSend, SendsChange
  <2> QED
    BY <2>1, <2>2 DEF PanelChange, LoadsChange, PatchesChange
<1>14. ASSUME NEW m \in Own, HearSend(m) PROVE All
  <2>1. UNCHANGED <<msgLoads, patches>> /\ sends' = [sends EXCEPT ![m] = "done"]
    BY <1>14 DEF HearSend
  <2> QED
    BY <1>14, <2>1 DEF PanelChange, LoadsChange, PatchesChange, SendsChange
<1>15. CASE HearUnread
  <2>1. UNCHANGED <<shown, patches, sends>>
    BY <1>15 DEF HearUnread, callVars
  <2>2. LoadsChange
    BY <1>15 DEF HearUnread, IsNews, LoadsChange, PageTypeOK
  <2> QED
    BY <2>1, <2>2 DEF PanelChange, PatchesChange, SendsChange
<1>16. CASE HearRemoved
  <2>1. \E c \in Chat \cup {NoChat} : Show(c)
    BY <1>16 DEF HearRemoved, PageTypeOK
  <2> QED
    BY <1>2, <1>16, <2>1 DEF HearRemoved, callVars
<1>17. CASE \E S \in SUBSET Expiring : Purge(S)
  BY <1>1, <1>17 DEF Purge, panelVars, callVars
<1>18. CASE Tick
  BY <1>18 DEF Tick, callVars, PanelChange, LoadsChange, PatchesChange, SendsChange
<1> QED
  BY <1>3, <1>4, <1>5, <1>6, <1>7, <1>8, <1>9, <1>10, <1>11, <1>12, <1>13, <1>14, <1>15, <1>16, <1>17, <1>18
  DEF Next

\* What the calls of loadMessages have is stored.
LEMMA LoadsStored ==
    ASSUME PageTypeOK, StoredInv, [Next]_vars
    PROVE  \A i \in DOMAIN msgLoads', m \in Msg : msgLoads'[i].items[m] # "no" => rows'[m] # "none"
<1> DEFINE WasStored(x) == \A m \in Msg : x.items[m] # "no" => rows'[m] # "none"
<1> HIDE DEF WasStored
<1>1. \A m \in Msg : rows[m] # "none" => rows'[m] # "none"
  BY StaysStored
<1>2. \A i \in DOMAIN msgLoads : WasStored(msgLoads[i])
  BY <1>1 DEF StoredInv, WasStored
<1>3. ASSUME NEW x, x.items = EmptyPanel PROVE WasStored(x)
  BY <1>3 DEF EmptyPanel, WasStored
<1>4. ASSUME NEW c \in Chat, AskMessages(c) PROVE \A i \in DOMAIN msgLoads' : WasStored(msgLoads'[i])
  BY <1>2, <1>3, <1>4, AskedIsLast
<1>5. ASSUME NEW i \in DOMAIN msgLoads, NEW x, WasStored(x), msgLoads' = [msgLoads EXCEPT ![i] = x]
      PROVE  \A j \in DOMAIN msgLoads' : WasStored(msgLoads'[j])
  <2>1. DOMAIN msgLoads' = DOMAIN msgLoads
    BY <1>5
  <2>2. \A j \in DOMAIN msgLoads : msgLoads'[j] = x \/ msgLoads'[j] = msgLoads[j]
    BY <1>5
  <2> QED
    BY <1>2, <1>5, <2>1, <2>2
<1>6. ASSUME NEW i \in DOMAIN msgLoads PROVE WasStored([Asked(msgLoads[i].chat) EXCEPT !.pc = "failed"])
  <2>1. [Asked(msgLoads[i].chat) EXCEPT !.pc = "failed"].items = EmptyPanel
    BY DEF Asked
  <2> QED
    BY <1>3, <2>1
<1>7. ASSUME NEW i \in DOMAIN msgLoads, LoseMessages(i) PROVE \A j \in DOMAIN msgLoads' : WasStored(msgLoads'[j])
  <2>1. msgLoads' = [msgLoads EXCEPT ![i] = [Asked(msgLoads[i].chat) EXCEPT !.pc = "failed"]]
    BY <1>7 DEF LoseMessages
  <2> QED
    BY <1>5, <1>6, <2>1
<1>8. ASSUME NEW i \in DOMAIN msgLoads, ServeMessages(i) PROVE \A j \in DOMAIN msgLoads' : WasStored(msgLoads'[j])
  <2>1. PICK x : /\ msgLoads' = [msgLoads EXCEPT ![i] = x]
                 /\ \/ x = [Asked(msgLoads[i].chat) EXCEPT !.pc = "failed"]
                    \/ x = [pc |-> "served", chat |-> msgLoads[i].chat, items |->
                              [m \in Msg |-> IF ChatOf[m] = msgLoads[i].chat /\ Stored(m) THEN rows[m] ELSE "no"]]
    BY <1>8 DEF ServeMessages
  <2>2. CASE x = [Asked(msgLoads[i].chat) EXCEPT !.pc = "failed"]
    BY <1>5, <1>6, <2>1, <2>2
  <2>3. CASE x # [Asked(msgLoads[i].chat) EXCEPT !.pc = "failed"]
    <3>1. \A m \in Msg : x.items[m] # "no" => rows[m] # "none"
      BY <2>1, <2>3 DEF Stored
    <3>2. WasStored(x)
      BY <1>1, <3>1 DEF WasStored
    <3>3. msgLoads' = [msgLoads EXCEPT ![i] = x]
      BY <2>1
    <3> QED
      BY <1>5, <3>2, <3>3
  <2> QED
    BY <2>2, <2>3
<1>9. ASSUME NEW i \in DOMAIN msgLoads, HearMessages(i) PROVE \A j \in DOMAIN msgLoads' : WasStored(msgLoads'[j])
  <2>1. \A j \in DOMAIN msgLoads' : \E k \in DOMAIN msgLoads : msgLoads'[j] = msgLoads[k]
    BY <1>9, Without DEF HearMessages, PageTypeOK
  <2> QED
    BY <1>2, <2>1
<1>10. LoadsChange
  BY CallsChange
<1>11. \A i \in DOMAIN msgLoads' : WasStored(msgLoads'[i])
  BY <1>2, <1>4, <1>7, <1>8, <1>9, <1>10 DEF LoadsChange
<1> QED
  BY <1>11 DEF WasStored

LEMMA StoredStep ==
    ASSUME PageTypeOK, StoredInv, [Next]_vars
    PROVE  StoredInv'
<1>1. \A m \in Msg : rows[m] # "none" => rows'[m] # "none"
  BY StaysStored
<1>2. PanelChange /\ PatchesChange /\ SendsChange
  BY CallsChange
<1>3. ASSUME NEW m \in Msg, shown'[m] # "no" PROVE rows'[m] # "none"
  <2>1. ASSUME NEW i \in DOMAIN msgLoads, HearMessages(i) PROVE rows[m] # "none"
    BY <1>3, <2>1 DEF HearMessages, StoredInv
  <2>2. ASSUME NEW o \in Msg, Mark(o) PROVE shown[m] # "no"
    BY <1>3, <2>2 DEF Mark, PageTypeOK, Panel
  <2>3. ASSUME NEW o \in Own, HearSend(o) PROVE shown[m] # "no" \/ (o = m /\ sends[m] = "served" /\ m \in Own)
    BY <1>3, <2>3 DEF HearSend, PageTypeOK, Panel
  <2>4. ASSUME Tick PROVE shown[m] # "no"
    BY <1>3, <2>4 DEF Tick
  <2> QED
    BY <1>1, <1>2, <1>3, <2>1, <2>2, <2>3, <2>4 DEF PanelChange, StoredInv, EmptyPanel
<1>4. ASSUME NEW m \in Msg, patches'[m] # NoChat PROVE rows'[m] # "none"
  <2>1. ASSUME NEW o \in Msg, Mark(o) PROVE patches[m] # NoChat \/ shown[m] # "no"
    BY <1>4, <2>1 DEF Mark, PageTypeOK
  <2>2. ASSUME NEW o \in Msg, patches' = [patches EXCEPT ![o] = NoChat] PROVE patches[m] # NoChat
    BY <1>4, <2>2 DEF PageTypeOK
  <2> QED
    BY <1>1, <1>2, <1>4, <2>1, <2>2 DEF PatchesChange, StoredInv
<1>5. ASSUME NEW m \in Own, sends'[m] = "served" PROVE rows'[m] # "none"
  <2>1. m \in Msg
    BY PageIsTyped
  <2>2. ASSUME NEW o \in Own, ServeSend(o) PROVE rows'[m] # "none"
    <3>1. o \in Msg
      BY PageIsTyped
    <3>2. CASE o = m
      BY <2>1, <2>2, <3>2 DEF ServeSend, Post, PageTypeOK
    <3>3. CASE o # m
      BY <1>1, <1>5, <2>1, <2>2, <3>3 DEF ServeSend, PageTypeOK, StoredInv
    <3> QED
      BY <3>2, <3>3
  <2>3. ASSUME NEW o \in Own, NEW s \in {"asked", "done"}, sends' = [sends EXCEPT ![o] = s]
        PROVE  sends[m] = "served"
    BY <1>5, <2>3 DEF PageTypeOK
  <2> QED
    BY <1>1, <1>2, <1>5, <2>1, <2>2, <2>3 DEF SendsChange, StoredInv
<1>6. \A m \in Msg : rows'[m] # "none" => chats'[ChatOf[m]] # "none"
  BY PostedToKnown DEF StoredInv
<1> QED
  BY <1>3, <1>4, <1>5, <1>6, LoadsStored DEF StoredInv

\* Fewer unread messages never count for more.
LEMMA FewerCount ==
    ASSUME PageTypeOK, PageTypeOK', NEW c \in Chat,
           \A m \in Msg : ChatOf[m] = c /\ rows'[m] = "unread" => rows[m] = "unread"
    PROVE  UnreadCounts'[c] <= UnreadCounts[c]
<1> DEFINE U == {m \in Msg : ChatOf[m] = c /\ rows[m] = "unread"}
<1> DEFINE V == {m \in Msg : ChatOf[m] = c /\ rows'[m] = "unread"}
<1>1. V \subseteq U /\ IsFiniteSet(U)
  BY PageIsTyped, FS_Subset
<1>2. Cardinality(V) <= Cardinality(U)
  BY <1>1, FS_Subset
<1>3. UnreadCounts[c] = Cardinality(U) /\ UnreadCounts'[c] = Cardinality(V)
  BY DEF UnreadCounts
<1> QED
  BY <1>2, <1>3

LEMMA CountsAreNat ==
    ASSUME PageTypeOK, PageTypeOK', NEW c \in Chat
    PROVE  UnreadCounts[c] \in Nat /\ UnreadCounts'[c] \in Nat
<1>1. /\ IsFiniteSet({m \in Msg : ChatOf[m] = c /\ rows[m] = "unread"})
      /\ IsFiniteSet({m \in Msg : ChatOf[m] = c /\ rows'[m] = "unread"})
  BY PageIsTyped, FS_Subset
<1> QED
  BY <1>1, FS_CardinalityType DEF UnreadCounts

\* Steps that send no event and make no message unread.
LEMMA CountsStay ==
    ASSUME PageTypeOK, PageTypeOK', CountsInv, mishaps \subseteq mishaps', events' = events,
           <<"unread">> \in due => <<"unread">> \in due',
           \A m \in Msg : rows'[m] = "unread" => rows[m] = "unread"
    PROVE  CountsInv'
<1> SUFFICES ASSUME "lost" \notin mishaps', <<"unread">> \notin due', NEW i \in DOMAIN events,
                    events[i].type = "unread",
                    \A j \in DOMAIN events : i < j => events[j].type # "unread",
                    NEW c \in Chat
             PROVE  UnreadCounts'[c] <= events[i].counts[c]
  BY DEF CountsInv
<1>1. events[i] \in Event
  BY LenProperties, ElementOfSeq DEF PageTypeOK
<1>2. events[i].counts[c] \in Nat
  <2>1. events[i].counts \in Counts
    BY <1>1 DEF Event
  <2> QED
    BY <2>1 DEF Counts
<1>3. UnreadCounts[c] <= events[i].counts[c]
  BY DEF CountsInv
<1>4. UnreadCounts'[c] <= UnreadCounts[c]
  BY FewerCount
<1> QED
  BY <1>2, <1>3, <1>4, CountsAreNat

\* An event that is sent has the counts, or leaves those before it the last ones.
LEMMA CountsSent ==
    ASSUME PageTypeOK, PageTypeOK', CountsInv, mishaps' = mishaps, rows' = rows, NEW e \in Event, Sends(e),
           \/ e = [type |-> "unread", counts |-> UnreadCounts]
           \/ e.type # "unread" /\ (<<"unread">> \in due => <<"unread">> \in due')
    PROVE  CountsInv'
<1> SUFFICES ASSUME "lost" \notin mishaps', <<"unread">> \notin due', NEW i \in DOMAIN events',
                    events'[i].type = "unread",
                    \A j \in DOMAIN events' : i < j => events'[j].type # "unread",
                    NEW c \in Chat
             PROVE  UnreadCounts[c] <= events'[i].counts[c]
  <2>1. UnreadCounts' = UnreadCounts
    BY DEF UnreadCounts
  <2> QED
    BY <2>1 DEF CountsInv
<1>1. /\ events \in Seq(Event) /\ events' = Append(events, e)
      /\ Len(events) \in Nat /\ DOMAIN events = 1..Len(events)
  BY LenProperties DEF Sends, PageTypeOK
<1>2. /\ events' \in Seq(Event) /\ Len(events') = Len(events) + 1
      /\ \A j \in 1..Len(events) : events'[j] = events[j]
      /\ events'[Len(events) + 1] = e
  BY <1>1, AppendProperties
<1>3. DOMAIN events' = 1..(Len(events) + 1)
  BY <1>2, LenProperties
<1>4. CASE e = [type |-> "unread", counts |-> UnreadCounts]
  <2>1. i = Len(events) + 1
    BY <1>1, <1>2, <1>3, <1>4
  <2>2. events'[i].counts = UnreadCounts
    BY <1>2, <1>4, <2>1
  <2> QED
    BY <2>2, CountsAreNat
<1>5. CASE e.type # "unread" /\ (<<"unread">> \in due => <<"unread">> \in due')
  <2>1. i \in DOMAIN events /\ events'[i] = events[i]
    BY <1>1, <1>2, <1>3, <1>5
  <2>2. \A j \in DOMAIN events : i < j => events[j].type # "unread"
    BY <1>1, <1>2, <1>3
  <2>3. UnreadCounts[c] <= events[i].counts[c]
    BY <1>5, <2>1, <2>2 DEF CountsInv
  <2> QED
    BY <2>1, <2>3
<1> QED
  BY <1>4, <1>5

\* An event that is handled leaves the last ones.
LEMMA CountsArrive ==
    ASSUME PageTypeOK, CountsInv, mishaps \subseteq mishaps', NEW type, Arrives(type)
    PROVE  CountsInv'
<1> SUFFICES ASSUME "lost" \notin mishaps', <<"unread">> \notin due', NEW i \in DOMAIN events',
                    events'[i].type = "unread",
                    \A j \in DOMAIN events' : i < j => events'[j].type # "unread",
                    NEW c \in Chat
             PROVE  UnreadCounts[c] <= events'[i].counts[c]
  <2>1. UnreadCounts' = UnreadCounts
    BY DEF UnreadCounts, Arrives
  <2> QED
    BY <2>1 DEF CountsInv
<1>1. /\ events \in Seq(Event) /\ events # <<>> /\ events' = Tail(events) /\ due' = due
      /\ Len(events) \in Nat /\ DOMAIN events = 1..Len(events)
  BY LenProperties DEF Arrives, PageTypeOK
<1>2. /\ Tail(events) \in Seq(Event) /\ Len(Tail(events)) = Len(events) - 1
      /\ \A j \in 1..Len(Tail(events)) : Tail(events)[j] = events[j + 1]
  BY <1>1, HeadTailProperties
<1>3. DOMAIN events' = 1..(Len(events) - 1) /\ \A j \in DOMAIN events' : events'[j] = events[j + 1]
  BY <1>1, <1>2, LenProperties
<1>4. i + 1 \in DOMAIN events /\ events'[i] = events[i + 1] /\ i \in Nat
  BY <1>1, <1>3
<1>5. ASSUME NEW j \in DOMAIN events, i + 1 < j PROVE events[j].type # "unread"
  <2>1. j - 1 \in DOMAIN events' /\ i < j - 1 /\ (j - 1) + 1 = j
    BY <1>1, <1>3, <1>4, <1>5
  <2> QED
    BY <1>3, <2>1
<1>6. UnreadCounts[c] <= events[i + 1].counts[c]
  BY <1>1, <1>4, <1>5 DEF CountsInv
<1> QED
  BY <1>4, <1>6

LEMMA CountsStep ==
    ASSUME PageTypeOK, CountsInv, [Next]_vars
    PROVE  CountsInv'
<1>1. mishaps \subseteq mishaps' /\ PageTypeOK'
  BY MishapsGrow, TypesStep
<1>2. ASSUME UNCHANGED <<rows, due, events>> PROVE CountsInv'
  BY <1>1, <1>2, CountsStay
<1>3. ASSUME <<"unread">> \in due' \/ "lost" \in mishaps' PROVE CountsInv'
  BY <1>3 DEF CountsInv
<1>4. ASSUME NEW c \in Chat, Add(c) \/ RemoveViewer(c) PROVE CountsInv'
  <2>1. events' = events /\ due \subseteq due'
    BY <1>4 DEF Add, RemoveViewer
  <2>2. \A m \in Msg : rows'[m] = "unread" => rows[m] = "unread"
    BY <1>4 DEF Add, RemoveViewer, PageTypeOK
  <2> QED
    BY <1>1, <2>1, <2>2, CountsStay
<1>5. ASSUME NEW m \in Msg, OthersPost(m) \/ ReadElsewhere(m) \/ ServePatch(m) PROVE CountsInv'
  BY <1>3, <1>5 DEF OthersPost, ReadElsewhere, ServePatch, Post, Read
<1>6. ASSUME NEW m \in Own, ServeSend(m) PROVE CountsInv'
  BY <1>3, <1>6 DEF ServeSend, Post
<1>7. CASE NotifyUnread
  <2>1. PICK e : e = [type |-> "unread", counts |-> UnreadCounts]
    OBVIOUS
  <2>2. e \in Event /\ Sends(e) /\ mishaps' = mishaps /\ rows' = rows
    BY <1>7, <2>1, CountsTyped DEF NotifyUnread, Event
  <2> QED
    BY <1>1, <2>1, <2>2, CountsSent
<1>8. ASSUME NEW n \in due, Notify(n) PROVE CountsInv'
  <2>1. n \in {"added", "removed"} \X Chat
    BY <1>8 DEF Notify, PageTypeOK, Note
  <2>2. PICK e : e = [type |-> n[1], chat |-> n[2]]
    OBVIOUS
  <2>3. e \in Event /\ Sends(e) /\ e.type # "unread"
    BY <1>8, <2>1, <2>2 DEF Notify, Event
  <2>4. mishaps' = mishaps /\ rows' = rows /\ (<<"unread">> \in due => <<"unread">> \in due')
    BY <1>8 DEF Notify
  <2> QED
    BY <1>1, <2>3, <2>4, CountsSent
<1>9. CASE Drop \/ \E n \in due : Skip(n)
  BY <1>3, <1>9 DEF Drop, Skip, Loses
<1>10. ASSUME NEW c \in Chat, Select(c) PROVE UNCHANGED <<rows, due, events>>
  BY <1>10 DEF Select, serverVars
<1>11. CASE ServeChats \/ HearChats \/ LoseChats
  BY <1>2, <1>11 DEF ServeChats, HearChats, LoseChats, serverVars
<1>12. ASSUME NEW i \in DOMAIN msgLoads, ServeMessages(i) \/ HearMessages(i) \/ LoseMessages(i)
       PROVE  UNCHANGED <<rows, due, events>>
  BY <1>12 DEF ServeMessages, HearMessages, LoseMessages, serverVars
<1>13. ASSUME NEW m \in Msg, Mark(m) \/ FailPatch(m) PROVE UNCHANGED <<rows, due, events>>
  BY <1>13 DEF Mark, FailPatch, serverVars
<1>14. ASSUME NEW m \in Own, Send(m) \/ HearSend(m) \/ FailSend(m) PROVE UNCHANGED <<rows, due, events>>
  BY <1>14 DEF Send, HearSend, FailSend, serverVars
<1>15. CASE HearUnread \/ HearAdded \/ HearRemoved
  <2>1. \E type : Arrives(type)
    BY <1>15 DEF HearUnread, HearAdded, HearRemoved
  <2> QED
    BY <1>1, <2>1, CountsArrive
<1>16. CASE Tick \/ UNCHANGED vars
  BY <1>2, <1>16 DEF Tick, vars, serverVars
<1>17. ASSUME NEW S \in SUBSET Expiring, Purge(S) PROVE CountsInv'
  <2>1. UNCHANGED <<due, events>> /\ \A m \in Msg : rows'[m] = "unread" => rows[m] = "unread"
    BY <1>17 DEF Purge
  <2> QED
    BY <1>1, <2>1, CountsStay
<1> QED
  BY <1>2, <1>4, <1>5, <1>6, <1>7, <1>8, <1>9, <1>10, <1>11, <1>12, <1>13, <1>14, <1>15, <1>16, <1>17 DEF Next

LEMMA RemovedForGood ==
    ASSUME PageTypeOK, [Next]_vars, NEW c \in Chat, chats[c] = "removed"
    PROVE  chats'[c] = "removed"
<1>1. ASSUME NEW d \in Chat, Add(d) \/ RemoveViewer(d) PROVE chats'[c] = "removed"
  BY <1>1 DEF Add, RemoveViewer, PageTypeOK
<1>2. ASSUME NEW d \in Chat, Select(d) PROVE UNCHANGED chats
  BY <1>2 DEF Select, serverVars
<1>3. ASSUME NEW m \in Msg, OthersPost(m) \/ ReadElsewhere(m) PROVE UNCHANGED chats
  BY <1>3 DEF OthersPost, ReadElsewhere, Post, Read
<1>4. CASE NotifyUnread \/ Drop \/ \E n \in due : Notify(n) \/ Skip(n)
  BY <1>4 DEF NotifyUnread, Drop, Notify, Skip
<1>5. CASE ServeChats \/ HearChats \/ LoseChats
  BY <1>5 DEF ServeChats, HearChats, LoseChats, serverVars
<1>6. ASSUME NEW i \in DOMAIN msgLoads, ServeMessages(i) \/ HearMessages(i) \/ LoseMessages(i)
      PROVE  UNCHANGED chats
  BY <1>6 DEF ServeMessages, HearMessages, LoseMessages, serverVars
<1>7. ASSUME NEW m \in Msg, Mark(m) \/ ServePatch(m) \/ FailPatch(m) PROVE UNCHANGED chats
  BY <1>7 DEF Mark, ServePatch, Read, FailPatch, serverVars
<1>8. ASSUME NEW m \in Own, Send(m) \/ ServeSend(m) \/ HearSend(m) \/ FailSend(m) PROVE UNCHANGED chats
  BY <1>8 DEF Send, ServeSend, Post, HearSend, FailSend, serverVars
<1>9. CASE HearUnread \/ HearAdded \/ HearRemoved \/ Tick \/ UNCHANGED vars
  BY <1>9 DEF HearUnread, HearAdded, HearRemoved, Arrives, Tick, vars, serverVars
<1>10. ASSUME NEW S \in SUBSET Expiring, Purge(S) PROVE UNCHANGED chats
  BY <1>10 DEF Purge
<1> QED
  BY <1>1, <1>2, <1>3, <1>4, <1>5, <1>6, <1>7, <1>8, <1>9, <1>10 DEF Next

\* What disturbs the open chat's messages keeps doing so while the chat is open.
LEMMA Disturbs ==
    ASSUME PageTypeOK, [Next]_vars, Undisturbed', UNCHANGED <<selected, msgLoads>>
    PROVE  Undisturbed
<1>1. mishaps = {}
  BY MishapsGrow DEF Undisturbed
<1>2. chats[selected] # "removed"
  <2>1. selected \in Chat
    BY DEF Undisturbed, PageTypeOK
  <2>2. ASSUME chats[selected] = "removed" PROVE chats'[selected] = "removed"
    BY <2>1, <2>2, RemovedForGood
  <2> QED
    BY <2>2 DEF Undisturbed
<1> QED
  BY <1>1, <1>2 DEF Undisturbed, Coming

\* Steps that leave the panel, the list's count of the open chat and what is under
\* way to them alone; a message that is posted is one that counts are to come of,
\* or the viewer's own.
LEMMA InStepStays ==
    ASSUME InStep, UNCHANGED <<selected, shown, msgLoads, patches>>, list'[selected] = list[selected],
           \A m \in Msg : ChatOf[m] = selected => \/ rows'[m] = rows[m]
                                                  \/ /\ rows[m] # "gone" /\ View[m] = "no"
                                                     /\ \/ m \in Own /\ sends'[m] = "served"
                                                        \/ rows'[m] = "unread" /\ <<"unread">> \in due',
           \A m \in Own : sends[m] = "served" => sends'[m] = "served",
           NewsToCome => NewsToCome'
    PROVE  InStep'
<1>1. View' = View
  BY DEF View
<1>2. InCount' = InCount
  BY <1>1 DEF InCount
<1>3. \A m \in Msg : ChatOf[m] = selected' /\ Stored(m)' /\ View'[m] = "no" =>
         (m \in Own /\ sends'[m] = "served") \/ (rows'[m] = "unread" /\ NewsToCome')
  BY <1>1 DEF InStep, NewsToCome, Stored
<1>4. \A m \in Msg : rows'[m] # "gone" /\ ChatOf[m] = selected => rows[m] # "gone"
  OBVIOUS
<1>5. \A m \in Msg : rows'[m] # "gone" /\ ChatOf[m] = selected /\ (shown[m] # "no" \/ patches[m] # NoChat) =>
        View[m] # "no"
  BY <1>4 DEF InStep
<1>6. \A i \in DOMAIN msgLoads, m \in Msg :
        rows'[m] # "gone" /\ ChatOf[m] = selected /\ msgLoads[i].items[m] # "no" => View[m] # "no"
  BY <1>4 DEF InStep
<1> QED
  BY <1>1, <1>2, <1>3, <1>5, <1>6 DEF InStep

\* A chat that opens has its messages asked for.
LEMMA AskedNotYet ==
    ASSUME PageTypeOK, NEW c \in Chat, AskMessages(c)
    PROVE  ~Undisturbed'
BY AskedIsLast DEF Undisturbed

LEMMA NewsStay ==
    ASSUME PageTypeOK, NEW type, type # "unread", Arrives(type), NewsToCome
    PROVE  NewsToCome'
BY ArrivesStep DEF NewsToCome, Arrives

\* The read timer takes a message off the list's count, and out of those it stands for.
LEMMA MarkInStep ==
    ASSUME PageTypeOK, PageTypeOK', InStep, NEW m \in Msg, Mark(m)
    PROVE  InStep'
<1>1. /\ selected \in Chat /\ list[selected] \in Nat /\ selected' = selected /\ selected # NoChat
      /\ shown[m] = "unread" /\ shown' = [shown EXCEPT ![m] = "read"]
      /\ list'[selected] = IF list[selected] = 0 THEN 0 ELSE list[selected] - 1
      /\ patches[m] = NoChat /\ patches' = [patches EXCEPT ![m] = selected]
      /\ UNCHANGED <<rows, due, events, msgLoads, sends>>
  BY PageIsTyped DEF Mark, InView, Listed, PageTypeOK, List, serverVars
<1>2. \A o \in Msg : /\ shown'[o] # "no" <=> shown[o] # "no"
                     /\ View'[o] # "no" <=> View[o] # "no"
                     /\ patches'[o] = IF o = m THEN selected ELSE patches[o]
  BY <1>1 DEF View, PageTypeOK, Panel
<1>3. InCount' = InCount \ {m}
  BY <1>1, <1>2 DEF InCount
<1>4. IsFiniteSet(InCount) /\ InCount \subseteq Msg
  BY PageIsTyped, FS_Subset DEF InCount
<1>5. Cardinality(InCount') = IF m \in InCount THEN Cardinality(InCount) - 1 ELSE Cardinality(InCount)
  BY <1>3, <1>4, FS_RemoveElement
<1>6. Cardinality(InCount) \in Nat /\ Cardinality(InCount') \in Nat
  BY <1>3, <1>4, FS_CardinalityType, FS_RemoveElement
<1>7. list[selected] <= Cardinality(InCount)
  BY <1>1, PageIsTyped DEF InStep
<1>8. list'[selected] <= Cardinality(InCount')
  BY <1>1, <1>5, <1>6, <1>7
<1>9. NewsToCome' <=> NewsToCome
  BY <1>1 DEF NewsToCome
<1>10. \A o \in Msg : rows[o] # "gone" /\ ChatOf[o] = selected /\ (shown'[o] # "no" \/ patches'[o] # NoChat) =>
         View'[o] # "no"
  BY <1>1, <1>2 DEF InStep
<1>11. \A i \in DOMAIN msgLoads, o \in Msg :
         rows[o] # "gone" /\ ChatOf[o] = selected /\ msgLoads[i].items[o] # "no" => View'[o] # "no"
  BY <1>2 DEF InStep
<1>12. \A o \in Msg : ChatOf[o] = selected /\ Stored(o) /\ View'[o] = "no" =>
         (o \in Own /\ sends[o] = "served") \/ (rows[o] = "unread" /\ NewsToCome)
  BY <1>2 DEF InStep
<1> QED
  BY <1>1, <1>8, <1>9, <1>10, <1>11, <1>12 DEF InStep, Stored

\* The message that markMessageRead is for is in view, and is not counted any more.
LEMMA PatchInStep ==
    ASSUME PageTypeOK, InStep, NEW m \in Msg, ServePatch(m)
    PROVE  InStep'
<1>1. /\ patches[m] # NoChat /\ patches' = [patches EXCEPT ![m] = NoChat] /\ rows[m] # "gone"
      /\ rows' = [rows EXCEPT ![m] = "read"] /\ due' = due \cup {<<"unread">>}
      /\ UNCHANGED <<selected, shown, msgLoads, list, sends, events>>
  BY DEF ServePatch, Read, Stored, listVars, panelVars
<1>2. View' = View /\ NewsToCome'
  BY <1>1 DEF View, NewsToCome
<1>3. \A o \in Msg : o # m => rows'[o] = rows[o] /\ patches'[o] = patches[o]
  BY <1>1 DEF PageTypeOK
<1>4. rows'[m] = "read" /\ patches'[m] = NoChat
  BY <1>1 DEF PageTypeOK
<1>5. InCount' = InCount
  BY <1>1, <1>2, <1>3, <1>4 DEF InCount
<1>6. \A o \in Msg : patches'[o] # NoChat => patches[o] # NoChat
  BY <1>3, <1>4
<1>7. ChatOf[m] = selected => View[m] # "no"
  BY <1>1 DEF InStep
<1>8. \A o \in Msg : ChatOf[o] = selected /\ Stored(o)' /\ View[o] = "no" =>
         (o \in Own /\ sends[o] = "served") \/ rows'[o] = "unread"
  BY <1>3, <1>7 DEF InStep, Stored
<1>9. \A o \in Msg : rows'[o] # "gone" => rows[o] # "gone"
  BY <1>1, <1>3
<1> QED
  BY <1>1, <1>2, <1>5, <1>6, <1>8, <1>9 DEF InStep

\* A message of the viewer's own comes into view; the list counts none.
LEMMA SendInStep ==
    ASSUME PageTypeOK, InStep, NEW m \in Own, HearSend(m), msgLoads = <<>>, ChatOf[m] = selected
    PROVE  InStep'
<1>1. /\ m \in Msg /\ selected \in Chat /\ selected' = selected
      /\ sends' = [sends EXCEPT ![m] = "done"] /\ shown' = [shown EXCEPT ![m] = "read"]
      /\ list' = [list EXCEPT ![selected] = IF @ = Absent THEN Absent ELSE 0]
      /\ msgLoads' = msgLoads /\ UNCHANGED <<rows, due, events, patches>>
  BY PageIsTyped DEF HearSend, serverVars
<1>2. View = shown /\ View' = shown'
  BY <1>1 DEF View
<1>3. \A o \in Msg : o # m => shown'[o] = shown[o]
  BY <1>1 DEF PageTypeOK, Panel
<1>4. shown'[m] = "read"
  BY <1>1 DEF PageTypeOK, Panel
<1>5. \A o \in Own : o # m => sends'[o] = sends[o]
  BY <1>1 DEF PageTypeOK
<1>6. list'[selected] # Absent => list'[selected] = 0
  BY <1>1 DEF PageTypeOK, List
<1>7. Cardinality(InCount') \in Nat
  <2>1. InCount' \subseteq Msg
    BY DEF InCount
  <2> QED
    BY <2>1, PageIsTyped, FS_Subset, FS_CardinalityType
<1>8. NewsToCome' <=> NewsToCome
  BY <1>1 DEF NewsToCome
<1>9. \A o \in Msg : rows[o] # "gone" /\ ChatOf[o] = selected /\ (shown'[o] # "no" \/ patches[o] # NoChat) =>
        View'[o] # "no"
  BY <1>2, <1>3, <1>4 DEF InStep
<1>10. DOMAIN msgLoads' = {}
  BY <1>1
<1>11. \A o \in Msg : ChatOf[o] = selected /\ Stored(o) /\ View'[o] = "no" =>
         (o \in Own /\ sends'[o] = "served") \/ (rows[o] = "unread" /\ NewsToCome)
  BY <1>2, <1>3, <1>4, <1>5 DEF InStep
<1> QED
  BY <1>1, <1>6, <1>7, <1>8, <1>9, <1>10, <1>11 DEF InStep, Stored

\* Counts that say nothing new: the list counts no fewer messages than are unread,
\* so that all of them are in view, or other counts are to come.
LEMMA NoNewsInStep ==
    ASSUME PageTypeOK, PageTypeOK', InStep, CountsInv, "lost" \notin mishaps,
           selected # NoChat, HearUnread, ~IsNews(Head(events).counts)
    PROVE  InStep'
<1>1. PICK counts : counts = Head(events).counts
  OBVIOUS
<1>2. /\ Arrives("unread") /\ selected \in Chat /\ Absent \notin Nat
      /\ UNCHANGED <<selected, shown, msgLoads, patches, sends, rows, due>>
      /\ list' = CountsIn(list, counts)
      /\ counts[selected] = IF InView = NoChat THEN 0 ELSE list[selected]
  BY <1>1, PageIsTyped DEF HearUnread, IsNews, Arrives, PageTypeOK, callVars
<1>3. View' = View /\ InCount' = InCount
  BY <1>2 DEF View, InCount
<1>4. IsFiniteSet(InCount) /\ Cardinality(InCount) \in Nat
  BY PageIsTyped, FS_Subset, FS_CardinalityType DEF InCount
<1>5. list'[selected] # Absent => list'[selected] <= Cardinality(InCount)
  BY <1>2, <1>4 DEF CountsIn
<1>6. counts[selected] \in Nat /\ counts[selected] <= Cardinality(InCount)
  BY <1>2, <1>4 DEF InView, Listed, InStep, PageTypeOK, List
<1>7. ASSUME NEW m \in Msg, ChatOf[m] = selected, rows[m] = "unread", View[m] = "no" PROVE NewsToCome'
  <2> SUFFICES ASSUME ~NewsToCome' PROVE FALSE
    OBVIOUS
  <2>1. <<"unread">> \notin due /\ \A i \in DOMAIN events' : events'[i].type # "unread"
    BY <1>2 DEF NewsToCome
  <2>2. /\ 1 \in DOMAIN events /\ events[1].type = "unread" /\ events[1].counts = counts
        /\ \A j \in DOMAIN events : 1 < j => events[j].type # "unread"
    <3>1. /\ events \in Seq(Event) /\ events # <<>> /\ events' = Tail(events)
          /\ Len(events) \in Nat /\ DOMAIN events = 1..Len(events) /\ Head(events).type = "unread"
      BY <1>2, LenProperties DEF Arrives, PageTypeOK
    <3>2. /\ Tail(events) \in Seq(Event) /\ Len(Tail(events)) = Len(events) - 1
          /\ \A j \in 1..Len(Tail(events)) : Tail(events)[j] = events[j + 1]
      BY <3>1, HeadTailProperties
    <3>3. DOMAIN events' = 1..(Len(events) - 1) /\ \A j \in DOMAIN events' : events'[j] = events[j + 1]
      BY <3>1, <3>2, LenProperties
    <3>4. Head(events) = events[1] /\ 1 \in DOMAIN events
      BY <3>1
    <3>5. ASSUME NEW j \in DOMAIN events, 1 < j PROVE events[j].type # "unread"
      <4>1. j - 1 \in DOMAIN events' /\ (j - 1) + 1 = j
        BY <3>1, <3>3, <3>5
      <4> QED
        BY <2>1, <3>3, <4>1
    <3> QED
      BY <1>1, <3>1, <3>4, <3>5
  <2>3. UnreadCounts[selected] <= counts[selected]
    BY <1>2, <2>1, <2>2 DEF CountsInv
  <2> DEFINE U == {o \in Msg : ChatOf[o] = selected /\ rows[o] = "unread"}
  <2>4. UnreadCounts[selected] = Cardinality(U)
    BY <1>2 DEF UnreadCounts
  <2>5. InCount \subseteq U /\ m \in U /\ m \notin InCount /\ IsFiniteSet(U) /\ Cardinality(U) \in Nat
    BY <1>7, PageIsTyped, FS_Subset, FS_CardinalityType DEF InCount
  <2>6. Cardinality(InCount) < Cardinality(U)
    BY <1>4, <2>5, FS_Subset
  <2> QED
    BY <1>4, <1>6, <2>3, <2>4, <2>5, <2>6
<1>8. \A m \in Msg : ChatOf[m] = selected /\ Stored(m) /\ View[m] = "no" =>
         (m \in Own /\ sends[m] = "served") \/ (rows[m] = "unread" /\ NewsToCome')
  BY <1>7 DEF InStep
<1> QED
  BY <1>2, <1>3, <1>5, <1>8 DEF InStep, Stored

\* The first call of loadMessages is heard: what is under way ends as before.
LEMMA FirstHeard ==
    ASSUME PageTypeOK, 1 \in DOMAIN msgLoads, shown' = msgLoads[1].items, msgLoads' = RemoveAt(msgLoads, 1),
           msgLoads[1].pc # "asked"
    PROVE  View' = View /\ Coming' = Coming
<1>1. /\ msgLoads \in Seq(MsgLoad) /\ Len(msgLoads) \in Nat /\ DOMAIN msgLoads = 1..Len(msgLoads)
      /\ Len(msgLoads) >= 1 /\ msgLoads # <<>>
  BY LenProperties DEF PageTypeOK
<1>2. RemoveAt(msgLoads, 1) = SubSeq(msgLoads, 1, 0) \o SubSeq(msgLoads, 2, Len(msgLoads))
  BY DEF RemoveAt
<1>3. SubSeq(msgLoads, 1, 0) = <<>>
  BY <1>1, SubSeqProperties
<1> DEFINE s == SubSeq(msgLoads, 2, Len(msgLoads))
<1>4. /\ s \in Seq(MsgLoad) /\ Len(s) = Len(msgLoads) - 1
      /\ \A k \in 1..Len(s) : s[k] = msgLoads[k + 1]
  BY <1>1, SubSeqProperties
<1>5. msgLoads' = s
  BY <1>2, <1>3, <1>4, ConcatEmptySeq
<1>6. CASE Len(msgLoads) = 1
  <2>1. msgLoads' = <<>>
    BY <1>4, <1>5, <1>6, EmptySeq
  <2> QED
    BY <1>1, <1>6, <2>1 DEF View, Coming
<1>7. CASE Len(msgLoads) # 1
  <2>1. msgLoads' # <<>> /\ Len(msgLoads') \in 1..Len(s) /\ Len(msgLoads') + 1 = Len(msgLoads)
    <3>1. Len(s) \in 1..Len(s) /\ Len(s) + 1 = Len(msgLoads)
      BY <1>1, <1>4, <1>7
    <3>2. s # <<>>
      BY <3>1, EmptySeq
    <3> QED
      BY <1>5, <3>1, <3>2
  <2>2. msgLoads'[Len(msgLoads')] = msgLoads[Len(msgLoads)]
    BY <1>4, <1>5, <2>1
  <2> QED
    BY <1>1, <2>1, <2>2 DEF View, Coming
<1> QED
  BY <1>6, <1>7

LEMMA HearInStep ==
    ASSUME PageTypeOK, InStep, 1 \in DOMAIN msgLoads, HearMessages(1)
    PROVE  InStep' /\ Coming' = Coming
<1>1. /\ shown' = msgLoads[1].items /\ msgLoads' = RemoveAt(msgLoads, 1) /\ msgLoads[1].pc # "asked"
      /\ UNCHANGED <<rows, due, events, list, selected, patches, sends>>
  BY DEF HearMessages, serverVars, listVars, callVars
<1>2. View' = View /\ Coming' = Coming
  BY <1>1, FirstHeard
<1>3. InCount' = InCount /\ (NewsToCome' <=> NewsToCome)
  BY <1>1, <1>2 DEF InCount, NewsToCome
<1>4. \A j \in DOMAIN msgLoads' : \E k \in DOMAIN msgLoads : msgLoads'[j] = msgLoads[k]
  BY <1>1, Without DEF PageTypeOK
<1> QED
  BY <1>1, <1>2, <1>3, <1>4 DEF InStep, Stored

\* The last call of loadMessages is served: every message of the open chat is in view.
LEMMA ServeInStep ==
    ASSUME PageTypeOK, PageTypeOK', StoredInv, StoredInv', LoadsInv', PanelInv',
           NEW i \in DOMAIN msgLoads, ServeMessages(i), Undisturbed'
    PROVE  InStep'
<1>1. /\ UNCHANGED <<chats, rows, due, events, list, selected, shown, patches, sends>>
      /\ mishaps' = {} /\ selected \in Chat /\ selected # NoChat
      /\ chats[selected] # "removed" /\ ~Coming'
  BY PageIsTyped DEF ServeMessages, serverVars, listVars, callVars, Undisturbed, PageTypeOK
<1>2. ~Overcounted /\ \A j \in DOMAIN msgLoads : i < j => msgLoads[j].pc = "asked"
  BY <1>1 DEF ServeMessages, Happens
<1>3. /\ msgLoads \in Seq(MsgLoad) /\ Len(msgLoads) \in Nat /\ DOMAIN msgLoads = 1..Len(msgLoads)
      /\ i \in 1..Len(msgLoads) /\ msgLoads # <<>>
  BY LenProperties DEF PageTypeOK
<1>4. PICK x : /\ msgLoads' = [msgLoads EXCEPT ![i] = x]
               /\ x = IF chats[msgLoads[i].chat] = "member"
                      THEN [pc |-> "served", chat |-> msgLoads[i].chat, items |->
                              [m \in Msg |-> IF ChatOf[m] = msgLoads[i].chat /\ Stored(m) THEN rows[m] ELSE "no"]]
                      ELSE [Asked(msgLoads[i].chat) EXCEPT !.pc = "failed"]
  BY DEF ServeMessages
<1>5. /\ DOMAIN msgLoads' = DOMAIN msgLoads /\ Len(msgLoads') = Len(msgLoads)
      /\ \A j \in DOMAIN msgLoads : msgLoads'[j] = IF j = i THEN x ELSE msgLoads[j]
  BY <1>3, <1>4
<1>6. msgLoads' # <<>>
  BY <1>3, <1>5
<1>7. i = Len(msgLoads)
  <2> SUFFICES ASSUME i # Len(msgLoads) PROVE FALSE
    OBVIOUS
  <2>1. Len(msgLoads) \in DOMAIN msgLoads /\ i < Len(msgLoads)
    BY <1>3
  <2>2. msgLoads'[Len(msgLoads')].pc = "asked"
    BY <1>2, <1>5, <2>1
  <2> QED
    BY <1>1, <1>6, <2>2 DEF Coming
<1>8. View' = x.items
  BY <1>3, <1>5, <1>6, <1>7 DEF View
<1>9. msgLoads[i].chat = selected
  <2>1. msgLoads'[i].chat = selected
    BY <1>1, <1>5 DEF PanelInv
  <2>2. x.chat = msgLoads[i].chat
    BY <1>4 DEF Asked
  <2> QED
    BY <1>5, <2>1, <2>2
<1>10. ASSUME NEW m \in Msg, ChatOf[m] = selected, Stored(m) PROVE View'[m] # "no"
  <2>1. chats[selected] = "member"
    BY <1>1, <1>10 DEF StoredInv, Stored, PageTypeOK
  <2>2. x.items[m] = rows[m]
    BY <1>4, <1>9, <1>10, <2>1
  <2> QED
    BY <1>8, <2>2 DEF PageTypeOK
<1>11. \A m \in Msg : rows[m] # "gone" /\ ChatOf[m] = selected /\ (shown[m] # "no" \/ patches[m] # NoChat) =>
         View'[m] # "no"
  BY <1>10 DEF StoredInv, Stored, PageTypeOK
<1>12. ASSUME NEW j \in DOMAIN msgLoads', NEW m \in Msg, rows[m] # "gone", msgLoads'[j].items[m] # "no"
       PROVE  View'[m] # "no"
  <2>1. ChatOf[m] = msgLoads'[j].chat /\ msgLoads'[j].chat = selected
    BY <1>1, <1>12 DEF LoadsInv, PanelInv, IsOf
  <2>2. Stored(m)
    BY <1>1, <1>12 DEF StoredInv, Stored, PageTypeOK
  <2> QED
    BY <1>10, <2>1, <2>2
<1>13. ASSUME list[selected] # Absent PROVE list[selected] <= Cardinality(InCount')
  <2>1. InView # NoChat
    BY <1>1, <1>13 DEF InView, Listed
  <2> DEFINE U == {m \in Msg : ChatOf[m] = selected /\ rows[m] = "unread" /\ patches[m] = NoChat}
  <2>2. InCount' = U
    BY <1>1, <1>10 DEF InCount, Stored
  <2>3. Cardinality(U) \in Nat
    BY PageIsTyped, FS_Subset, FS_CardinalityType
  <2>4. ~(list[selected] > Cardinality(U))
    BY <1>2, <2>1 DEF Overcounted
  <2>5. list[selected] \in Nat
    BY <1>1, <1>13 DEF PageTypeOK, List
  <2> QED
    BY <2>2, <2>3, <2>4, <2>5
<1>14. \A m \in Msg : ChatOf[m] = selected /\ Stored(m)' => View'[m] # "no"
  BY <1>1, <1>10 DEF Stored
<1> QED
  BY <1>1, <1>11, <1>12, <1>13, <1>14 DEF InStep

\* A step of the server, or of one call, that leaves the open chat's messages in view.
LEMMA OpenStays ==
    ASSUME PageTypeOK, OpenInv, [Next]_vars, UNCHANGED <<selected, shown, msgLoads, patches>>,
           selected \in Chat => list'[selected] = list[selected],
           Undisturbed' => \A m \in Msg : ChatOf[m] = selected =>
              \/ rows'[m] = rows[m]
              \/ /\ rows[m] # "gone" /\ View[m] = "no"
                 /\ \/ m \in Own /\ sends'[m] = "served"
                    \/ rows'[m] = "unread" /\ <<"unread">> \in due',
           \A m \in Own : sends[m] = "served" => sends'[m] = "served" \/ ~Undisturbed',
           NewsToCome => NewsToCome' \/ ~Undisturbed'
    PROVE  OpenInv'
<1> SUFFICES ASSUME Undisturbed' PROVE InStep'
  BY DEF OpenInv
<1>1. Undisturbed
  BY Disturbs
<1>2. selected \in Chat
  BY <1>1 DEF Undisturbed, PageTypeOK
<1> QED
  BY <1>1, <1>2, InStepStays DEF OpenInv

\* A message that is not stored is not in view.
LEMMA UnstoredUnseen ==
    ASSUME PageTypeOK, StoredInv, NEW m \in Msg, rows[m] = "none"
    PROVE  View[m] = "no"
<1>1. msgLoads # <<>> => Len(msgLoads) \in DOMAIN msgLoads
  <2>1. Len(msgLoads) \in Nat /\ DOMAIN msgLoads = 1..Len(msgLoads)
    BY LenProperties DEF PageTypeOK
  <2>2. msgLoads # <<>> => Len(msgLoads) # 0
    BY EmptySeq DEF PageTypeOK
  <2> QED
    BY <2>1, <2>2
<1> QED
  BY <1>1 DEF View, StoredInv

\* What the list counts of the open chat is in view after a purge too, unless the
\* purge took a message that it counted.
LEMMA OpenPurge ==
    ASSUME PageTypeOK, OpenInv, [Next]_vars, NEW S \in SUBSET Expiring, Purge(S)
    PROVE  OpenInv'
<1> SUFFICES ASSUME Undisturbed' PROVE InStep'
  BY DEF OpenInv
<1>1. /\ UNCHANGED <<selected, shown, msgLoads, list, patches, sends, due, events>>
      /\ \A m \in Msg : rows'[m] = IF m \in S THEN "gone" ELSE rows[m]
      /\ \A m \in S : m \in Msg /\ ~Counted(m)
  BY PageIsTyped DEF Purge, Happens, Undisturbed, panelVars, listVars, callVars
<1>2. Undisturbed /\ InStep /\ selected \in Chat
  BY <1>1, Disturbs DEF OpenInv, Undisturbed, PageTypeOK
<1>3. View' = View /\ (NewsToCome' <=> NewsToCome)
  BY <1>1 DEF View, NewsToCome
<1>4. list[selected] # Absent => list[selected] = 0 \/ InCount' = InCount
  <2> SUFFICES ASSUME list[selected] # Absent, list[selected] # 0 PROVE InCount' = InCount
    OBVIOUS
  <2>1. InView = selected
    BY <1>2 DEF InView, Listed
  <2>2. \A m \in Msg : ChatOf[m] = selected /\ rows[m] = "unread" /\ patches[m] = NoChat => m \notin S
    BY <1>1, <2>1 DEF Counted
  <2> QED
    BY <1>1, <1>3, <2>2 DEF InCount
<1>5. Cardinality(InCount') \in Nat
  <2>1. InCount' \subseteq Msg
    BY DEF InCount
  <2> QED
    BY <2>1, PageIsTyped, FS_Subset, FS_CardinalityType
<1>6. list[selected] # Absent => list[selected] <= Cardinality(InCount')
  BY <1>2, <1>4, <1>5 DEF InStep
<1>7. \A m \in Msg : rows'[m] # "gone" => rows'[m] = rows[m]
  BY <1>1
<1>8. \A m \in Msg : Stored(m)' => Stored(m) /\ rows'[m] = rows[m]
  BY <1>7 DEF Stored
<1> QED
  BY <1>1, <1>2, <1>3, <1>6, <1>7, <1>8 DEF InStep

LEMMA OpenTick ==
    ASSUME PageTypeOK, OpenInv, [Next]_vars, Tick
    PROVE  OpenInv'
<1> SUFFICES ASSUME Undisturbed' PROVE InStep'
  BY DEF OpenInv
<1>1. /\ UNCHANGED <<rows, due, events, list, selected, msgLoads, patches, sends>>
      /\ \A m \in Msg : shown'[m] # shown[m] => rows[m] = "gone" /\ shown'[m] = "no"
  BY DEF Tick, serverVars, listVars, callVars
<1>2. InStep
  BY <1>1, Disturbs DEF OpenInv
<1>3. NewsToCome' <=> NewsToCome
  BY <1>1 DEF NewsToCome
<1>4. \A m \in Msg : rows[m] # "gone" => View'[m] = View[m]
  BY <1>1 DEF View
<1>5. InCount' = InCount
  BY <1>1, <1>4 DEF InCount
<1>6. \A m \in Msg : Stored(m)' => Stored(m) /\ rows[m] # "gone"
  BY <1>1 DEF Stored
<1> QED
  BY <1>1, <1>2, <1>3, <1>4, <1>5, <1>6 DEF InStep

LEMMA OpenServer ==
    ASSUME PageTypeOK, StoredInv, OpenInv, [Next]_vars,
           \/ \E c \in Chat : Add(c) \/ RemoveViewer(c)
           \/ \E m \in Msg \ Own : OthersPost(m) \/ ReadElsewhere(m)
           \/ NotifyUnread \/ Drop \/ \E n \in due : Notify(n) \/ Skip(n)
    PROVE  OpenInv'
<1>1. UNCHANGED <<list, selected, shown, msgLoads, patches, sends>>
  BY DEF Add, RemoveViewer, OthersPost, ReadElsewhere, NotifyUnread, Drop, Notify, Skip,
         listVars, panelVars, callVars
<1>2. ASSUME rows' = rows, NewsToCome => NewsToCome' PROVE OpenInv'
  BY <1>1, <1>2, OpenStays
<1>3. ASSUME NEW c \in Chat, Add(c) PROVE OpenInv'
  <2>1. rows' = rows /\ (NewsToCome => NewsToCome')
    BY <1>3 DEF Add, NewsToCome
  <2> QED
    BY <1>2, <2>1
<1>4. ASSUME NEW c \in Chat, RemoveViewer(c) PROVE OpenInv'
  <2>1. NewsToCome => NewsToCome'
    BY <1>4 DEF RemoveViewer, NewsToCome
  <2>2. ASSUME Undisturbed' PROVE c # selected
    BY <1>1, <1>4, <2>2 DEF RemoveViewer, Undisturbed, PageTypeOK
  <2>3. Undisturbed' => \A m \in Msg : ChatOf[m] = selected => rows'[m] = rows[m]
    BY <1>4, <2>2 DEF RemoveViewer
  <2> QED
    BY <1>1, <2>1, <2>3, OpenStays
<1>5. ASSUME NEW m \in Msg, OthersPost(m) PROVE OpenInv'
  <2>1. rows[m] = "none" /\ rows' = [rows EXCEPT ![m] = "unread"] /\ due' = due \cup {<<"unread">>}
    BY <1>5 DEF OthersPost, Post
  <2>2. View[m] = "no"
    BY <2>1, UnstoredUnseen
  <2>3. NewsToCome'
    BY <2>1 DEF NewsToCome
  <2>4. \A o \in Msg : \/ rows'[o] = rows[o]
                       \/ rows[o] # "gone" /\ View[o] = "no" /\ rows'[o] = "unread" /\ <<"unread">> \in due'
    <3>1. \A o \in Msg : o # m => rows'[o] = rows[o]
      BY <2>1 DEF PageTypeOK
    <3>2. rows'[m] = "unread" /\ rows[m] # "gone" /\ <<"unread">> \in due'
      BY <2>1 DEF PageTypeOK
    <3> QED
      BY <2>2, <3>1, <3>2
  <2> QED
    BY <1>1, <2>3, <2>4, OpenStays
<1>6. ASSUME "lost" \in mishaps' \/ "unseen" \in mishaps' PROVE OpenInv'
  BY <1>6 DEF OpenInv, Undisturbed
<1>7. ASSUME NEW m \in Msg, ReadElsewhere(m) PROVE OpenInv'
  BY <1>6, <1>7 DEF ReadElsewhere, Happens
<1>8. CASE NotifyUnread
  <2>1. PICK e : e = [type |-> "unread", counts |-> UnreadCounts]
    OBVIOUS
  <2>2. e \in Event /\ Sends(e) /\ rows' = rows
    BY <1>8, <2>1, CountsTyped DEF NotifyUnread, Event
  <2>3. \E i \in DOMAIN events' : events'[i].type = "unread"
    BY <2>1, <2>2, SendsStep
  <2> QED
    BY <1>2, <2>2, <2>3 DEF NewsToCome
<1>9. ASSUME NEW n \in due, Notify(n) PROVE OpenInv'
  <2>1. n \in {"added", "removed"} \X Chat
    BY <1>9 DEF Notify, PageTypeOK, Note
  <2>2. PICK e : e = [type |-> n[1], chat |-> n[2]]
    OBVIOUS
  <2>3. e \in Event /\ Sends(e)
    BY <1>9, <2>1, <2>2 DEF Notify, Event
  <2>4. \A i \in DOMAIN events : i \in DOMAIN events' /\ events'[i] = events[i]
    BY <2>3, SendsStep
  <2>5. rows' = rows /\ (<<"unread">> \in due => <<"unread">> \in due')
    BY <1>9 DEF Notify
  <2> QED
    BY <1>2, <2>4, <2>5 DEF NewsToCome
<1>10. CASE Drop \/ \E n \in due : Skip(n)
  BY <1>6, <1>10 DEF Drop, Skip, Loses
<1> QED
  BY <1>3, <1>4, <1>5, <1>7, <1>8, <1>9, <1>10

\* Another chat opens, none does, or the open one stays.
LEMMA OpenShow ==
    ASSUME PageTypeOK, OpenInv, [Next]_vars, NEW c \in Chat \cup {NoChat}, Show(c),
           UNCHANGED <<rows, patches, sends>>, NewsToCome => NewsToCome',
           c = selected /\ selected \in Chat => list'[selected] = list[selected] \/ ~Undisturbed'
    PROVE  OpenInv'
<1>1. CASE c = selected
  <2>1. UNCHANGED <<selected, shown, msgLoads>>
    BY <1>1 DEF Show
  <2> QED
    BY <1>1, <2>1, OpenStays DEF OpenInv
<1>2. CASE c # selected /\ c = NoChat
  BY <1>2 DEF Show, OpenInv, Undisturbed
<1>3. CASE c # selected /\ c # NoChat
  BY <1>3, AskedNotYet DEF Show, OpenInv
<1> QED
  BY <1>1, <1>2, <1>3

LEMMA OpenChats ==
    ASSUME PageTypeOK, OpenInv, [Next]_vars,
           ServeChats \/ HearChats \/ LoseChats \/ \E c \in Chat : Select(c)
    PROVE  OpenInv'
<1>1. UNCHANGED <<rows, due, events, patches, sends>> /\ (NewsToCome => NewsToCome')
  BY DEF ServeChats, HearChats, LoseChats, Select, serverVars, callVars, NewsToCome
<1>2. CASE ServeChats
  <2>1. UNCHANGED <<list, selected, shown, msgLoads>>
    BY <1>2 DEF ServeChats, panelVars
  <2> QED
    BY <1>1, <2>1, OpenStays
<1>3. CASE LoseChats
  BY <1>3 DEF LoseChats, Loses, OpenInv, Undisturbed
<1>4. ASSUME NEW c \in Chat, Select(c) PROVE OpenInv'
  <2>1. Show(c) /\ c # selected
    BY <1>4 DEF Select
  <2> QED
    BY <1>1, <2>1, OpenShow
<1>5. CASE HearChats
  <2>1. PICK items : items = chatLoad.items
    OBVIOUS
  <2>2. PICK c \in IF selected \in Listed(items) THEN {selected}
                   ELSE IF Listed(items) = {} THEN {NoChat} ELSE Listed(items) : Show(c)
    BY <1>5, <2>1 DEF HearChats
  <2>3. c \in Chat \cup {NoChat}
    BY <2>2 DEF Listed
  <2>4. ASSUME c = selected, selected \in Chat, Undisturbed' PROVE list'[selected] = list[selected]
    <3>1. selected \in Listed(items)
      BY <2>2, <2>4, PageIsTyped
    <3>2. items[selected] = list[selected]
      BY <1>5, <2>1, <2>4, <3>1 DEF HearChats, Undisturbed
    <3> QED
      BY <1>5, <2>1, <3>2 DEF HearChats
  <2> QED
    BY <1>1, <2>2, <2>3, <2>4, OpenShow
<1> QED
  BY <1>2, <1>3, <1>4, <1>5

LEMMA OpenEvents ==
    ASSUME PageTypeOK, PageTypeOK', CountsInv, OpenInv, [Next]_vars, HearUnread \/ HearAdded \/ HearRemoved
    PROVE  OpenInv'
<1>1. CASE HearAdded
  <2>1. UNCHANGED <<rows, list, selected, shown, msgLoads, patches, sends>>
    BY <1>1 DEF HearAdded, Arrives, panelVars, callVars
  <2>2. NewsToCome => NewsToCome'
    BY <1>1, NewsStay DEF HearAdded
  <2> QED
    BY <2>1, <2>2, OpenStays
<1>2. CASE HearRemoved
  <2>1. Arrives("removed")
    BY <1>2 DEF HearRemoved
  <2>2. PICK d \in Chat : d = Head(events).chat
    BY <2>1, ArrivesTyped
  <2>3. PICK c \in Chat \cup {NoChat} : c = IF selected = d THEN NoChat ELSE selected
    BY DEF PageTypeOK
  <2>4. Show(c) /\ list' = [list EXCEPT ![d] = Absent] /\ UNCHANGED <<rows, patches, sends>>
    BY <1>2, <2>1, <2>2, <2>3 DEF HearRemoved, Arrives, callVars
  <2>5. NewsToCome => NewsToCome'
    BY <2>1, NewsStay
  <2>6. c = selected /\ selected \in Chat => list'[selected] = list[selected]
    BY <2>3, <2>4, PageIsTyped DEF PageTypeOK, List
  <2> QED
    BY <2>4, <2>5, <2>6, OpenShow
<1>3. CASE HearUnread
  <2>1. CASE IsNews(Head(events).counts)
    <3>1. AskMessages(selected) /\ selected \in Chat
      BY <1>3, <2>1 DEF HearUnread, IsNews, PageTypeOK
    <3> QED
      BY <3>1, AskedNotYet DEF OpenInv
  <2>2. CASE ~IsNews(Head(events).counts)
    <3> SUFFICES ASSUME Undisturbed' PROVE InStep'
      BY DEF OpenInv
    <3>1. UNCHANGED <<selected, msgLoads>>
      BY <1>3, <2>2 DEF HearUnread
    <3>2. Undisturbed
      BY <3>1, Disturbs
    <3>3. selected # NoChat /\ "lost" \notin mishaps /\ InStep
      BY <3>2 DEF Undisturbed, OpenInv
    <3> QED
      BY <1>3, <2>2, <3>3, NoNewsInStep
  <2> QED
    BY <2>1, <2>2
<1> QED
  BY <1>1, <1>2, <1>3

LEMMA OpenMessages ==
    ASSUME PageTypeOK, PageTypeOK', StoredInv, StoredInv', LoadsInv', PanelInv', OpenInv, [Next]_vars,
           NEW i \in DOMAIN msgLoads, ServeMessages(i) \/ HearMessages(i) \/ LoseMessages(i)
    PROVE  OpenInv'
<1> SUFFICES ASSUME Undisturbed' PROVE InStep'
  BY DEF OpenInv
<1>1. CASE ServeMessages(i)
  BY <1>1, ServeInStep
<1>2. CASE LoseMessages(i)
  BY <1>2 DEF LoseMessages, Loses, Undisturbed
<1>3. CASE HearMessages(i)
  <2>1. i = 1
    <3>1. i \in Nat /\ i >= 1
      BY LenProperties DEF PageTypeOK
    <3>2. ~(i > 1)
      BY <1>3 DEF HearMessages, Happens, Undisturbed
    <3> QED
      BY <3>1, <3>2
  <2>2. /\ msgLoads[1].pc # "asked" /\ shown' = msgLoads[1].items /\ msgLoads' = RemoveAt(msgLoads, 1)
        /\ selected' = selected /\ chats' = chats
    BY <1>3, <2>1 DEF HearMessages, serverVars
  <2>3. Coming' = Coming
    BY <2>1, <2>2, FirstHeard
  <2>4. Undisturbed
    BY <2>2, <2>3, MishapsGrow DEF Undisturbed
  <2>5. InStep
    BY <2>4 DEF OpenInv
  <2> QED
    BY <1>3, <2>1, <2>5, HearInStep
<1> QED
  BY <1>1, <1>2, <1>3

LEMMA OpenCalls ==
    ASSUME PageTypeOK, PageTypeOK', StoredInv, PanelInv, OpenInv, [Next]_vars,
           \/ \E m \in Msg : Mark(m) \/ ServePatch(m) \/ FailPatch(m)
           \/ \E m \in Own : Send(m) \/ ServeSend(m) \/ HearSend(m) \/ FailSend(m)
    PROVE  OpenInv'
<1>1. ASSUME UNCHANGED <<selected, msgLoads>>, Undisturbed' PROVE Undisturbed /\ InStep
  BY <1>1, Disturbs DEF OpenInv
<1>2. ASSUME NEW m \in Msg, Mark(m) PROVE OpenInv'
  <2>1. UNCHANGED <<selected, msgLoads>>
    BY <1>2 DEF Mark
  <2> QED
    BY <1>1, <1>2, <2>1, MarkInStep DEF OpenInv
<1>3. ASSUME NEW m \in Msg, ServePatch(m) PROVE OpenInv'
  <2>1. UNCHANGED <<selected, msgLoads>>
    BY <1>3 DEF ServePatch, panelVars
  <2> QED
    BY <1>1, <1>3, <2>1, PatchInStep DEF OpenInv
<1>4. ASSUME NEW m \in Msg, FailPatch(m) PROVE OpenInv'
  <2>1. PICK c \in Chat : AskMessages(c)
    BY <1>4 DEF FailPatch, PageTypeOK
  <2> QED
    BY <2>1, AskedNotYet DEF OpenInv
<1>5. ASSUME NEW m \in Own, Send(m) PROVE OpenInv'
  <2>1. UNCHANGED <<rows, due, events, list, selected, shown, msgLoads, patches>>
    BY <1>5 DEF Send, serverVars, listVars, panelVars
  <2>2. \A o \in Own : sends[o] = "served" => sends'[o] = "served"
    BY <1>5 DEF Send, PageTypeOK
  <2>3. NewsToCome => NewsToCome'
    BY <2>1 DEF NewsToCome
  <2> QED
    BY <2>1, <2>2, <2>3, OpenStays
<1>6. ASSUME NEW m \in Own, ServeSend(m) PROVE OpenInv'
  <2>1. /\ UNCHANGED <<list, selected, shown, msgLoads, patches>> /\ m \in Msg
        /\ rows[m] = "none" /\ rows' = [rows EXCEPT ![m] = "read"]
        /\ sends' = [sends EXCEPT ![m] = "served"] /\ due' = due \cup {<<"unread">>}
    BY <1>6, PageIsTyped DEF ServeSend, Post, listVars, panelVars
  <2>2. \A o \in Own : sends'[o] = IF o = m THEN "served" ELSE sends[o]
    BY <2>1 DEF PageTypeOK
  <2>3. View[m] = "no"
    BY <2>1, UnstoredUnseen
  <2>4. \A o \in Msg : \/ rows'[o] = rows[o]
                       \/ rows[o] # "gone" /\ View[o] = "no" /\ o \in Own /\ sends'[o] = "served"
    <3>1. \A o \in Msg : o # m => rows'[o] = rows[o]
      BY <2>1 DEF PageTypeOK
    <3>2. sends'[m] = "served" /\ rows[m] # "gone"
      BY <2>1, <2>2
    <3> QED
      BY <2>3, <3>1, <3>2
  <2>5. NewsToCome'
    BY <2>1 DEF NewsToCome
  <2> QED
    BY <2>1, <2>2, <2>4, <2>5, OpenStays
<1>7. ASSUME NEW m \in Own, HearSend(m) PROVE OpenInv'
  <2> SUFFICES ASSUME Undisturbed' PROVE InStep'
    BY DEF OpenInv
  <2>1. UNCHANGED <<selected, msgLoads>> /\ sends[m] = "served" /\ msgLoads = <<>>
    BY <1>7 DEF HearSend, Happens, Undisturbed
  <2>2. Undisturbed /\ InStep
    BY <1>1, <2>1
  <2>3. ChatOf[m] = selected
    BY <2>1, <2>2 DEF PanelInv, Undisturbed
  <2> QED
    BY <1>7, <2>1, <2>2, <2>3, SendInStep
<1>8. ASSUME NEW m \in Own, FailSend(m) PROVE OpenInv'
  <2>1. UNCHANGED <<rows, due, events, list, selected, shown, msgLoads, patches>>
    BY <1>8 DEF FailSend, serverVars, listVars, panelVars
  <2>2. \A o \in Own : sends[o] = "served" => sends'[o] = "served" \/ ~Undisturbed'
    BY <1>8 DEF FailSend, Loses, Undisturbed, PageTypeOK
  <2>3. NewsToCome => NewsToCome'
    BY <2>1 DEF NewsToCome
  <2> QED
    BY <2>1, <2>2, <2>3, OpenStays
<1> QED
  BY <1>2, <1>3, <1>4, <1>5, <1>6, <1>7, <1>8

LEMMA OpenStep ==
    ASSUME PageInv, PageInv', StoredInv, StoredInv', CountsInv, OpenInv, [Next]_vars
    PROVE  OpenInv'
<1>1. PageTypeOK /\ PageTypeOK' /\ PanelInv /\ PanelInv' /\ LoadsInv'
  BY DEF PageInv
<1>2. CASE UNCHANGED vars
  <2>1. UNCHANGED <<rows, due, events, list, selected, shown, msgLoads, patches, sends>>
    BY <1>2 DEF vars, serverVars, listVars, panelVars, callVars
  <2>2. NewsToCome => NewsToCome'
    BY <2>1 DEF NewsToCome
  <2> QED
    BY <1>1, <2>1, <2>2, OpenStays
<1> QED
  BY <1>1, <1>2, OpenServer, OpenPurge, OpenTick, OpenChats, OpenEvents, OpenMessages, OpenCalls DEF Next

LEMMA CompleteInit == Init => CompleteInv
<1> SUFFICES ASSUME Init PROVE CompleteInv
  OBVIOUS
<1>1. StoredInv
  BY DEF Init, StoredInv, EmptyPanel
<1>2. CountsInv /\ OpenInv
  BY DEF Init, CountsInv, OpenInv, Undisturbed
<1> QED
  BY <1>1, <1>2 DEF CompleteInv

LEMMA CompleteStep == PageInv /\ PageInv' /\ CompleteInv /\ [Next]_vars => CompleteInv'
BY StoredStep, CountsStep, OpenStep DEF PageInv, CompleteInv

\* When the last call is answered and the last event handled, every message of the
\* open chat that is not purged is in its panel, for any number of messages, events and calls, if
\* nothing was lost or went out of order, see Mishap: counts that are the same as
\* the list's never hide a message (loadMessages, handleChatUnread, handleMarkMessageRead).
THEOREM OpenChatFills == Spec => []OpenChatIsComplete
<1>1. PageInv /\ CompleteInv => OpenChatIsComplete
  <2> SUFFICES ASSUME PageInv, CompleteInv,
                      due = {}, events = <<>>, msgLoads = <<>>, mishaps = {}, InView # NoChat,
                      NEW m \in Msg, ChatOf[m] = selected, Stored(m), shown[m] = "no"
               PROVE  m \in Own /\ sends[m] = "served"
    BY DEF OpenChatIsComplete
  <2>1. selected # NoChat /\ selected \in Chat /\ list[selected] # Absent
    BY DEF InView, Listed
  <2>2. chats[selected] # "removed"
    BY <2>1 DEF PageInv, RemovedInv, Heard, Out
  <2>3. Undisturbed
    BY <2>1, <2>2 DEF Undisturbed, Coming
  <2>4. ~NewsToCome /\ View = shown
    BY DEF NewsToCome, View
  <2> QED
    BY <2>3, <2>4 DEF CompleteInv, OpenInv, InStep
<1>2. Spec => []CompleteInv
  BY InvAlways, CompleteInit, CompleteStep, PTL DEF Spec
<1> QED
  BY <1>1, <1>2, InvAlways, PTL
=============================================================================
