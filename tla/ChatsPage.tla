------------------------------ MODULE ChatsPage ------------------------------
(***************************************************************************)
(* The viewer's chats page: the list of chats with their unread counts,    *)
(* the chat he has open and its messages, against the calls whose answers  *)
(* arrive in any order and the events of the WebSocket.                    *)
(*                                                                         *)
(* An action is one callback with the effect that a change of the open     *)
(* chat has, which React runs before the next one.  The list's order is    *)
(* left out: any of its chats may come first.  A timer of READ_DELAY_MS    *)
(* may fire whenever its message is in the panel.  Events are counted when *)
(* they are sent; how one overtakes another is in UnreadEvents.            *)
(***************************************************************************)
EXTENDS Naturals, FiniteSets, Sequences, SequencesExt

CONSTANTS
    Chat,
    Msg,        \* messages that may be posted: a bound
    Own,        \* those of them that the viewer sends
    ChatOf,     \* [Msg -> Chat]
    Expiring,   \* messages that the purge may find expired: a bound
    Joined,     \* the chats the viewer is in when the page opens
    InFlight,   \* events in the connection: a bound
    MsgLoads,   \* calls of loadMessages under way at a time: a bound
    NoChat, Absent

ASSUME PageIsTyped ==
    /\ IsFiniteSet(Msg) /\ Own \subseteq Msg /\ Expiring \subseteq Msg /\ ChatOf \in [Msg -> Chat]
    /\ NoChat \notin Chat /\ Absent \notin Nat

VARIABLES
    chats,      \* server: the viewer's part in each chat
    rows,       \* server: messages, and whether the viewer has an unread row,
                \* or "gone" once they are purged
    due,        \* server: notifications to come
    events,     \* in the WebSocket
    list,       \* chats: the unread count of each chat, or Absent
    selected,   \* selectedChatId
    shown,      \* messages: those in the panel, and whether they are marked unread
    marked,     \* markedRef
    chatLoad,   \* the call of loadChats; there is one at a time: a bound
    msgLoads,   \* the calls of loadMessages, oldest first
    patches,    \* the calls of markMessageRead: the chat that was open
    sends,      \* the calls of createMessage
    mishaps     \* what has gone out of order; for checking

serverVars == <<chats, rows, due, events>>

listVars == <<list, chatLoad>>

panelVars == <<selected, shown, marked, msgLoads>>

callVars == <<patches, sends>>

vars == <<serverVars, listVars, panelVars, callVars, mishaps>>

\* Notifications that handlers have to make after their commits: those with the
\* counts are not told apart.
Note == {<<"unread">>} \cup ({"added", "removed"} \X Chat)

Counts == [Chat -> 0..Cardinality(Msg)]

Event == [type : {"unread"}, counts : Counts] \cup [type : {"added", "removed"}, chat : Chat]

List == [Chat -> {Absent} \cup 0..Cardinality(Msg)]

EmptyList == [c \in Chat |-> Absent]

Panel == [Msg -> {"no", "unread", "read"}]

EmptyPanel == [m \in Msg |-> "no"]

ChatLoad == [pc : {"none", "asked", "served"}, items : List]

NoChatLoad == [pc |-> "none", items |-> EmptyList]

MsgLoad == [pc : {"asked", "served", "failed"}, chat : Chat, items : Panel]

Asked(c) == [pc |-> "asked", chat |-> c, items |-> EmptyPanel]

\* "lost": a call, a notification or an event.  "switched": another chat opens
\* under a call whose answer changes the panel.  "outdated": loadChats answers
\* with a chat that is removed.  "unseen": a message is read on another device; a
\* call of loadMessages overtakes another on either way, or a message just sent;
\* loadChats changes the count of the open chat, or the list still counts messages
\* of it that the viewer had read before he left and opened it again, or that were
\* purged unread.
Mishap == {"lost", "switched", "outdated", "unseen"}

Init ==
    /\ chats = [c \in Chat |-> IF c \in Joined THEN "member" ELSE "none"]
    /\ rows = [m \in Msg |-> "none"]
    /\ due = {}
    /\ events = <<>>
    /\ list = EmptyList
    /\ selected = NoChat
    /\ shown = EmptyPanel
    /\ marked = {}
    /\ chatLoad = [NoChatLoad EXCEPT !.pc = "asked"]
    /\ msgLoads = <<>>
    /\ patches = [m \in Msg |-> NoChat]
    /\ sends = [m \in Own |-> "none"]
    /\ mishaps = {}

Happens(what, if) == mishaps' = IF if THEN mishaps \cup {what} ELSE mishaps

\* What the bound of one loss per behaviour leaves to the network.
Loses == "lost" \notin mishaps /\ mishaps' = mishaps \cup {"lost"}

Listed(l) == {c \in Chat : l[c] # Absent}

\* The panel is on the screen only for a chat of the list.
InView == IF selected \in Listed(list) THEN selected ELSE NoChat

-----------------------------------------------------------------------------
(* The server.                                                             *)

UnreadCounts == [c \in Chat |-> Cardinality({m \in Msg : ChatOf[m] = c /\ rows[m] = "unread"})]

\* Somebody creates a chat with the viewer.
Add(c) ==
    /\ chats[c] = "none"
    /\ chats' = [chats EXCEPT ![c] = "member"]
    /\ due' = due \cup {<<"added", c>>}
    /\ UNCHANGED <<rows, events, listVars, panelVars, callVars, mishaps>>

\* An admin removes the viewer, and his unread rows with him.
RemoveViewer(c) ==
    /\ chats[c] = "member"
    /\ chats' = [chats EXCEPT ![c] = "removed"]
    /\ rows' = [m \in Msg |-> IF ChatOf[m] = c /\ rows[m] = "unread" THEN "read" ELSE rows[m]]
    /\ due' = due \cup {<<"removed", c>>}
    /\ UNCHANGED <<events, listVars, panelVars, callVars, mishaps>>

Stored(m) == rows[m] \in {"unread", "read"}

\* The list may count an unread message of the open chat, which is not being marked.
Counted(m) == ChatOf[m] = InView /\ rows[m] = "unread" /\ patches[m] = NoChat /\ list[selected] # 0

\* A run of the purge: messages that have expired go, their unread rows with
\* them, and nobody is told.
Purge(S) ==
    /\ S # {} /\ \A m \in S : Stored(m)
    /\ rows' = [m \in Msg |-> IF m \in S THEN "gone" ELSE rows[m]]
    /\ Happens("unseen", \E m \in S : Counted(m))
    /\ UNCHANGED <<chats, due, events, listVars, panelVars, callVars>>

Post(m, row) ==
    /\ rows[m] = "none" /\ chats[ChatOf[m]] = "member"
    /\ rows' = [rows EXCEPT ![m] = row]
    /\ due' = due \cup {<<"unread">>}
    /\ UNCHANGED <<chats, events>>

\* Refused once the message is purged.
Read(m) ==
    /\ Stored(m) /\ chats[ChatOf[m]] = "member"
    /\ rows' = [rows EXCEPT ![m] = "read"]
    /\ due' = due \cup {<<"unread">>}
    /\ UNCHANGED <<chats, events>>

OthersPost(m) ==
    /\ Post(m, "unread")
    /\ UNCHANGED <<listVars, panelVars, callVars, mishaps>>

\* The viewer reads a message on another device.
ReadElsewhere(m) ==
    /\ rows[m] = "unread"
    /\ Read(m)
    /\ Happens("unseen", TRUE)
    /\ UNCHANGED <<listVars, panelVars, callVars>>

Sends(e) == Len(events) < InFlight /\ events' = Append(events, e)

\* chat.unread, also when another member has read a message.
NotifyUnread ==
    /\ \E c \in Chat : chats[c] = "member"
    /\ Sends([type |-> "unread", counts |-> UnreadCounts])
    /\ due' = due \ {<<"unread">>}
    /\ UNCHANGED <<chats, rows, listVars, panelVars, callVars, mishaps>>

Notify(n) ==
    /\ n \in due \ {<<"unread">>}
    /\ Sends([type |-> n[1], chat |-> n[2]])
    /\ due' = due \ {n}
    /\ UNCHANGED <<chats, rows, listVars, panelVars, callVars, mishaps>>

\* A notification is not made, or finds no connection.
Skip(n) ==
    /\ n \in due
    /\ Loses
    /\ due' = due \ {n}
    /\ UNCHANGED <<chats, rows, events, listVars, panelVars, callVars>>

\* The connection breaks and takes the events in it along; the next one gets
\* none of them.
Drop ==
    /\ events # <<>>
    /\ Loses
    /\ events' = <<>>
    /\ UNCHANGED <<chats, rows, due, listVars, panelVars, callVars>>

-----------------------------------------------------------------------------
(* The open chat.                                                          *)

AskMessages(c) == Len(msgLoads) < MsgLoads /\ msgLoads' = Append(msgLoads, Asked(c))

\* A call is under way whose answer changes the panel.
Filling == msgLoads # <<>> \/ \E m \in Own : sends[m] \in {"asked", "served"}

\* Mutant: a chat that goes leaves its messages in the panel.
ShowLeavingPanel(c) ==
    /\ selected' = c
    /\ marked' = IF c = selected THEN marked ELSE {}
    /\ UNCHANGED shown
    /\ IF c \in {selected, NoChat} THEN UNCHANGED msgLoads
       ELSE AskMessages(c)

\* setSelectedChatId and the effects of a change: messages of the new chat are
\* asked for, the old ones stay meanwhile; without a chat they go at once.
Show(c) ==
    /\ selected' = c
    /\ marked' = IF c = selected THEN marked ELSE {}
    /\ shown' = IF c = NoChat /\ selected # NoChat THEN EmptyPanel ELSE shown
    /\ IF c \in {selected, NoChat} THEN UNCHANGED msgLoads
       ELSE AskMessages(c)

Switches == selected' # selected /\ Filling

Select(c) ==
    /\ c \in Listed(list) \ {selected}
    /\ Show(c)
    /\ Happens("switched", Filling)
    /\ UNCHANGED <<serverVars, listVars, callVars>>

-----------------------------------------------------------------------------
(* loadChats.                                                              *)

AskChats == chatLoad.pc = "none" /\ chatLoad' = [NoChatLoad EXCEPT !.pc = "asked"]

\* GET /chat: the chats the viewer is in, each with its count.
ServeChats ==
    /\ chatLoad.pc = "asked"
    /\ chatLoad' = [pc |-> "served", items |->
          [c \in Chat |-> IF chats[c] = "member" THEN UnreadCounts[c] ELSE Absent]]
    /\ UNCHANGED <<serverVars, list, panelVars, callVars, mishaps>>

\* The answer replaces the list; an open chat that is not in it gives way to
\* the first that is.
HearChats ==
    LET items == chatLoad.items
        fallback == IF Listed(items) = {} THEN {NoChat} ELSE Listed(items)
    IN /\ chatLoad.pc = "served"
       /\ chatLoad' = NoChatLoad
       /\ list' = items
       /\ \E c \in IF selected \in Listed(items) THEN {selected} ELSE fallback : Show(c)
       /\ mishaps' = mishaps \cup (IF Switches THEN {"switched"} ELSE {})
             \cup (IF selected \in Listed(items) /\ items[selected] # list[selected] THEN {"unseen"} ELSE {})
       /\ UNCHANGED <<serverVars, callVars>>

LoseChats ==
    /\ chatLoad.pc # "none"
    /\ Loses
    /\ chatLoad' = NoChatLoad
    /\ UNCHANGED <<serverVars, list, panelVars, callVars>>

-----------------------------------------------------------------------------
(* loadMessages.                                                           *)

\* The list counts a message of the open chat that is already read, or about to be.
Overcounted ==
    /\ InView # NoChat
    /\ list[selected] > Cardinality({m \in Msg : /\ ChatOf[m] = selected
                                                /\ rows[m] = "unread" /\ patches[m] = NoChat})

\* GET /message: 403 for a viewer who is not in the chat.
ServeMessages(i) ==
    LET c == msgLoads[i].chat
        items == [m \in Msg |-> IF ChatOf[m] = c /\ Stored(m) THEN rows[m] ELSE "no"]
    IN /\ msgLoads[i].pc = "asked"
       /\ msgLoads' = [msgLoads EXCEPT ![i] =
             IF chats[c] = "member" THEN [pc |-> "served", chat |-> c, items |-> items]
             ELSE [Asked(c) EXCEPT !.pc = "failed"]]
       /\ Happens("unseen", Overcounted \/ \E j \in DOMAIN msgLoads : i < j /\ msgLoads[j].pc # "asked")
       /\ UNCHANGED <<serverVars, listVars, selected, shown, marked, callVars>>

\* The answer fills the panel, whatever chat is open by now; that of a call
\* that failed empties it.
HearMessages(i) ==
    /\ msgLoads[i].pc \in {"served", "failed"}
    /\ shown' = msgLoads[i].items
    /\ msgLoads' = RemoveAt(msgLoads, i)
    /\ Happens("unseen", i > 1)
    /\ UNCHANGED <<serverVars, listVars, selected, marked, callVars>>

\* Every 30 seconds the panel drops the messages that have expired.
Tick ==
    /\ InView # NoChat
    /\ shown' = [m \in Msg |-> IF rows[m] = "gone" THEN "no" ELSE shown[m]]
    /\ UNCHANGED <<serverVars, listVars, selected, marked, msgLoads, callVars, mishaps>>

LoseMessages(i) ==
    /\ msgLoads[i].pc # "failed"
    /\ Loses
    /\ msgLoads' = [msgLoads EXCEPT ![i] = [Asked(@.chat) EXCEPT !.pc = "failed"]]
    /\ UNCHANGED <<serverVars, listVars, selected, shown, marked, callVars>>

-----------------------------------------------------------------------------
(* Reading and sending.                                                    *)

\* Mutant: the count may fall below zero.
MarkUnclamped(m) ==
    /\ InView # NoChat /\ m \notin Own
    /\ shown[m] = "unread" /\ m \notin marked /\ patches[m] = NoChat
    /\ marked' = marked \cup {m}
    /\ shown' = [shown EXCEPT ![m] = "read"]
    /\ list' = [list EXCEPT ![selected] = @ - 1]
    /\ patches' = [patches EXCEPT ![m] = selected]
    /\ UNCHANGED <<serverVars, chatLoad, selected, msgLoads, sends, mishaps>>

\* A read timer fires: handleMarkMessageRead.
Mark(m) ==
    /\ InView # NoChat /\ m \notin Own
    /\ shown[m] = "unread" /\ m \notin marked /\ patches[m] = NoChat
    /\ marked' = marked \cup {m}
    /\ shown' = [shown EXCEPT ![m] = "read"]
    /\ list' = [list EXCEPT ![selected] = IF @ = 0 THEN 0 ELSE @ - 1]
    /\ patches' = [patches EXCEPT ![m] = selected]
    /\ UNCHANGED <<serverVars, chatLoad, selected, msgLoads, sends, mishaps>>

ServePatch(m) ==
    /\ patches[m] # NoChat
    /\ Read(m)
    /\ patches' = [patches EXCEPT ![m] = NoChat]
    /\ UNCHANGED <<listVars, panelVars, sends, mishaps>>

Refused(m) == ~Stored(m) \/ chats[ChatOf[m]] # "member"

\* The call is lost, or refused as the message has been purged or the viewer
\* removed: everything is loaded anew.
FailPatch(m) ==
    /\ patches[m] # NoChat
    /\ Refused(m) \/ "lost" \notin mishaps
    /\ AskMessages(patches[m])
    /\ AskChats
    /\ patches' = [patches EXCEPT ![m] = NoChat]
    /\ mishaps' = mishaps \cup (IF Refused(m) THEN {} ELSE {"lost"})
                          \cup (IF patches[m] # selected THEN {"switched"} ELSE {})
    /\ UNCHANGED <<serverVars, list, selected, shown, marked, sends>>

Send(m) ==
    /\ sends[m] = "none" /\ InView = ChatOf[m]
    /\ sends' = [sends EXCEPT ![m] = "asked"]
    /\ UNCHANGED <<serverVars, listVars, panelVars, patches, mishaps>>

ServeSend(m) ==
    /\ sends[m] = "asked"
    /\ Post(m, "read")
    /\ sends' = [sends EXCEPT ![m] = "served"]
    /\ UNCHANGED <<listVars, panelVars, patches, mishaps>>

\* The answer is appended to the panel, whatever chat is open by now.
HearSend(m) ==
    /\ sends[m] = "served"
    /\ sends' = [sends EXCEPT ![m] = "done"]
    /\ shown' = [shown EXCEPT ![m] = "read"]
    /\ list' = [list EXCEPT ![ChatOf[m]] = IF @ = Absent THEN Absent ELSE 0]
    /\ Happens("unseen", msgLoads # <<>>)
    /\ UNCHANGED <<serverVars, chatLoad, selected, marked, msgLoads, patches>>

\* Refused as the viewer has been removed, or lost.
FailSend(m) ==
    /\ sends[m] \in {"asked", "served"}
    /\ \/ sends[m] = "asked" /\ chats[ChatOf[m]] # "member" /\ UNCHANGED mishaps
       \/ Loses
    /\ sends' = [sends EXCEPT ![m] = "done"]
    /\ UNCHANGED <<serverVars, listVars, panelVars, patches>>

-----------------------------------------------------------------------------
(* Events.                                                                 *)

Arrives(type) ==
    /\ events # <<>> /\ Head(events).type = type
    /\ events' = Tail(events)
    /\ UNCHANGED <<chats, rows, due>>

\* What the counts of an event leave of those in the list: the open chat
\* counts as read.
CountsIn(l, counts) ==
    [c \in Chat |-> IF l[c] = Absent THEN Absent ELSE IF c = selected THEN 0 ELSE counts[c]]

\* The counts do not say what the list says of the open chat.
IsNews(counts) ==
    selected # NoChat /\ counts[selected] # (IF InView = NoChat THEN 0 ELSE list[selected])

\* Mutant: a call under way is not repeated.
HearUnreadUnlessLoading ==
    /\ Arrives("unread")
    /\ LET counts == Head(events).counts
       IN /\ IF IsNews(counts) /\ msgLoads = <<>> THEN AskMessages(selected) ELSE UNCHANGED msgLoads
          /\ list' = CountsIn(list, counts)
    /\ UNCHANGED <<chatLoad, selected, shown, marked, callVars, mishaps>>

\* On news of the open chat its messages are loaded again.
HearUnread ==
    /\ Arrives("unread")
    /\ LET counts == Head(events).counts
       IN /\ IF IsNews(counts) THEN AskMessages(selected) ELSE UNCHANGED msgLoads
          /\ list' = CountsIn(list, counts)
    /\ UNCHANGED <<chatLoad, selected, shown, marked, callVars, mishaps>>

HearAdded ==
    /\ Arrives("added")
    /\ AskChats
    /\ UNCHANGED <<list, panelVars, callVars, mishaps>>

\* Mutant: the chat leaves the screen only.
HearRemovedOfOpen ==
    /\ Arrives("removed")
    /\ LET c == Head(events).chat IN Show(IF selected = c THEN NoChat ELSE selected)
    /\ Happens("outdated", chatLoad.pc = "served")
    /\ UNCHANGED <<listVars, callVars>>

\* The chat leaves the list, and the screen if it is open.
HearRemoved ==
    /\ Arrives("removed")
    /\ LET c == Head(events).chat
       IN /\ list' = [list EXCEPT ![c] = Absent]
          /\ Show(IF selected = c THEN NoChat ELSE selected)
    /\ mishaps' = mishaps \cup (IF chatLoad.items[Head(events).chat] # Absent THEN {"outdated"} ELSE {})
                          \cup (IF Switches THEN {"switched"} ELSE {})
    /\ UNCHANGED <<chatLoad, callVars>>

-----------------------------------------------------------------------------

Next ==
    \/ \E c \in Chat : Add(c) \/ RemoveViewer(c) \/ Select(c)
    \/ \E m \in Msg \ Own : OthersPost(m) \/ ReadElsewhere(m)
    \/ \E S \in SUBSET Expiring : Purge(S)
    \/ NotifyUnread
    \/ \E n \in due : Notify(n) \/ Skip(n)
    \/ Drop
    \/ ServeChats \/ HearChats \/ LoseChats
    \/ \E i \in DOMAIN msgLoads : ServeMessages(i) \/ HearMessages(i) \/ LoseMessages(i)
    \/ Tick
    \/ \E m \in Msg : Mark(m) \/ ServePatch(m) \/ FailPatch(m)
    \/ \E m \in Own : Send(m) \/ ServeSend(m) \/ HearSend(m) \/ FailSend(m)
    \/ HearUnread \/ HearAdded \/ HearRemoved

Spec == Init /\ [][Next]_vars

-----------------------------------------------------------------------------
(* Properties.                                                             *)

PageTypeOK ==
    /\ chats \in [Chat -> {"none", "member", "removed"}]
    /\ rows \in [Msg -> {"none", "unread", "read", "gone"}]
    /\ due \subseteq Note
    /\ events \in Seq(Event)
    /\ list \in List
    /\ selected \in Chat \cup {NoChat}
    /\ shown \in Panel
    /\ marked \subseteq Msg
    /\ chatLoad \in ChatLoad
    /\ msgLoads \in Seq(MsgLoad)
    /\ patches \in [Msg -> Chat \cup {NoChat}]
    /\ sends \in [Own -> {"none", "asked", "served", "done"}]
    /\ mishaps \subseteq Mishap

\* If the open chat never changed under a call that fills the panel, messages in
\* the panel are of the open chat once no such call is under way
\* (setSelectedChatId and its effect, loadMessages, handleSendMessage).
PanelIsOfOpenChat ==
    ~Filling /\ "switched" \notin mishaps
    => \A m \in Msg : shown[m] # "no" => ChatOf[m] = selected

\* A chat the viewer was removed from is gone for good once the page has heard
\* of it, whatever he does and is told meanwhile, unless the event was lost or
\* the answer of a loadChats was on its way past it (handleChatRemoved).
RemovedStaysOut ==
    \A c \in Chat :
        /\ chats[c] = "removed"
        /\ <<"removed", c>> \notin due
        /\ \A i \in DOMAIN events : events[i] # [type |-> "removed", chat |-> c]
        /\ mishaps \cap {"lost", "outdated"} = {}
        => list[c] = Absent /\ selected # c

\* Once everything is answered and every event handled, the panel of the open
\* chat has each of the chat's messages that are not purged, if no call and no
\* event was lost, and nothing else has gone out of order, see Mishap
\* (handleChatUnread, which compares two counts to decide whether to load messages).
OpenChatIsComplete ==
    /\ due = {} /\ events = <<>> /\ msgLoads = <<>> /\ chatLoad.pc = "none"
    /\ mishaps = {}
    /\ InView # NoChat
    => \A m \in Msg : ChatOf[m] = selected /\ Stored(m) =>
          shown[m] # "no" \/ (m \in Own /\ sends[m] = "served")
=============================================================================
