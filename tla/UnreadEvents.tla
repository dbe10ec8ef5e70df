---------------------------- MODULE UnreadEvents ----------------------------
(***************************************************************************)
(* How one user, the viewer, learns of his unread counts.  A handler that  *)
(* posts a message or marks one read commits, answers, and only then tells *)
(* the members of the chat: each is sent the counts of all his chats,      *)
(* which a query of its own reads.  Several handlers are at it at once.    *)
(*                                                                         *)
(* An event is written in one step here; how writes get past the lock of   *)
(* the registry is in Hub, how messages and unread rows come about in      *)
(* ChatStore, and what the page makes of the events in ChatsPage.          *)
(***************************************************************************)
EXTENDS Naturals, FiniteSets, Sequences

CONSTANTS
    Chat,
    Msg,        \* messages that others may post: a bound
    ChatOf,     \* [Msg -> Chat]
    Expiring,   \* those of them that the purge may find expired: a bound
    InFlight    \* events in the connection: a bound

ASSUME MessagesAreTyped ==
    /\ IsFiniteSet(Msg)
    /\ ChatOf \in [Msg -> Chat]
    /\ Expiring \subseteq Msg

VARIABLES
    member,     \* the chats the viewer is in
    rows,       \* messages, and whether the viewer has an unread row; of those
                \* that are purged, whether he had one ("lapsed") or not ("gone")
    notes,      \* notifyChatUnread, named for the change it follows
    socket,     \* the viewer's connection, with the events in it
    heard,      \* the counts of the last event the page was given
    latest,     \* the last change that a sent event knows of; for checking
    stale       \* an event was lost or overtaken, and none that knows of all
                \* changes has been sent since; for checking

eventVars == <<member, rows, notes, socket, heard, latest, stale>>

Counts == [Chat -> Nat]

NoCounts == [c \in Chat |-> 0]

Note == Msg \X {"post", "read"}

NoteRecord == [pc : {"none", "due", "members", "counted"}, counts : Counts, at : Nat]

NoNote == [pc |-> "none", counts |-> NoCounts, at |-> 0]

EventInit ==
    /\ member = Chat
    /\ rows = [m \in Msg |-> "none"]
    /\ notes = [n \in Note |-> NoNote]
    /\ socket = [up |-> FALSE, queue |-> <<>>]
    /\ heard = NoCounts
    /\ latest = 0
    /\ stale = FALSE

UnreadCounts == [c \in Chat |-> Cardinality({m \in Msg : ChatOf[m] = c /\ rows[m] = "unread"})]

\* The unread messages and those that were purged unread.
WithLapsed == [c \in Chat |-> Cardinality({m \in Msg : ChatOf[m] = c /\ rows[m] \in {"unread", "lapsed"}})]

Stored(m) == rows[m] \in {"unread", "read"}

\* How many changes the unread rows have been through.
Changes == Cardinality({m \in Msg : rows[m] # "none"})
           + Cardinality({m \in Msg : rows[m] \notin {"none", "unread"}})

Under(n) == notes[n].pc # "none"

-----------------------------------------------------------------------------
(* Changes.                                                                *)

Due(n) == notes' = [notes EXCEPT ![n].pc = "due"]

\* POST /message by another member: an unread row for the viewer, too.
Post(m) ==
    /\ rows[m] = "none" /\ ChatOf[m] \in member
    /\ rows' = [rows EXCEPT ![m] = "unread"]
    /\ Due(<<m, "post">>)
    /\ UNCHANGED <<member, socket, heard, latest, stale>>

\* Mutant: nobody is told of a message that is read.
ReadQuietly(m) ==
    /\ Stored(m) /\ ChatOf[m] \in member /\ ~Under(<<m, "read">>)
    /\ rows' = [rows EXCEPT ![m] = "read"]
    /\ UNCHANGED <<member, notes, socket, heard, latest, stale>>

\* PATCH /message/{id} by the viewer, who may have read it before; it is refused
\* once the message is purged.  The bound is that the notification of the last
\* time is over.
Read(m) ==
    /\ Stored(m) /\ ChatOf[m] \in member /\ ~Under(<<m, "read">>)
    /\ rows' = [rows EXCEPT ![m] = "read"]
    /\ Due(<<m, "read">>)
    /\ UNCHANGED <<member, socket, heard, latest, stale>>

\* The viewer is removed, and his unread rows with him, which no event tells
\* the counts of.
Remove(c) ==
    /\ c \in member
    /\ member' = member \ {c}
    /\ rows' = [m \in Msg |-> IF ChatOf[m] = c /\ rows[m] = "unread" THEN "read" ELSE rows[m]]
    /\ UNCHANGED <<notes, socket, heard, latest, stale>>

\* A run of the purge: messages that have expired go, their unread rows with
\* them, and no event tells the counts of it.
Purge(S) ==
    /\ S # {} /\ \A m \in S : Stored(m)
    /\ rows' = [m \in Msg |-> IF m \notin S THEN rows[m]
                              ELSE IF rows[m] = "unread" THEN "lapsed" ELSE "gone"]
    /\ UNCHANGED <<member, notes, socket, heard, latest, stale>>

-----------------------------------------------------------------------------
(* notifyChatUnread.                                                       *)

\* The first query: who is in the chat by now.
ReadMembers(n) ==
    /\ notes[n].pc = "due"
    /\ notes' = [notes EXCEPT ![n].pc = IF ChatOf[n[1]] \in member THEN "members" ELSE "none"]
    /\ UNCHANGED <<member, rows, socket, heard, latest, stale>>

\* Mutant: only the chat the event is about is counted.
ReadCountOfChat(n) ==
    /\ notes[n].pc = "members"
    /\ LET c == ChatOf[n[1]]
       IN notes' = [notes EXCEPT ![n] = [pc |-> "counted", at |-> Changes,
                                         counts |-> [NoCounts EXCEPT ![c] = UnreadCounts[c]]]]
    /\ UNCHANGED <<member, rows, socket, heard, latest, stale>>

\* The query for the viewer: all his chats with unread rows.
ReadCounts(n) ==
    /\ notes[n].pc = "members"
    /\ notes' = [notes EXCEPT ![n] = [pc |-> "counted", counts |-> UnreadCounts, at |-> Changes]]
    /\ UNCHANGED <<member, rows, socket, heard, latest, stale>>

\* A query fails, or is cancelled because the client that made the request
\* has gone away.
Skip(n) ==
    /\ notes[n].pc \in {"due", "members"}
    /\ notes' = [notes EXCEPT ![n] = NoNote]
    /\ stale' = TRUE
    /\ UNCHANGED <<member, rows, socket, heard, latest>>

\* An event for a viewer who is not connected is lost.
SendCounts(n) ==
    /\ notes[n].pc = "counted"
    /\ Len(socket.queue) < InFlight
    /\ notes' = [notes EXCEPT ![n] = NoNote]
    /\ socket' = IF socket.up THEN [socket EXCEPT !.queue = Append(@, notes[n].counts)] ELSE socket
    /\ latest' = IF notes[n].at > latest THEN notes[n].at ELSE latest
    /\ stale' = (~socket.up \/ notes[n].at < latest \/ (stale /\ notes[n].at # Changes))
    /\ UNCHANGED <<member, rows, heard>>

-----------------------------------------------------------------------------
(* The connection.                                                         *)

Connect ==
    /\ ~socket.up
    /\ socket' = [socket EXCEPT !.up = TRUE]
    /\ UNCHANGED <<member, rows, notes, heard, latest, stale>>

\* Mutant: events of a broken connection are kept.
DropKeepingEvents ==
    /\ socket.up
    /\ socket' = [socket EXCEPT !.up = FALSE]
    /\ stale' = (stale \/ socket.queue # <<>>)
    /\ UNCHANGED <<member, rows, notes, heard, latest>>

\* It breaks, or the page replaces it after a token refresh; nothing is sent
\* again to the next one.
Drop ==
    /\ socket.up
    /\ socket' = [up |-> FALSE, queue |-> <<>>]
    /\ stale' = (stale \/ socket.queue # <<>>)
    /\ UNCHANGED <<member, rows, notes, heard, latest>>

\* useChatSocket hands the next event to the page.
Deliver ==
    /\ socket.queue # <<>>
    /\ heard' = Head(socket.queue)
    /\ socket' = [socket EXCEPT !.queue = Tail(@)]
    /\ UNCHANGED <<member, rows, notes, latest, stale>>

-----------------------------------------------------------------------------

EventNext ==
    \/ \E m \in Msg : Post(m) \/ Read(m)
    \/ \E c \in Chat : Remove(c)
    \/ \E S \in SUBSET Expiring : Purge(S)
    \/ \E n \in Note : ReadMembers(n) \/ ReadCounts(n) \/ Skip(n) \/ SendCounts(n)
    \/ Connect
    \/ Drop
    \/ Deliver

EventSpec == EventInit /\ [][EventNext]_eventVars

\* The server goes on with notifications, a user who is not connected connects,
\* and events arrive.  Strong fairness makes up for the bound InFlight.
EventFairSpec ==
    /\ EventSpec
    /\ WF_eventVars(Connect) /\ WF_eventVars(Deliver)
    /\ \A n \in Note : /\ WF_eventVars(ReadMembers(n) \/ ReadCounts(n))
                       /\ SF_eventVars(SendCounts(n))

-----------------------------------------------------------------------------
(* Properties.                                                             *)

EventTypeOK ==
    /\ member \subseteq Chat
    /\ rows \in [Msg -> {"none", "unread", "read", "lapsed", "gone"}]
    /\ notes \in [Note -> NoteRecord]
    /\ socket \in [up : BOOLEAN, queue : Seq(Counts)]
    /\ ~socket.up => socket.queue = <<>>
    /\ heard \in Counts
    /\ latest \in Nat /\ stale \in BOOLEAN

\* A count of the chat that is wrong at most by messages that were purged unread.
UpToPurges(c, count) == UnreadCounts[c] <= count /\ count <= WithLapsed[c]

\* Once all notifications are over and the page has been given every event, the
\* last counts it was given are the server's for every chat the viewer is in,
\* also for chats the event was not about.  They may be too high by messages that
\* were purged unread, since no event follows a purge, but only if that was after
\* they were read.  Excepted is that an event was lost, its query failed, or one
\* with older counts was sent after one with newer ones, and no event with the
\* counts as they are was sent since (notifyChatUnread, purge_expired_messages).
CountsCatchUp ==
    /\ \A n \in Note : ~Under(n)
    /\ socket.queue = <<>>
    /\ ~stale
    => \A c \in member : /\ UpToPurges(c, heard[c])
                         /\ latest = Changes => heard[c] = UnreadCounts[c]

\* Again and again the viewer knows the counts as they are, but for messages that
\* were purged unread, or has missed an event since: a message that is posted or
\* read while notifications of others are under way does not go by unnoticed
\* (notifyChatUnread after every commit).
CountsArrive ==
    []<>(stale \/ \A c \in member : UpToPurges(c, heard[c]))
=============================================================================
