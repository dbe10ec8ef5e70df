-------------------------------- MODULE Hub --------------------------------
(***************************************************************************)
(* The hub: the registry of WebSocket connections, the RWMutex it is       *)
(* under, and the goroutines that take it.  A connection has a goroutine   *)
(* that registers it, reads from it, answers heartbeats and unregisters    *)
(* it; a notification runs in a goroutine of its own and writes to every   *)
(* connection of a user under the read lock.                               *)
(*                                                                         *)
(* Writes have no deadline and block while the peer does not read.         *)
(* gorilla/websocket allows one writer on a connection at a time.  A       *)
(* writer sets isWriting and clears it again without a lock, and panics if *)
(* it finds that another one is at it; what it finds is a race.  net/http  *)
(* recovers from a panic in a request's goroutine; one in a connection's   *)
(* goroutine ends the process.                                             *)
(***************************************************************************)
EXTENDS Naturals, FiniteSets

CONSTANTS
    User,
    Conn,       \* connections open at once: a bound
    Notifier,   \* notifications under way at once: a bound
    NoConn      \* not a connection

ASSUME NoConnIsNone == NoConn \notin Conn
ASSUME ConnIsFinite == IsFiniteSet(Conn)

VARIABLES
    conns,      \* the registry: the connections of each user
    total,      \* the number of registered connections
    pc,         \* where each connection's goroutine is
    owner,      \* the user each connection was authenticated as
    peer,       \* what the other end does: "stalled" means the buffers are full
    isWriting,  \* gorilla/websocket's mark of a connection with a writer
    notifiers,  \* the notifications
    writer      \* the connection whose goroutine holds the write lock or is the
                \* next to get it; NoConn if none

vars == <<conns, total, pc, owner, peer, isWriting, notifiers, writer>>

ConnPC == {"none", "register", "registering", "read", "ack", "acking",
           "unregister", "unregistering", "close"}

Notification == [pc : {"idle", "rlock", "parked", "holding", "writing"},
                 user : User, left : SUBSET Conn, to : Conn \cup {NoConn}]

Registered == UNION {conns[u] : u \in User}

\* The notifications that hold the read lock.
Readers == {n \in Notifier : notifiers[n].pc \in {"holding", "writing"}}

Init ==
    /\ conns = [u \in User |-> {}]
    /\ total = 0
    /\ pc = [c \in Conn |-> "none"]
    /\ owner \in [Conn -> User]
    /\ peer = [c \in Conn |-> "gone"]
    /\ isWriting = [c \in Conn |-> FALSE]
    /\ notifiers \in [Notifier ->
           {[pc |-> "idle", user |-> u, left |-> {}, to |-> NoConn] : u \in User}]
    /\ writer = NoConn

Goto(c, label) == pc' = [pc EXCEPT ![c] = label]

-----------------------------------------------------------------------------
(* The RWMutex.  Lock is two steps: the goroutine becomes the next writer, *)
(* which keeps new readers out, and then waits for the readers that are    *)
(* in.  Unlock lets in the readers that have waited.                       *)

AnnounceLock(c, from, to) ==
    /\ pc[c] = from
    /\ writer = NoConn
    /\ writer' = c
    /\ Goto(c, to)
    /\ UNCHANGED <<conns, total, owner, peer, isWriting, notifiers>>

\* The readers that waited start on the registry as the writer leaves it.
Unlock ==
    /\ writer' = NoConn
    /\ notifiers' = [n \in Notifier |->
           IF notifiers[n].pc = "parked"
           THEN [notifiers[n] EXCEPT !.pc = "holding", !.left = conns'[notifiers[n].user]]
           ELSE notifiers[n]]

-----------------------------------------------------------------------------
(* A connection's goroutine.                                               *)

Connect(c, u) ==
    /\ pc[c] = "none"
    /\ Goto(c, "register")
    /\ owner' = [owner EXCEPT ![c] = u]
    /\ peer' = [peer EXCEPT ![c] = "reading"]
    /\ isWriting' = [isWriting EXCEPT ![c] = FALSE]
    /\ UNCHANGED <<conns, total, notifiers, writer>>

Register(c) ==
    /\ pc[c] = "registering" /\ Readers = {}
    /\ conns' = [conns EXCEPT ![owner[c]] = @ \cup {c}]
    /\ total' = IF c \in conns[owner[c]] THEN total ELSE total + 1
    /\ Unlock
    /\ Goto(c, "read")
    /\ UNCHANGED <<owner, peer, isWriting>>

\* Anything else the peer sends is read and ignored.
ReadHeartbeat(c) ==
    /\ pc[c] = "read"
    /\ Goto(c, "ack")
    /\ UNCHANGED <<conns, total, owner, peer, isWriting, notifiers, writer>>

\* Mutant: the loop goes on after an error.
ReadErrorIgnored(c) ==
    /\ pc[c] = "read"
    /\ UNCHANGED vars

\* The peer is gone, or it sent a close frame or something malformed.
ReadError(c) ==
    /\ pc[c] = "read"
    /\ Goto(c, "unregister")
    /\ UNCHANGED <<conns, total, owner, peer, isWriting, notifiers, writer>>

\* Also when isWriting is set: the race may go unnoticed.
BeginAck(c) ==
    /\ pc[c] = "ack"
    /\ Goto(c, "acking")
    /\ isWriting' = [isWriting EXCEPT ![c] = TRUE]
    /\ UNCHANGED <<conns, total, owner, peer, notifiers, writer>>

\* The write has an error if the peer is gone, and that ends the loop.
EndAck(c) ==
    /\ pc[c] = "acking"
    /\ \/ peer[c] = "reading" /\ Goto(c, "read")
       \/ peer[c] = "gone" /\ Goto(c, "unregister")
    /\ isWriting' = [isWriting EXCEPT ![c] = FALSE]
    /\ UNCHANGED <<conns, total, owner, peer, notifiers, writer>>

\* The panic ends the process; nothing of its state outlives it.
CrashInAck(c) ==
    /\ \/ pc[c] = "ack" /\ isWriting[c]
       \/ pc[c] = "acking" /\ peer[c] # "stalled" /\ ~isWriting[c]
    /\ conns' = [u \in User |-> {}]
    /\ total' = 0
    /\ pc' = [d \in Conn |-> "none"]
    /\ peer' = [d \in Conn |-> "gone"]
    /\ isWriting' = [d \in Conn |-> FALSE]
    /\ notifiers' = [n \in Notifier |->
           [notifiers[n] EXCEPT !.pc = "idle", !.left = {}, !.to = NoConn]]
    /\ writer' = NoConn
    /\ UNCHANGED owner

\* Mutant: the count is left as it is.
UnregisterUncounted(c) ==
    /\ pc[c] = "unregistering" /\ Readers = {}
    /\ conns' = [conns EXCEPT ![owner[c]] = @ \ {c}]
    /\ Unlock
    /\ Goto(c, "close")
    /\ UNCHANGED <<total, owner, peer, isWriting>>

\* Mutant: the readers are not waited for.
UnregisterUnlocked(c) ==
    /\ pc[c] = "unregistering"
    /\ conns' = [conns EXCEPT ![owner[c]] = @ \ {c}]
    /\ total' = IF c \in conns[owner[c]] THEN total - 1 ELSE total
    /\ Unlock
    /\ Goto(c, "close")
    /\ UNCHANGED <<owner, peer, isWriting>>

Unregister(c) ==
    /\ pc[c] = "unregistering" /\ Readers = {}
    /\ conns' = [conns EXCEPT ![owner[c]] = @ \ {c}]
    /\ total' = IF c \in conns[owner[c]] THEN total - 1 ELSE total
    /\ Unlock
    /\ Goto(c, "close")
    /\ UNCHANGED <<owner, peer, isWriting>>

Close(c) ==
    /\ pc[c] = "close"
    /\ Goto(c, "none")
    /\ peer' = [peer EXCEPT ![c] = "gone"]
    /\ UNCHANGED <<conns, total, owner, isWriting, notifiers, writer>>

-----------------------------------------------------------------------------
(* The other end of a connection.                                          *)

Stall(c) ==
    /\ peer[c] = "reading"
    /\ peer' = [peer EXCEPT ![c] = "stalled"]
    /\ UNCHANGED <<conns, total, pc, owner, isWriting, notifiers, writer>>

Resume(c) ==
    /\ peer[c] = "stalled"
    /\ peer' = [peer EXCEPT ![c] = "reading"]
    /\ UNCHANGED <<conns, total, pc, owner, isWriting, notifiers, writer>>

Leave(c) ==
    /\ peer[c] # "gone"
    /\ peer' = [peer EXCEPT ![c] = "gone"]
    /\ UNCHANGED <<conns, total, pc, owner, isWriting, notifiers, writer>>

-----------------------------------------------------------------------------
(* A notification.                                                         *)

Goes(n, next) ==
    /\ notifiers' = [notifiers EXCEPT ![n] = next]
    /\ UNCHANGED <<conns, total, pc, owner, peer, writer>>

Notify(n, u) ==
    /\ notifiers[n].pc = "idle"
    /\ Goes(n, [notifiers[n] EXCEPT !.pc = "rlock", !.user = u])
    /\ UNCHANGED isWriting

RLock(n) ==
    /\ notifiers[n].pc = "rlock"
    /\ Goes(n, IF writer = NoConn
               THEN [notifiers[n] EXCEPT !.pc = "holding", !.left = conns[notifiers[n].user]]
               ELSE [notifiers[n] EXCEPT !.pc = "parked"])
    /\ UNCHANGED isWriting

\* Also when isWriting is set: the race may go unnoticed.
BeginSend(n, c) ==
    /\ notifiers[n].pc = "holding"
    /\ c \in notifiers[n].left
    /\ Goes(n, [notifiers[n] EXCEPT !.pc = "writing", !.to = c])
    /\ isWriting' = [isWriting EXCEPT ![c] = TRUE]

\* Mutant: a write that failed is tried again.
EndSendRetrying(n) ==
    /\ notifiers[n].pc = "writing"
    /\ \/ /\ peer[notifiers[n].to] = "reading"
          /\ Goes(n, [notifiers[n] EXCEPT !.pc = "holding", !.left = @ \ {notifiers[n].to},
                                          !.to = NoConn])
          /\ isWriting' = [isWriting EXCEPT ![notifiers[n].to] = FALSE]
       \/ peer[notifiers[n].to] = "gone" /\ UNCHANGED vars

\* The write's error, if the peer is gone, is ignored.
EndSend(n) ==
    /\ notifiers[n].pc = "writing"
    /\ peer[notifiers[n].to] # "stalled"
    /\ Goes(n, [notifiers[n] EXCEPT !.pc = "holding", !.left = @ \ {notifiers[n].to},
                                    !.to = NoConn])
    /\ isWriting' = [isWriting EXCEPT ![notifiers[n].to] = FALSE]

\* The panic unlocks on its way out and ends the notification.
PanicInSend(n) ==
    /\ \/ notifiers[n].pc = "holding" /\ \E c \in notifiers[n].left : isWriting[c]
       \/ /\ notifiers[n].pc = "writing"
          /\ peer[notifiers[n].to] # "stalled" /\ ~isWriting[notifiers[n].to]
    /\ Goes(n, [notifiers[n] EXCEPT !.pc = "idle", !.left = {}, !.to = NoConn])
    /\ UNCHANGED isWriting

RUnlock(n) ==
    /\ notifiers[n].pc = "holding"
    /\ notifiers[n].left = {}
    /\ Goes(n, [notifiers[n] EXCEPT !.pc = "idle"])
    /\ UNCHANGED isWriting

-----------------------------------------------------------------------------
ConnStep(c) ==
    \/ AnnounceLock(c, "register", "registering") \/ Register(c)
    \/ BeginAck(c) \/ CrashInAck(c) \/ EndAck(c)
    \/ AnnounceLock(c, "unregister", "unregistering") \/ Unregister(c) \/ Close(c)

NotifierStep(n) ==
    \/ RLock(n) \/ EndSend(n) \/ RUnlock(n) \/ PanicInSend(n)
    \/ \E c \in Conn : BeginSend(n, c)

Next ==
    \/ \E c \in Conn :
         \/ \E u \in User : Connect(c, u)
         \/ ReadHeartbeat(c) \/ ReadError(c) \/ ConnStep(c)
         \/ Stall(c) \/ Resume(c) \/ Leave(c)
    \/ \E n \in Notifier :
         \/ \E u \in User : Notify(n, u)
         \/ NotifierStep(n)

Spec == Init /\ [][Next]_vars

(***************************************************************************)
(* Scheduling.  Goroutines run.  A goroutine that asks for the lock gets   *)
(* it though others ask too, because sync.Mutex serves a waiter that has   *)
(* waited for long, and a write completes once the peer reads, if it reads *)
(* again and again: strong fairness for both.  Reading from a peer that is *)
(* gone fails.  A stalled peer reads on or goes away in the end: nothing   *)
(* in the code sees to that, the operating systems at both ends do.        *)
(***************************************************************************)
Fairness ==
    /\ \A c \in Conn : SF_vars(ConnStep(c))
    /\ \A c \in Conn : WF_vars(peer[c] = "gone" /\ ReadError(c))
    /\ \A c \in Conn : WF_vars(peer[c] = "stalled" /\ (Resume(c) \/ Leave(c)))
    /\ \A n \in Notifier : SF_vars(NotifierStep(n))

FairSpec == Spec /\ Fairness

-----------------------------------------------------------------------------
(* Properties.                                                             *)

\* Goroutines are where their code lets them be.
TypeOK ==
    /\ conns \in [User -> SUBSET Conn]
    /\ total \in Nat
    /\ pc \in [Conn -> ConnPC]
    /\ owner \in [Conn -> User]
    /\ peer \in [Conn -> {"reading", "stalled", "gone"}]
    /\ isWriting \in [Conn -> BOOLEAN]
    /\ notifiers \in [Notifier -> Notification]
    /\ writer \in Conn \cup {NoConn}

\* The goroutines whose connection is in the registry.
Live == {"read", "ack", "acking", "unregister", "unregistering"}

\* The registry holds a connection exactly while its goroutine is between Register
\* and Unregister, under its owner only, and the count that ConnectionCount reads
\* without the lock is the number of those connections.
RegistryIsExact ==
    /\ \A u \in User : conns[u] = {c \in Conn : owner[c] = u /\ pc[c] \in Live}
    /\ total = Cardinality(Registered)

\* One goroutine at most has or is about to get the write lock, and a notification
\* that waits for it does so behind one that will let it in.
LockInv ==
    /\ \A c \in Conn : pc[c] \in {"registering", "unregistering"} <=> writer = c
    /\ \A n \in Notifier : notifiers[n].pc = "parked" => writer # NoConn

\* The inductive invariant of the proofs.
HubInv == TypeOK /\ RegistryIsExact /\ LockInv

\* A notification never writes to a connection that has been unregistered, let
\* alone closed: what it read from the map stays registered while it holds the
\* lock.
WritesToRegistered ==
    \A n \in Readers : notifiers[n].left \subseteq conns[notifiers[n].user]

\* A notification ends, whatever connections register, unregister and fail.
NotificationsEnd == \A n \in Notifier :
    (notifiers[n].pc # "idle") ~> (notifiers[n].pc = "idle")

\* A connection whose peer is gone is unregistered and closed.
GoneAreClosed == \A c \in Conn :
    (pc[c] # "none" /\ peer[c] = "gone") ~> (pc[c] = "none")

-----------------------------------------------------------------------------
\* A removal sends the removed user a chat.removed event (README.md:217), and with
\* it every connection of the user.  A notification that meets another writer ends
\* before it has written to all of them.
EventReachesAll ==
    [][\A n \in Readers : notifiers'[n].pc = "idle" => notifiers[n].left = {}]_vars

=============================================================================
