----------------------------- MODULE ChatStore -----------------------------
(***************************************************************************)
(* The chat store: the rows PostgreSQL keeps for chats, chat keys and      *)
(* messages, and the requests and the purge job that change them.          *)
(*                                                                         *)
(* Every request runs in a goroutine of its own.  Its checks (membership,  *)
(* admin, member list) are statements outside any transaction; its writes  *)
(* are one READ COMMITTED transaction.  A request is a record that moves   *)
(* from one pc to the next, one step per statement that reads or writes;   *)
(* what an open transaction has written is kept in the record and reaches  *)
(* the tables in the commit step, because no other statement sees it.      *)
(*                                                                         *)
(* A definition introduced as a mutant is not part of the specification:   *)
(* it is the definition after it with a plausible bug, put in its place to *)
(* see that a property notices.                                            *)
(***************************************************************************)
EXTENDS Naturals, FiniteSets

CONSTANTS
    User,       \* registered accounts
    Chat,       \* chat ids
    Key,        \* chat key version ids (UUIDs, ordered, hence numbers)
    Msg,        \* message ids
    Req,        \* slots for requests in flight: a bound on concurrency
    MaxTime     \* bound on the distinct transaction start times

ASSUME KeysAreOrdered == Key \subseteq Nat
ASSUME TimeIsBounded  == MaxTime \in Nat

VARIABLES
    members,    \* user_chats: the members of each chat, {} if it does not exist
    admins,     \* chat_admins
    versions,   \* chat_key_versions
    wraps,      \* user_chat_key_wraps
    messages,   \* messages; key is the keyId in the envelope
    expired,    \* the messages older than their chat's TTL
    unread,     \* unread_messages
    rotations,  \* requests adding a key version, until their commit
    posts,      \* requests posting a message
    removals,   \* accepted requests removing a member
    reads,      \* accepted requests marking a message read
    purge,      \* the transaction of purge_expired_messages()
    now         \* latest transaction start time handed out

tables   == <<members, admins, versions, wraps, messages, expired, unread>>
requests == <<rotations, posts, removals, reads>>
vars     == <<tables, requests, purge, now>>

Version == [id : Key, chat : Chat, at : Nat]
Wrap    == [chat : Chat, key : Key, user : User]
Message == [id : Msg, chat : Chat, user : User, key : Key]
Unread  == [msg : Msg, chat : Chat, user : User]

Rotation == [id : Req, pc : {"authorize", "list", "begin", "commit"},
             user : User, chat : Chat, key : Key, msg : Msg,
             members : SUBSET User, at : Nat]
Post     == [id : Req, pc : {"authorize", "insert", "commit"},
             user : User, chat : Chat, key : Key, msg : Msg,
             recipients : SUBSET User]
Removal  == [id : Req, pc : {"membership", "unread", "wraps", "commit"},
             user : User, chat : Chat, target : User,
             unread : SUBSET Unread, wraps : SUBSET Wrap]
Read     == [id : Req, user : User, msg : Message]
Purge    == [open : BOOLEAN, messages : SUBSET Message, kept : SUBSET Message,
             versions : SUBSET Version]

NoPurge == [open |-> FALSE, messages |-> {}, kept |-> {}, versions |-> {}]

-----------------------------------------------------------------------------
(* Rows and queries.                                                       *)

\* (created_at, id) of two key versions, compared as SQL compares rows.
Newer(v, w) == v.at > w.at \/ (v.at = w.at /\ v.id > w.id)

Exists(c) == members[c] # {}

\* The message names the key version in its envelope.
Names(m, v) == m.chat = v.chat /\ m.key = v.id

\* The versions of the chat that the user holds a wrap of.
Held(u, c) == {v \in versions : v.chat = c /\ [chat |-> c, key |-> v.id, user |-> u] \in wraps}

\* Ids come from crypto.randomUUID and gen_random_uuid and never repeat.  An id
\* that nothing in the state mentions is as good as one that was never used.
FreshKey(k) ==
    /\ \A v \in versions  : v.id # k
    /\ \A m \in messages  : m.key # k
    /\ \A q \in rotations : q.key # k
    /\ \A p \in posts     : p.key # k
    /\ \A q \in removals  : \A x \in q.wraps : x.key # k

FreshMsg(i) ==
    /\ \A m \in messages  : m.id # i
    /\ \A q \in rotations : q.msg # i
    /\ \A p \in posts     : p.msg # i
    /\ \A d \in reads     : d.msg.id # i
    /\ \A q \in removals  : \A x \in q.unread : x.msg # i

Busy == {q.id : q \in rotations \cup posts \cup removals \cup reads}

\* NOW() in a transaction is its start time; two may start in the same tick.
StartTimes == {t \in {now, now + 1} : t <= MaxTime}

-----------------------------------------------------------------------------
Init ==
    /\ members  = [c \in Chat |-> {}]
    /\ admins   = [c \in Chat |-> {}]
    /\ versions = {} /\ wraps = {}
    /\ messages = {} /\ expired = {} /\ unread = {}
    /\ rotations = {} /\ posts = {} /\ removals = {} /\ reads = {}
    /\ purge = NoPurge
    /\ now = 0

-----------------------------------------------------------------------------
(* POST /chat: one transaction that reads nothing, so a single step.  The  *)
(* service requires the caller among the users and exactly one wrap each.  *)
CreateChat(u, c, users, k) ==
    /\ ~Exists(c)
    /\ u \in users
    /\ FreshKey(k)
    /\ \E t \in StartTimes :
         /\ now' = t
         /\ versions' = versions \cup {[id |-> k, chat |-> c, at |-> t]}
    /\ members' = [members EXCEPT ![c] = users]
    /\ admins'  = [admins EXCEPT ![c] = {u}]
    /\ wraps'   = wraps \cup [chat : {c}, key : {k}, user : users]
    /\ UNCHANGED <<messages, expired, unread, requests, purge>>

-----------------------------------------------------------------------------
(* Adding a key version: the client's rotateChatKey, then AddKeyVersion.   *)

\* The newest wrap cannot be opened with the identity on this device; the client
\* gets the members (403 for a non-member) and wraps a new key for each of them.
\* A key id already stored stands for a POST that is delivered again.
StartRotation(r, u, c, k, i) ==
    /\ r \notin Busy
    /\ u \in members[c]
    /\ FreshKey(k) \/ \E v \in versions : v.id = k
    /\ FreshMsg(i)
    /\ rotations' = rotations \cup
         {[id |-> r, pc |-> "authorize", user |-> u, chat |-> c, key |-> k,
           msg |-> i, members |-> members[c], at |-> 0]}
    /\ UNCHANGED <<tables, posts, removals, reads, purge, now>>

AdvanceRotation(q, next) ==
    /\ rotations' = (rotations \ {q}) \cup {next}
    /\ UNCHANGED <<tables, posts, removals, reads, purge>>

AuthorizeRotation(q) ==
    /\ q.pc = "authorize"
    /\ q.user \in members[q.chat]
    /\ AdvanceRotation(q, [q EXCEPT !.pc = "list"])
    /\ UNCHANGED now

\* One wrap for every current member and no other.
CheckWraps(q) ==
    /\ q.pc = "list"
    /\ q.members = members[q.chat]
    /\ AdvanceRotation(q, [q EXCEPT !.pc = "begin"])
    /\ UNCHANGED now

BeginRotation(q) ==
    /\ q.pc = "begin"
    /\ \E t \in StartTimes :
         /\ now' = t
         /\ AdvanceRotation(q, [q EXCEPT !.pc = "commit", !.at = t])

\* On 201 the client goes on to post its message under the new key.
CommitRotation(q) ==
    /\ q.pc = "commit"
    /\ \A v \in versions : v.id # q.key
    /\ versions' = versions \cup {[id |-> q.key, chat |-> q.chat, at |-> q.at]}
    /\ wraps' = wraps \cup [chat : {q.chat}, key : {q.key}, user : q.members]
    /\ rotations' = rotations \ {q}
    /\ posts' = posts \cup
         {[id |-> q.id, pc |-> "authorize", user |-> q.user, chat |-> q.chat,
           key |-> q.key, msg |-> q.msg, recipients |-> {}]}
    /\ UNCHANGED <<members, admins, messages, expired, unread, removals, reads, purge, now>>

\* 403, 400 and 409.
RefuseRotation(q) ==
    /\ \/ q.pc = "authorize" /\ q.user \notin members[q.chat]
       \/ q.pc = "list" /\ q.members # members[q.chat]
       \/ q.pc = "commit" /\ \E v \in versions : v.id = q.key
    /\ rotations' = rotations \ {q}
    /\ UNCHANGED <<tables, posts, removals, reads, purge, now>>

-----------------------------------------------------------------------------
(* Posting a message: the client's encryptOutgoingMessage, then POST       *)
(* /message.                                                               *)

\* GET key-wraps lists the caller's wraps oldest first and the client takes the
\* last one.
StartPost(r, u, c, i) ==
    /\ r \notin Busy
    /\ u \in members[c]
    /\ FreshMsg(i)
    /\ \E v \in Held(u, c) :
         /\ \A w \in Held(u, c) \ {v} : Newer(v, w)
         /\ posts' = posts \cup
              {[id |-> r, pc |-> "authorize", user |-> u, chat |-> c,
                key |-> v.id, msg |-> i, recipients |-> {}]}
    /\ UNCHANGED <<tables, rotations, removals, reads, purge, now>>

AdvancePost(p, next) ==
    /\ posts' = (posts \ {p}) \cup {next}
    /\ UNCHANGED <<tables, rotations, removals, reads, purge, now>>

AuthorizePost(p) ==
    /\ p.pc = "authorize"
    /\ p.user \in members[p.chat]
    /\ AdvancePost(p, [p EXCEPT !.pc = "insert"])

\* The message row, then INSERT ... SELECT of an unread row for every other
\* member the statement sees.
InsertMessage(p) ==
    /\ p.pc = "insert"
    /\ AdvancePost(p, [p EXCEPT !.pc = "commit",
                                !.recipients = members[p.chat] \ {p.user}])

CommitMessage(p) ==
    /\ p.pc = "commit"
    /\ messages' = messages \cup
         {[id |-> p.msg, chat |-> p.chat, user |-> p.user, key |-> p.key]}
    /\ unread' = unread \cup [msg : {p.msg}, chat : {p.chat}, user : p.recipients]
    /\ posts' = posts \ {p}
    /\ UNCHANGED <<members, admins, versions, wraps, expired,
                   rotations, removals, reads, purge, now>>

RefusePost(p) ==
    /\ p.pc = "authorize"
    /\ p.user \notin members[p.chat]
    /\ posts' = posts \ {p}
    /\ UNCHANGED <<tables, rotations, removals, reads, purge, now>>

-----------------------------------------------------------------------------
(* Removing a member.                                                      *)

\* Mutant: any member may remove another.
AuthorizeAnyRemoval(r, u, c, t) ==
    /\ r \notin Busy
    /\ u \in members[c]
    /\ u # t
    /\ removals' = removals \cup
         {[id |-> r, pc |-> "membership", user |-> u, chat |-> c, target |-> t,
           unread |-> {}, wraps |-> {}]}
    /\ UNCHANGED <<tables, rotations, posts, reads, purge, now>>

\* A refused call leaves no trace, so only accepted ones occupy a slot.  The
\* membership and the admin query are one step: an admin row never outlives the
\* membership, and neither comes back.
AuthorizeRemoval(r, u, c, t) ==
    /\ r \notin Busy
    /\ u \in members[c]
    /\ u \in admins[c]
    /\ u # t
    /\ removals' = removals \cup
         {[id |-> r, pc |-> "membership", user |-> u, chat |-> c, target |-> t,
           unread |-> {}, wraps |-> {}]}
    /\ UNCHANGED <<tables, rotations, posts, reads, purge, now>>

AdvanceRemoval(q, next) ==
    /\ removals' = (removals \ {q}) \cup {next}
    /\ UNCHANGED <<tables, rotations, posts, reads, purge, now>>

\* Another open transaction has deleted the same user_chats row: DELETE waits.
RowLocked(q) ==
    \E o \in removals \ {q} :
        o.chat = q.chat /\ o.target = q.target /\ o.pc # "membership"

\* Mutant: that no row was deleted goes unnoticed.
DeleteAnyMembership(q) ==
    /\ q.pc = "membership"
    /\ ~RowLocked(q)
    /\ AdvanceRemoval(q, [q EXCEPT !.pc = "unread"])

DeleteMembership(q) ==
    /\ q.pc = "membership"
    /\ ~RowLocked(q)
    /\ q.target \in members[q.chat]
    /\ AdvanceRemoval(q, [q EXCEPT !.pc = "unread"])

DeleteUnread(q) ==
    /\ q.pc = "unread"
    /\ AdvanceRemoval(q,
         [q EXCEPT !.pc = "wraps",
                   !.unread = {x \in unread : x.chat = q.chat /\ x.user = q.target}])

\* Mutant: DELETE without its user_id condition.
DeleteAllWraps(q) ==
    /\ q.pc = "wraps"
    /\ AdvanceRemoval(q, [q EXCEPT !.pc = "commit", !.wraps = {x \in wraps : x.chat = q.chat}])

DeleteWraps(q) ==
    /\ q.pc = "wraps"
    /\ AdvanceRemoval(q,
         [q EXCEPT !.pc = "commit",
                   !.wraps = {x \in wraps : x.chat = q.chat /\ x.user = q.target}])

\* The admin row, the check that an admin remains, and COMMIT.
CommitRemoval(q) ==
    /\ q.pc = "commit"
    /\ admins[q.chat] \ {q.target} # {}
    /\ members' = [members EXCEPT ![q.chat] = @ \ {q.target}]
    /\ admins'  = [admins EXCEPT ![q.chat] = @ \ {q.target}]
    /\ unread'  = unread \ q.unread
    /\ wraps'   = wraps \ q.wraps
    /\ removals' = removals \ {q}
    /\ UNCHANGED <<versions, messages, expired, rotations, posts, reads, purge, now>>

\* Mutant: a DELETE that finds no row, the member having gone while it waited for
\* the row lock, is tried again until it finds one.
RetryRemoval(q) ==
    \/ /\ q.pc = "membership" /\ ~RowLocked(q) /\ q.target \notin members[q.chat]
       /\ AdvanceRemoval(q, q)
    \/ /\ q.pc = "commit" /\ admins[q.chat] \ {q.target} = {}
       /\ removals' = removals \ {q}
       /\ UNCHANGED <<tables, rotations, posts, reads, purge, now>>

\* ErrChatMemberNotFound, and ErrLastChatAdmin, which rolls back.
RefuseRemoval(q) ==
    /\ \/ q.pc = "membership" /\ ~RowLocked(q) /\ q.target \notin members[q.chat]
       \/ q.pc = "commit" /\ admins[q.chat] \ {q.target} = {}
    /\ removals' = removals \ {q}
    /\ UNCHANGED <<tables, rotations, posts, reads, purge, now>>

-----------------------------------------------------------------------------
(* PATCH /message: GetByID and the membership check, then one DELETE.      *)
AuthorizeRead(r, u, m) ==
    /\ r \notin Busy
    /\ u \in members[m.chat]
    /\ reads' = reads \cup {[id |-> r, user |-> u, msg |-> m]}
    /\ UNCHANGED <<tables, rotations, posts, removals, purge, now>>

DeleteRead(d) ==
    /\ unread' = {x \in unread : ~(x.msg = d.msg.id /\ x.user = d.user)}
    /\ reads' = reads \ {d}
    /\ UNCHANGED <<members, admins, versions, wraps, messages, expired,
                   rotations, posts, removals, purge, now>>

-----------------------------------------------------------------------------
(* A request whose client goes away or whose server stops: its context is  *)
(* cancelled and its transaction rolled back.                              *)
Abort(r) ==
    /\ r \in Busy
    /\ rotations' = {q \in rotations : q.id # r}
    /\ posts'     = {p \in posts : p.id # r}
    /\ removals'  = {q \in removals : q.id # r}
    /\ reads'     = {d \in reads : d.id # r}
    /\ UNCHANGED <<tables, purge, now>>

-----------------------------------------------------------------------------
(* Expiry and purge_expired_messages().  pg_cron never runs a job twice at *)
(* the same time.  Its two DELETEs are one step: the first reads only what *)
(* has expired, and the second runs on the snapshot of that step.          *)
Expire(m) ==
    /\ m \notin expired
    /\ expired' = expired \cup {m}
    /\ UNCHANGED <<members, admins, versions, wraps, messages, unread, requests, purge, now>>

\* Mutant: rows created at the same time supersede each other.
SupersededInTime(v) ==
    \E w \in versions : w.chat = v.chat /\ w.id # v.id /\ w.at >= v.at

Superseded(v) == \E w \in versions : w.chat = v.chat /\ Newer(w, v)

\* Mutant: a version is in use only while a message that names it is unread.
UnusedByUnread(v, remaining) ==
    \A m \in remaining : Names(m, v) => \A x \in unread : x.msg # m.id

Unused(v, remaining) == \A m \in remaining : ~Names(m, v)

\* Mutants: one of the two DELETEs is missing.
ScanVersionsOnly ==
    /\ ~purge.open
    /\ LET idle == {v \in versions : Superseded(v) /\ Unused(v, messages)}
       IN  /\ idle # {}
           /\ purge' = [open |-> TRUE, messages |-> {}, kept |-> messages, versions |-> idle]
    /\ UNCHANGED <<tables, requests, now>>

ScanMessagesOnly ==
    /\ ~purge.open
    /\ expired # {}
    /\ purge' = [open |-> TRUE, messages |-> expired, kept |-> messages \ expired,
                 versions |-> {}]
    /\ UNCHANGED <<tables, requests, now>>

ScanPurge ==
    /\ ~purge.open
    /\ LET remaining == messages \ expired
           idle == {v \in versions : Superseded(v) /\ Unused(v, remaining)}
       IN  /\ expired \cup idle # {}      \* a run with nothing to delete is a no-op
           /\ purge' = [open |-> TRUE, messages |-> expired, kept |-> remaining,
                        versions |-> idle]
    /\ UNCHANGED <<tables, requests, now>>

\* Mutant: unread rows do not cascade from their message.
CommitPurgeWithoutCascade ==
    /\ purge.open
    /\ messages' = messages \ purge.messages
    /\ expired'  = expired \ purge.messages
    /\ versions' = versions \ purge.versions
    /\ wraps'    = {x \in wraps : \A v \in purge.versions : v.id # x.key}
    /\ purge' = NoPurge
    /\ UNCHANGED <<members, admins, unread, requests, now>>

\* The deletes reach the tables, with the rows that cascade from them.
CommitPurge ==
    /\ purge.open
    /\ messages' = messages \ purge.messages
    /\ expired'  = expired \ purge.messages
    /\ unread'   = {x \in unread : \A m \in purge.messages : m.id # x.msg}
    /\ versions' = versions \ purge.versions
    /\ wraps'    = {x \in wraps : \A v \in purge.versions : v.id # x.key}
    /\ purge' = NoPurge
    /\ UNCHANGED <<members, admins, requests, now>>

RollbackPurge ==
    /\ purge.open
    /\ purge' = NoPurge
    /\ UNCHANGED <<tables, requests, now>>

-----------------------------------------------------------------------------
RotationStep(q) ==
    \/ AuthorizeRotation(q) \/ CheckWraps(q) \/ BeginRotation(q)
    \/ CommitRotation(q) \/ RefuseRotation(q)

PostStep(p) ==
    \/ AuthorizePost(p) \/ InsertMessage(p) \/ CommitMessage(p) \/ RefusePost(p)

RemovalStep(q) ==
    \/ DeleteMembership(q) \/ DeleteUnread(q) \/ DeleteWraps(q)
    \/ CommitRemoval(q) \/ RefuseRemoval(q)

Next ==
    \/ \E u \in User, c \in Chat, users \in SUBSET User, k \in Key :
         CreateChat(u, c, users, k)
    \/ \E r \in Req, u \in User, c \in Chat :
         \/ \E k \in Key, i \in Msg : StartRotation(r, u, c, k, i)
         \/ \E i \in Msg : StartPost(r, u, c, i)
         \/ \E t \in User : AuthorizeRemoval(r, u, c, t)
    \/ \E r \in Req, u \in User, m \in messages : AuthorizeRead(r, u, m)
    \/ \E q \in rotations : RotationStep(q)
    \/ \E p \in posts : PostStep(p)
    \/ \E q \in removals : RemovalStep(q)
    \/ \E d \in reads : DeleteRead(d)
    \/ \E r \in Req : Abort(r)
    \/ \E m \in messages : Expire(m)
    \/ ScanPurge
    \/ CommitPurge
    \/ RollbackPurge

Spec == Init /\ [][Next]_vars

(***************************************************************************)
(* Scheduling.  A request's goroutine keeps running and its statements     *)
(* return, so each request in flight that can take a step takes one.  A    *)
(* removal may wait for a row lock that others take in between; PostgreSQL *)
(* serves the waiters of a row in turn, hence strong fairness.  Time       *)
(* passes, pg_cron starts the purge every minute and its transaction ends. *)
(* Nothing obliges a client to send a request or a transaction to fail.    *)
(***************************************************************************)
StepOf(r) ==
    \/ \E q \in rotations : q.id = r /\ RotationStep(q)
    \/ \E p \in posts : p.id = r /\ PostStep(p)
    \/ \E d \in reads : d.id = r /\ DeleteRead(d)

RemovalStepOf(r) == \E q \in removals : q.id = r /\ RemovalStep(q)

Fairness ==
    /\ \A r \in Req : WF_vars(StepOf(r)) /\ SF_vars(RemovalStepOf(r))
    /\ WF_vars(\E m \in messages : Expire(m))
    /\ WF_vars(ScanPurge)
    /\ SF_vars(CommitPurge)

FairSpec == Spec /\ Fairness

-----------------------------------------------------------------------------
(* Properties.                                                             *)

\* Every row and every request in flight has the shape its table or handler
\* gives it, and every wrap and unread row refers to a key version and a message
\* that are stored, as the foreign keys with ON DELETE CASCADE demand.
TypeOK ==
    /\ members  \in [Chat -> SUBSET User]
    /\ admins   \in [Chat -> SUBSET User]
    /\ versions \subseteq Version
    /\ wraps    \subseteq Wrap
    /\ messages \subseteq Message
    /\ expired  \subseteq messages
    /\ unread   \subseteq Unread
    /\ rotations \subseteq Rotation
    /\ posts     \subseteq Post
    /\ removals  \subseteq Removal
    /\ reads     \subseteq Read
    /\ purge \in Purge
    /\ now \in 0 .. MaxTime
    /\ \A x \in wraps  : \E v \in versions : v.id = x.key /\ v.chat = x.chat
    /\ \A x \in unread : \E m \in messages : m.id = x.msg /\ m.chat = x.chat

\* Every member holds a wrap of every key version of the chat, so a version added
\* by any member is readable by all: whatever removals and purges run while
\* AddKeyVersion works on the member list it read before its transaction.
MemberHoldsEveryKey ==
    \A v \in versions : \A u \in members[v.chat] :
        [chat |-> v.chat, key |-> v.id, user |-> u] \in wraps

\* The purge never deletes a chat's newest key version, even when versions are
\* committed between its scan and its commit: each deleted version leaves a newer
\* one of the same chat, so members can still send into the chat.
PurgeSparesNewest ==
    [][\A v \in versions \ versions' :
          \E w \in versions' : w.chat = v.chat /\ Newer(w, v)]_vars

\* The key version a message names, if it is there.
Readable(m) == \E v \in versions : Names(m, v)

\* A message whose key version is there stays readable as long as the message
\* itself is kept, unless it arrived after the scan of the purge in progress:
\* the purge takes the version of no message it saw and did not delete.
StaysReadable ==
    [][\A m \in messages \cap messages' :
          Readable(m) /\ (purge.open => m \in purge.kept) => Readable(m)']_vars

\* Every request in flight ends, also one that waits for another transaction's
\* row lock.
RequestsEnd == \A r \in Req : (r \in Busy) ~> (r \notin Busy)

\* A message past its TTL is deleted, and so is every key version that is not
\* the newest of its chat and that no message names, unless a message that
\* names it arrives first.
ExpiredMessagesGo == \A i \in Msg :
    (\E m \in expired : m.id = i) ~> ~(\E m \in expired : m.id = i)

IdleVersion(k) == \E v \in versions : v.id = k /\ Superseded(v) /\ Unused(v, messages)

IdleVersionsGo == \A k \in Key : IdleVersion(k) ~> ~IdleVersion(k)

\* Membership follows the roster's rules.  A removal is checked against the admin
\* row when the request arrives and takes effect several statements later; it is
\* the one the caller asked for, and the caller is an admin at both moments.
Asked == {<<q.chat, q.user, q.target>> : q \in removals}

R == INSTANCE Roster WITH asked <- Asked

FollowsRoster == R!Spec

-----------------------------------------------------------------------------
(* What makes the properties inductive.                                    *)

\* Key ids are the primary key of chat_key_versions, a version belongs to a chat
\* that exists, and the purge works on versions that are still stored.
VersionsInv ==
    /\ IsFiniteSet(versions)
    /\ \A v, w \in versions : v.id = w.id => v = w
    /\ \A v \in versions : Exists(v.chat)
    /\ purge.versions \subseteq versions

\* The wraps of a rotation past its check cover the members: whoever was a member
\* then and whoever is now, because nobody joins a chat after its creation.
RotationsInv == \A q \in rotations :
    /\ Exists(q.chat)
    /\ q.pc \in {"begin", "commit"} => members[q.chat] \subseteq q.members

\* A chat has one admin, its creator, who is a member; a removal is made by that
\* admin for somebody else and has deleted nothing but the target's wraps.
RemovalsInv ==
    /\ \A c \in Chat : admins[c] \subseteq members[c]
    /\ \A c \in Chat : \A a, b \in admins[c] : a = b
    /\ \A q \in removals :
         /\ q.user \in admins[q.chat]
         /\ q.target # q.user
         /\ q.pc # "membership" =>
              \A o \in removals : o.pc # "membership" /\ o.chat = q.chat /\ o.target = q.target
                                  => o = q
         /\ q.pc # "membership" => q.target \in members[q.chat]
         /\ \A x \in q.wraps : x.chat = q.chat /\ x.user = q.target

\* Whatever commits meanwhile, each version the purge is to delete leaves a newer
\* one behind, and none is named by a message the purge keeps.
PurgeInv ==
    /\ \A v \in purge.versions :
         \E w \in versions \ purge.versions : w.chat = v.chat /\ Newer(w, v)
    /\ \A v \in purge.versions : Unused(v, purge.kept)
    /\ ~purge.open => purge.versions = {}

\* The inductive invariant of the proofs.
StoreInv ==
    /\ TypeOK /\ VersionsInv /\ RotationsInv /\ RemovalsInv /\ PurgeInv
    /\ MemberHoldsEveryKey

-----------------------------------------------------------------------------
(* Claims of the repository's docs that the code does not keep.            *)

\* RemoveMember deletes the user's unread state and key wraps with the membership
\* (README.md:217, repository/chat.go:39).  A message or a key version whose
\* members were read before the removal and whose commit comes after it leaves an
\* unread row or a wrap for the removed user.
NothingForStrangers == \A x \in wraps \cup unread : x.user \in members[x.chat]

\* If two members rotate at once, both versions stay readable (README.md:271).
\* The purge deletes the older one while the message that was to name it is
\* still on its way.
MessagesAreReadable == \A m \in messages : Readable(m)

=============================================================================
