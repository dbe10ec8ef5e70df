-------------------------- MODULE ChatStoreProofs --------------------------
(***************************************************************************)
(* Proofs about ChatStore, for every set of users, chats, keys, messages   *)
(* and requests in flight.                                                 *)
(***************************************************************************)
EXTENDS ChatStore, TLAPS, FiniteSetTheorems, WellFoundedInduction

\* The types of the request records.
LEMMA RotationFields ==
    ASSUME NEW q \in Rotation
    PROVE  /\ q.id \in Req /\ q.user \in User /\ q.chat \in Chat /\ q.key \in Key
           /\ q.msg \in Msg /\ q.members \in SUBSET User /\ q.at \in Nat
           /\ \A p \in {"authorize", "list", "begin", "commit"} :
                [q EXCEPT !.pc = p] \in Rotation
           /\ \A t \in Nat : [q EXCEPT !.pc = "commit", !.at = t] \in Rotation
BY DEF Rotation

LEMMA PostFields ==
    ASSUME NEW p \in Post
    PROVE  /\ p.id \in Req /\ p.user \in User /\ p.chat \in Chat /\ p.key \in Key
           /\ p.msg \in Msg /\ p.recipients \in SUBSET User
           /\ [p EXCEPT !.pc = "insert"] \in Post
           /\ \A s \in SUBSET User : [p EXCEPT !.pc = "commit", !.recipients = s] \in Post
BY DEF Post

LEMMA RemovalFields ==
    ASSUME NEW q \in Removal
    PROVE  /\ q.id \in Req /\ q.user \in User /\ q.chat \in Chat /\ q.target \in User
           /\ q.unread \in SUBSET Unread /\ q.wraps \in SUBSET Wrap
           /\ [q EXCEPT !.pc = "unread"] \in Removal
           /\ \A s \in SUBSET Unread : [q EXCEPT !.pc = "wraps", !.unread = s] \in Removal
           /\ \A s \in SUBSET Wrap : [q EXCEPT !.pc = "commit", !.wraps = s] \in Removal
BY DEF Removal

\* The initial state satisfies the inductive invariant.
LEMMA InitInv == Init => StoreInv
BY TimeIsBounded, FS_EmptySet DEF Init, StoreInv, TypeOK, VersionsInv, RotationsInv,
   RemovalsInv, PurgeInv, MemberHoldsEveryKey, NoPurge, Purge, Exists

\* Every step preserves the types and the references between rows.
LEMMA StepTypeOK == TypeOK /\ VersionsInv /\ [Next]_vars => TypeOK'
<1> SUFFICES ASSUME TypeOK, VersionsInv, [Next]_vars PROVE TypeOK'
    OBVIOUS
<1> USE TimeIsBounded
<1>1. ASSUME NEW u \in User, NEW c \in Chat, NEW users \in SUBSET User, NEW k \in Key,
             CreateChat(u, c, users, k)
      PROVE  TypeOK'
  <2>1. PICK t \in StartTimes :
          now' = t /\ versions' = versions \cup {[id |-> k, chat |-> c, at |-> t]}
    BY <1>1 DEF CreateChat
  <2>2. t \in Nat /\ t \in 0 .. MaxTime
    BY DEF TypeOK, StartTimes
  <2>3. versions' \subseteq Version /\ now' \in 0 .. MaxTime
    BY <2>1, <2>2 DEF TypeOK, Version
  <2>4. wraps' \subseteq Wrap /\ \A x \in wraps' : \E v \in versions' : v.id = x.key /\ v.chat = x.chat
    <3>1. wraps' = wraps \cup [chat : {c}, key : {k}, user : users]
      BY <1>1 DEF CreateChat
    <3>2. [chat : {c}, key : {k}, user : users] \subseteq Wrap
      BY DEF Wrap
    <3>3. \A x \in [chat : {c}, key : {k}, user : users] : x.chat = c /\ x.key = k
      OBVIOUS
    <3> DEFINE new == [id |-> k, chat |-> c, at |-> t]
    <3>4. new.id = k /\ new.chat = c /\ new \in versions' /\ versions \subseteq versions'
      BY <2>1
    <3> HIDE DEF new
    <3>5. \A x \in wraps' : \E v \in versions' : v.id = x.key /\ v.chat = x.chat
      <4>1. ASSUME NEW x \in wraps
            PROVE  \E v \in versions' : v.id = x.key /\ v.chat = x.chat
        BY <3>4 DEF TypeOK
      <4> QED
        BY <3>1, <3>3, <3>4, <4>1
    <3> QED
      BY <3>1, <3>2, <3>5 DEF TypeOK
  <2> QED
    BY <1>1, <2>3, <2>4 DEF TypeOK, CreateChat, requests
<1>2. ASSUME NEW r \in Req, NEW u \in User, NEW c \in Chat, NEW k \in Key, NEW i \in Msg,
             StartRotation(r, u, c, k, i)
      PROVE  TypeOK'
  <2>1. [id |-> r, pc |-> "authorize", user |-> u, chat |-> c, key |-> k,
         msg |-> i, members |-> members[c], at |-> 0] \in Rotation
    BY DEF TypeOK, Rotation
  <2> QED
    BY <1>2, <2>1 DEF TypeOK, StartRotation, tables
<1>3. ASSUME NEW r \in Req, NEW u \in User, NEW c \in Chat, NEW i \in Msg,
             StartPost(r, u, c, i)
      PROVE  TypeOK'
  <2>1. PICK v \in Held(u, c) :
          posts' = posts \cup
              {[id |-> r, pc |-> "authorize", user |-> u, chat |-> c,
                key |-> v.id, msg |-> i, recipients |-> {}]}
    BY <1>3 DEF StartPost
  <2>2. v.id \in Key
    BY DEF Held, TypeOK, Version
  <2>3. posts' \subseteq Post
    BY <2>1, <2>2 DEF TypeOK, Post
  <2> QED
    BY <1>3, <2>3 DEF TypeOK, StartPost, tables
<1>4. ASSUME NEW r \in Req, NEW u \in User, NEW c \in Chat, NEW t \in User,
             AuthorizeRemoval(r, u, c, t)
      PROVE  TypeOK'
  <2>1. [id |-> r, pc |-> "membership", user |-> u, chat |-> c, target |-> t,
         unread |-> {}, wraps |-> {}] \in Removal
    BY DEF Removal
  <2> QED
    BY <1>4, <2>1 DEF TypeOK, AuthorizeRemoval, tables
<1>5. ASSUME NEW r \in Req, NEW u \in User, NEW m \in messages, AuthorizeRead(r, u, m)
      PROVE  TypeOK'
  BY <1>5 DEF TypeOK, AuthorizeRead, Read, tables
<1>6. ASSUME NEW q \in rotations, RotationStep(q)
      PROVE  TypeOK'
  <2>0. q \in Rotation
    BY DEF TypeOK
  <2>1. CASE AuthorizeRotation(q)
    BY <2>0, <2>1, RotationFields DEF TypeOK, AuthorizeRotation, AdvanceRotation, tables
  <2>2. CASE CheckWraps(q)
    BY <2>0, <2>2, RotationFields DEF TypeOK, CheckWraps, AdvanceRotation, tables
  <2>3. CASE BeginRotation(q)
    <3>1. PICK t \in StartTimes :
            now' = t /\ AdvanceRotation(q, [q EXCEPT !.pc = "commit", !.at = t])
      BY <2>3 DEF BeginRotation
    <3>2. t \in Nat /\ t \in 0 .. MaxTime
      BY DEF TypeOK, StartTimes
    <3>3. [q EXCEPT !.pc = "commit", !.at = t] \in Rotation
      BY <2>0, <3>2, RotationFields
    <3> QED
      BY <3>1, <3>2, <3>3 DEF TypeOK, AdvanceRotation, tables
  <2>4. CASE CommitRotation(q)
    <3> DEFINE new == [id |-> q.key, chat |-> q.chat, at |-> q.at]
    <3>0. /\ new \in Version /\ new.id = q.key /\ new.chat = q.chat
          /\ versions' = versions \cup {new}
      BY <2>0, <2>4, RotationFields DEF CommitRotation, Version
    <3> HIDE DEF new
    <3>1. versions' \subseteq Version
      BY <3>0 DEF TypeOK
    <3>2. [chat : {q.chat}, key : {q.key}, user : q.members] \subseteq Wrap
      BY <2>0, RotationFields DEF Wrap
    <3>3. \A x \in [chat : {q.chat}, key : {q.key}, user : q.members] :
              x.chat = q.chat /\ x.key = q.key
      OBVIOUS
    <3>4. wraps' \subseteq Wrap /\ \A x \in wraps' : \E v \in versions' : v.id = x.key /\ v.chat = x.chat
      <4>1. wraps' = wraps \cup [chat : {q.chat}, key : {q.key}, user : q.members]
        BY <2>4 DEF CommitRotation
      <4>2. ASSUME NEW x \in wraps
            PROVE  \E v \in versions' : v.id = x.key /\ v.chat = x.chat
        BY <3>0 DEF TypeOK
      <4>3. \A x \in wraps' : \E v \in versions' : v.id = x.key /\ v.chat = x.chat
        BY <3>0, <3>3, <4>1, <4>2
      <4> QED
        BY <3>2, <4>1, <4>3 DEF TypeOK
    <3>5. [id |-> q.id, pc |-> "authorize", user |-> q.user, chat |-> q.chat,
           key |-> q.key, msg |-> q.msg, recipients |-> {}] \in Post
      BY <2>0, RotationFields DEF Post
    <3> QED
      BY <2>4, <3>1, <3>4, <3>5 DEF TypeOK, CommitRotation
  <2>5. CASE RefuseRotation(q)
    BY <2>5 DEF TypeOK, RefuseRotation, tables
  <2> QED
    BY <1>6, <2>1, <2>2, <2>3, <2>4, <2>5 DEF RotationStep
<1>7. ASSUME NEW p \in posts, PostStep(p)
      PROVE  TypeOK'
  <2>0. p \in Post
    BY DEF TypeOK
  <2>1. CASE AuthorizePost(p)
    BY <2>0, <2>1, PostFields DEF TypeOK, AuthorizePost, AdvancePost, tables
  <2>2. CASE InsertMessage(p)
    <3>1. members[p.chat] \ {p.user} \in SUBSET User
      BY <2>0, PostFields DEF TypeOK
    <3>2. [p EXCEPT !.pc = "commit", !.recipients = members[p.chat] \ {p.user}] \in Post
      BY <2>0, <3>1, PostFields
    <3> QED
      BY <2>2, <3>2 DEF TypeOK, InsertMessage, AdvancePost, tables
  <2>3. CASE CommitMessage(p)
    <3> DEFINE new == [id |-> p.msg, chat |-> p.chat, user |-> p.user, key |-> p.key]
    <3>1. /\ new \in Message /\ new.id = p.msg /\ new.chat = p.chat
          /\ messages' = messages \cup {new}
      BY <2>0, <2>3, PostFields DEF Message, CommitMessage
    <3> HIDE DEF new
    <3>2. [msg : {p.msg}, chat : {p.chat}, user : p.recipients] \subseteq Unread
      BY <2>0, PostFields DEF Unread
    <3>3. \A x \in [msg : {p.msg}, chat : {p.chat}, user : p.recipients] :
              x.msg = p.msg /\ x.chat = p.chat
      OBVIOUS
    <3>4. \A x \in unread' : \E m \in messages' : m.id = x.msg /\ m.chat = x.chat
      <4>1. unread' = unread \cup [msg : {p.msg}, chat : {p.chat}, user : p.recipients]
        BY <2>3 DEF CommitMessage
      <4>2. ASSUME NEW x \in unread
            PROVE  \E m \in messages' : m.id = x.msg /\ m.chat = x.chat
        BY <3>1 DEF TypeOK
      <4> QED
        BY <3>1, <3>3, <4>1, <4>2
    <3> QED
      BY <2>3, <3>1, <3>2, <3>4 DEF TypeOK, CommitMessage
  <2>4. CASE RefusePost(p)
    BY <2>4 DEF TypeOK, RefusePost, tables
  <2> QED
    BY <1>7, <2>1, <2>2, <2>3, <2>4 DEF PostStep
<1>8. ASSUME NEW q \in removals, RemovalStep(q)
      PROVE  TypeOK'
  <2>0. q \in Removal
    BY DEF TypeOK
  <2>1. CASE DeleteMembership(q)
    BY <2>0, <2>1, RemovalFields DEF TypeOK, DeleteMembership, AdvanceRemoval, tables
  <2>2. CASE DeleteUnread(q)
    BY ZenonT(30), <2>0, <2>2, RemovalFields DEF TypeOK, DeleteUnread, AdvanceRemoval, tables
  <2>3. CASE DeleteWraps(q)
    BY ZenonT(30), <2>0, <2>3, RemovalFields DEF TypeOK, DeleteWraps, AdvanceRemoval, tables
  <2>4. CASE CommitRemoval(q)
    BY <2>0, <2>4, RemovalFields DEF TypeOK, CommitRemoval
  <2>5. CASE RefuseRemoval(q)
    BY <2>5 DEF TypeOK, RefuseRemoval, tables
  <2> QED
    BY <1>8, <2>1, <2>2, <2>3, <2>4, <2>5 DEF RemovalStep
<1>9. ASSUME NEW d \in reads, DeleteRead(d)
      PROVE  TypeOK'
  BY <1>9 DEF TypeOK, DeleteRead
<1>10. ASSUME NEW r \in Req, Abort(r)
       PROVE  TypeOK'
  BY <1>10 DEF TypeOK, Abort, tables
<1>11. ASSUME NEW m \in messages, Expire(m)
       PROVE  TypeOK'
  BY <1>11 DEF TypeOK, Expire, requests
<1>12. CASE ScanPurge
  BY <1>12 DEF TypeOK, ScanPurge, Purge, tables, requests
<1>13. CASE CommitPurge
  <2>1. purge' \in Purge
    BY <1>13 DEF CommitPurge, NoPurge, Purge
  <2>2. \A x \in wraps' : \E v \in versions' : v.id = x.key /\ v.chat = x.chat
    BY <1>13 DEF CommitPurge, TypeOK
  <2>3. \A x \in unread' : \E m \in messages' : m.id = x.msg /\ m.chat = x.chat
    BY <1>13 DEF CommitPurge, TypeOK
  <2> QED
    BY <1>13, <2>1, <2>2, <2>3 DEF TypeOK, CommitPurge, requests
<1>14. CASE RollbackPurge
  BY <1>14 DEF TypeOK, RollbackPurge, NoPurge, Purge, tables, requests
<1>15. CASE UNCHANGED vars
  BY <1>15 DEF TypeOK, vars, tables, requests
<1> QED
  BY <1>1, <1>2, <1>3, <1>4, <1>5, <1>6, <1>7, <1>8, <1>9, <1>10, <1>11, <1>12,
     <1>13, <1>14, <1>15 DEF Next

-----------------------------------------------------------------------------
\* Only four actions change who is in a chat or what can be opened.
LEMMA KeyTableWriters ==
    ASSUME [Next]_vars
    PROVE  \/ \E u \in User, c \in Chat, users \in SUBSET User, k \in Key :
                CreateChat(u, c, users, k)
           \/ \E q \in rotations : CommitRotation(q)
           \/ \E q \in removals : CommitRemoval(q)
           \/ CommitPurge
           \/ UNCHANGED <<members, admins, versions, wraps>>
<1>1. ASSUME NEW q \in rotations, RotationStep(q), ~CommitRotation(q)
      PROVE  UNCHANGED <<members, admins, versions, wraps>>
  BY <1>1 DEF RotationStep, AuthorizeRotation, CheckWraps, BeginRotation, RefuseRotation,
     AdvanceRotation, tables
<1>2. ASSUME NEW p \in posts, PostStep(p)
      PROVE  UNCHANGED <<members, admins, versions, wraps>>
  BY <1>2 DEF PostStep, AuthorizePost, InsertMessage, CommitMessage, RefusePost,
     AdvancePost, tables
<1>3. ASSUME NEW q \in removals, RemovalStep(q), ~CommitRemoval(q)
      PROVE  UNCHANGED <<members, admins, versions, wraps>>
  BY <1>3 DEF RemovalStep, DeleteMembership, DeleteUnread, DeleteWraps, RefuseRemoval,
     AdvanceRemoval, tables
<1>4. ASSUME \/ \E r \in Req, u \in User, c \in Chat :
                  \/ \E k \in Key, i \in Msg : StartRotation(r, u, c, k, i)
                  \/ \E i \in Msg : StartPost(r, u, c, i)
                  \/ \E t \in User : AuthorizeRemoval(r, u, c, t)
             \/ \E r \in Req, u \in User, m \in messages : AuthorizeRead(r, u, m)
      PROVE  UNCHANGED <<members, admins, versions, wraps>>
  BY <1>4 DEF StartRotation, StartPost, AuthorizeRemoval, AuthorizeRead, tables
<1>5. ASSUME \/ \E d \in reads : DeleteRead(d)
             \/ \E r \in Req : Abort(r)
             \/ \E m \in messages : Expire(m)
             \/ ScanPurge
             \/ RollbackPurge
             \/ UNCHANGED vars
      PROVE  UNCHANGED <<members, admins, versions, wraps>>
  BY <1>5 DEF DeleteRead, Abort, Expire, ScanPurge, RollbackPurge, vars, tables
<1> QED
  BY <1>1, <1>2, <1>3, <1>4, <1>5 DEF Next

\* Who changes the removals under way.
LEMMA RemovalWriters ==
    ASSUME [Next]_vars
    PROVE  \/ \E r \in Req, u \in User, c \in Chat, t \in User : AuthorizeRemoval(r, u, c, t)
           \/ \E q \in removals : RemovalStep(q)
           \/ removals' \subseteq removals /\ members' = members /\ admins' = admins
           \/ /\ removals' = removals
              /\ \E u \in User, c \in Chat, users \in SUBSET User, k \in Key :
                   CreateChat(u, c, users, k)
<1> DEFINE Same == removals' \subseteq removals /\ members' = members /\ admins' = admins
<1>1. ASSUME NEW q \in rotations, RotationStep(q) PROVE Same
  BY <1>1 DEF RotationStep, AuthorizeRotation, CheckWraps, BeginRotation, CommitRotation,
     RefuseRotation, AdvanceRotation, tables
<1>2. ASSUME NEW p \in posts, PostStep(p) PROVE Same
  BY <1>2 DEF PostStep, AuthorizePost, InsertMessage, CommitMessage, RefusePost,
     AdvancePost, tables
<1>3. ASSUME NEW r \in Req, NEW u \in User, NEW c \in Chat,
             \/ \E k \in Key, i \in Msg : StartRotation(r, u, c, k, i)
             \/ \E i \in Msg : StartPost(r, u, c, i)
      PROVE  Same
  BY <1>3 DEF StartRotation, StartPost, tables
<1>4. ASSUME \/ \E r \in Req, u \in User, m \in messages : AuthorizeRead(r, u, m)
             \/ \E d \in reads : DeleteRead(d)
             \/ \E r \in Req : Abort(r)
             \/ \E m \in messages : Expire(m)
             \/ ScanPurge \/ CommitPurge \/ RollbackPurge
             \/ UNCHANGED vars
      PROVE  Same
  BY <1>4 DEF AuthorizeRead, DeleteRead, Abort, Expire, ScanPurge, CommitPurge,
     RollbackPurge, vars, tables, requests
<1>5. ASSUME NEW u \in User, NEW c \in Chat, NEW users \in SUBSET User, NEW k \in Key,
             CreateChat(u, c, users, k)
      PROVE  removals' = removals
  BY <1>5 DEF CreateChat, requests
<1> QED
  BY <1>1, <1>2, <1>3, <1>4, <1>5 DEF Next

\* A chat that exists never loses its last member, and no one joins it.
LEMMA MembersShrink ==
    ASSUME TypeOK, RemovalsInv, [Next]_vars, NEW c \in Chat, Exists(c)
    PROVE  members'[c] \subseteq members[c] /\ members'[c] # {}
<1>1. ASSUME NEW u \in User, NEW d \in Chat, NEW users \in SUBSET User, NEW k \in Key,
             CreateChat(u, d, users, k)
      PROVE  members'[c] = members[c]
  BY <1>1 DEF CreateChat, TypeOK, Exists
<1>2. ASSUME NEW q \in removals, CommitRemoval(q)
      PROVE  members'[c] \subseteq members[c] /\ members'[c] # {}
  <2>1. q.chat \in Chat /\ admins[q.chat] \subseteq members[q.chat]
    BY RemovalFields DEF TypeOK, RemovalsInv
  <2>2. members' = [members EXCEPT ![q.chat] = @ \ {q.target}] /\ admins[q.chat] \ {q.target} # {}
    BY <1>2 DEF CommitRemoval
  <2> QED
    BY <2>1, <2>2 DEF TypeOK, Exists
<1>3. ASSUME (\E q \in rotations : CommitRotation(q)) \/ CommitPurge
      PROVE  members' = members
  BY <1>3 DEF CommitRotation, CommitPurge
<1> QED
  BY <1>1, <1>2, <1>3, KeyTableWriters DEF Exists

\* While the purge's transaction is open nothing deletes a key version.
LEMMA PurgeRunsAlone ==
    ASSUME [Next]_vars, ~ScanPurge, ~CommitPurge, ~RollbackPurge
    PROVE  purge' = purge /\ versions \subseteq versions'
<1>1. ASSUME NEW q \in rotations, RotationStep(q) PROVE purge' = purge
  BY <1>1 DEF RotationStep, AuthorizeRotation, CheckWraps, BeginRotation, CommitRotation,
     RefuseRotation, AdvanceRotation
<1>2. ASSUME NEW p \in posts, PostStep(p) PROVE purge' = purge
  BY <1>2 DEF PostStep, AuthorizePost, InsertMessage, CommitMessage, RefusePost, AdvancePost
<1>3. ASSUME NEW q \in removals, RemovalStep(q) PROVE purge' = purge
  BY <1>3 DEF RemovalStep, DeleteMembership, DeleteUnread, DeleteWraps, CommitRemoval,
     RefuseRemoval, AdvanceRemoval
<1>4. ASSUME \/ \E u \in User, c \in Chat, users \in SUBSET User, k \in Key :
                  CreateChat(u, c, users, k)
             \/ \E r \in Req, u \in User, c \in Chat :
                  \/ \E k \in Key, i \in Msg : StartRotation(r, u, c, k, i)
                  \/ \E i \in Msg : StartPost(r, u, c, i)
                  \/ \E t \in User : AuthorizeRemoval(r, u, c, t)
      PROVE  purge' = purge
  BY <1>4 DEF CreateChat, StartRotation, StartPost, AuthorizeRemoval
<1>5. ASSUME \/ \E r \in Req, u \in User, m \in messages : AuthorizeRead(r, u, m)
             \/ \E d \in reads : DeleteRead(d)
             \/ \E r \in Req : Abort(r)
             \/ \E m \in messages : Expire(m)
             \/ UNCHANGED vars
      PROVE  purge' = purge
  BY <1>5 DEF AuthorizeRead, DeleteRead, Abort, Expire, vars
<1>6. purge' = purge
  BY <1>1, <1>2, <1>3, <1>4, <1>5 DEF Next
<1>7. versions \subseteq versions'
  BY KeyTableWriters DEF CreateChat, CommitRotation, CommitRemoval
<1> QED
  BY <1>6, <1>7

\* Key versions, chats and who may read what: ids stay unique, a version's chat
\* exists and the purge holds no version that is gone.
LEMMA StepVersions ==
    ASSUME TypeOK, VersionsInv, RotationsInv, RemovalsInv, [Next]_vars
    PROVE  VersionsInv'
<1>0. \A v \in versions : v.chat \in Chat
  BY DEF TypeOK, Version
<1>1. \A v, w \in versions' : v.id = w.id => v = w
  <2>1. ASSUME NEW u \in User, NEW c \in Chat, NEW users \in SUBSET User, NEW k \in Key,
               CreateChat(u, c, users, k)
        PROVE  \A v, w \in versions' : v.id = w.id => v = w
    <3>1. PICK t \in StartTimes : versions' = versions \cup {[id |-> k, chat |-> c, at |-> t]}
      BY <2>1 DEF CreateChat
    <3> QED
      BY <2>1, <3>1 DEF CreateChat, FreshKey, VersionsInv
  <2>2. ASSUME NEW q \in rotations, CommitRotation(q)
        PROVE  \A v, w \in versions' : v.id = w.id => v = w
    BY <2>2 DEF CommitRotation, VersionsInv
  <2>3. ASSUME (\E q \in removals : CommitRemoval(q)) \/ CommitPurge
        PROVE  versions' \subseteq versions
    BY <2>3 DEF CommitRemoval, CommitPurge
  <2> QED
    BY <2>1, <2>2, <2>3, KeyTableWriters DEF VersionsInv
<1>2. \A v \in versions' : Exists(v.chat)'
  <2>1. \A v \in versions : members'[v.chat] # {}
    BY <1>0, MembersShrink DEF VersionsInv
  <2>2. ASSUME NEW u \in User, NEW c \in Chat, NEW users \in SUBSET User, NEW k \in Key,
               CreateChat(u, c, users, k)
        PROVE  \A v \in versions' : members'[v.chat] # {}
    <3>1. PICK t \in StartTimes : versions' = versions \cup {[id |-> k, chat |-> c, at |-> t]}
      BY <2>2 DEF CreateChat
    <3>2. members'[c] # {}
      BY <2>2 DEF CreateChat, TypeOK
    <3> QED
      BY <2>1, <3>1, <3>2
  <2>3. ASSUME NEW q \in rotations, CommitRotation(q)
        PROVE  \A v \in versions' : members'[v.chat] # {}
    BY <2>1, <2>3 DEF CommitRotation, RotationsInv, Exists
  <2>4. ASSUME (\E q \in removals : CommitRemoval(q)) \/ CommitPurge
        PROVE  versions' \subseteq versions
    BY <2>4 DEF CommitRemoval, CommitPurge
  <2> QED
    BY <2>1, <2>2, <2>3, <2>4, KeyTableWriters DEF Exists
<1>3. (purge.versions \subseteq versions)'
  BY PurgeRunsAlone DEF ScanPurge, CommitPurge, RollbackPurge, NoPurge, tables, VersionsInv
<1>4. IsFiniteSet(versions)'
  <2>1. \A new : IsFiniteSet(versions \cup {new})
    BY FS_AddElement DEF VersionsInv
  <2>2. \A S \in SUBSET versions : IsFiniteSet(S)
    BY FS_Subset DEF VersionsInv
  <2> QED
    BY ZenonT(30), <2>1, <2>2, KeyTableWriters DEF CreateChat, CommitRotation, CommitRemoval,
       CommitPurge, VersionsInv
<1> QED
  BY <1>1, <1>2, <1>3, <1>4 DEF VersionsInv

LEMMA StepRotations ==
    ASSUME TypeOK, RotationsInv, RemovalsInv, [Next]_vars
    PROVE  RotationsInv'
<1> DEFINE Covers(q) == /\ members'[q.chat] # {}
                        /\ q.pc \in {"begin", "commit"} => members'[q.chat] \subseteq q.members
<1>1. \A q \in rotations : Covers(q)
  BY MembersShrink, RotationFields DEF TypeOK, RotationsInv
<1>2. ASSUME NEW r \in Req, NEW u \in User, NEW c \in Chat, NEW k \in Key, NEW i \in Msg,
             StartRotation(r, u, c, k, i)
      PROVE  \A q \in rotations' : Covers(q)
  <2> DEFINE new == [id |-> r, pc |-> "authorize", user |-> u, chat |-> c, key |-> k,
                     msg |-> i, members |-> members[c], at |-> 0]
  <2>1. rotations' = rotations \cup {new} /\ members' = members /\ members[c] # {}
    BY <1>2 DEF StartRotation, tables
  <2>2. Covers(new)
    BY <2>1
  <2> QED
    BY <1>1, <2>1, <2>2
<1>3. ASSUME NEW q \in rotations, RotationStep(q)
      PROVE  \A o \in rotations' : Covers(o)
  <2>0. q \in Rotation /\ q.chat \in Chat /\ members[q.chat] # {}
    BY RotationFields DEF TypeOK, RotationsInv, Exists
  <2>1. CASE AuthorizeRotation(q)
    <3> DEFINE new == [q EXCEPT !.pc = "list"]
    <3>1. new.pc = "list" /\ new.chat = q.chat
      BY <2>0 DEF Rotation
    <3>2. rotations' = (rotations \ {q}) \cup {new}
      BY <2>1 DEF AuthorizeRotation, AdvanceRotation
    <3> QED
      BY <1>1, <3>1, <3>2
  <2>2. CASE CheckWraps(q)
    <3> DEFINE new == [q EXCEPT !.pc = "begin"]
    <3>1. new.chat = q.chat /\ new.members = q.members
      BY <2>0 DEF Rotation
    <3>2. /\ rotations' = (rotations \ {q}) \cup {new}
          /\ members' = members /\ q.members = members[q.chat]
      BY <2>2 DEF CheckWraps, AdvanceRotation, tables
    <3> QED
      BY <1>1, <2>0, <3>1, <3>2
  <2>3. CASE BeginRotation(q)
    <3>1. PICK t \in StartTimes : AdvanceRotation(q, [q EXCEPT !.pc = "commit", !.at = t])
      BY <2>3 DEF BeginRotation
    <3> DEFINE new == [q EXCEPT !.pc = "commit", !.at = t]
    <3>2. new.chat = q.chat /\ new.members = q.members
      BY <2>0 DEF Rotation
    <3>3. rotations' = (rotations \ {q}) \cup {new} /\ q.pc = "begin"
      BY <2>3, <3>1 DEF BeginRotation, AdvanceRotation
    <3> QED
      BY <1>1, <3>2, <3>3
  <2>4. CASE CommitRotation(q) \/ RefuseRotation(q)
    BY <1>1, <2>4 DEF CommitRotation, RefuseRotation
  <2> QED
    BY <1>3, <2>1, <2>2, <2>3, <2>4 DEF RotationStep
<1>4. ASSUME rotations' \subseteq rotations
      PROVE  \A q \in rotations' : Covers(q)
  BY <1>1, <1>4
<1>5. \A q \in rotations' : Covers(q)
  <2>1. \/ \E r \in Req, u \in User, c \in Chat, k \in Key, i \in Msg : StartRotation(r, u, c, k, i)
        \/ \E q \in rotations : RotationStep(q)
        \/ rotations' \subseteq rotations
    BY DEF Next, vars, requests, CreateChat, StartPost, AuthorizeRemoval, AuthorizeRead,
       PostStep, AuthorizePost, InsertMessage, CommitMessage, RefusePost, AdvancePost,
       RemovalStep, DeleteMembership, DeleteUnread, DeleteWraps, CommitRemoval,
       RefuseRemoval, AdvanceRemoval, DeleteRead, Abort, Expire, ScanPurge, CommitPurge,
       RollbackPurge
  <2> QED
    BY <1>2, <1>3, <1>4, <2>1
<1> QED
  BY <1>5 DEF RotationsInv, Exists

LEMMA StepRemovals ==
    ASSUME TypeOK, VersionsInv, RemovalsInv, [Next]_vars
    PROVE  RemovalsInv'
<1>1. \A c \in Chat : /\ admins'[c] \subseteq members'[c]
                      /\ \A a, b \in admins'[c] : a = b
                      /\ admins[c] # {} => admins'[c] = admins[c]
  <2>1. ASSUME NEW u \in User, NEW c \in Chat, NEW users \in SUBSET User, NEW k \in Key,
               CreateChat(u, c, users, k), NEW d \in Chat
        PROVE  /\ admins'[d] \subseteq members'[d]
               /\ \A a, b \in admins'[d] : a = b
               /\ admins[d] # {} => admins'[d] = admins[d]
    BY <2>1 DEF CreateChat, TypeOK, RemovalsInv, Exists
  <2>2. ASSUME NEW q \in removals, CommitRemoval(q), NEW d \in Chat
        PROVE  /\ admins'[d] \subseteq members'[d]
               /\ \A a, b \in admins'[d] : a = b
               /\ admins[d] # {} => admins'[d] = admins[d]
    <3>1. q.chat \in Chat /\ q.user \in admins[q.chat] /\ q.target # q.user
      BY RemovalFields DEF TypeOK, RemovalsInv
    <3> QED
      BY <2>2, <3>1 DEF CommitRemoval, TypeOK, RemovalsInv
  <2>3. ASSUME (\E q \in rotations : CommitRotation(q)) \/ CommitPurge
        PROVE  members' = members /\ admins' = admins
    BY <2>3 DEF CommitRotation, CommitPurge
  <2> QED
    BY <2>1, <2>2, <2>3, KeyTableWriters DEF RemovalsInv
<1> DEFINE Mine(q) == /\ q.user \in admins'[q.chat]
                      /\ q.target # q.user
                      /\ \A x \in q.wraps : x.chat = q.chat /\ x.user = q.target
           Alone(q, S) == q.pc # "membership" =>
               \A o \in S : o.pc # "membership" /\ o.chat = q.chat /\ o.target = q.target => o = q
           Holds(q) == q.pc # "membership" => q.target \in members'[q.chat]
<1>2. \A q \in removals : Mine(q) /\ Alone(q, removals)
  BY <1>1, RemovalFields DEF TypeOK, RemovalsInv
<1>3. ASSUME NEW r \in Req, NEW u \in User, NEW c \in Chat, NEW t \in User,
             AuthorizeRemoval(r, u, c, t)
      PROVE  \A q \in removals' : Mine(q) /\ Alone(q, removals') /\ Holds(q)
  <2> DEFINE new == [id |-> r, pc |-> "membership", user |-> u, chat |-> c, target |-> t,
                     unread |-> {}, wraps |-> {}]
  <2>1. /\ removals' = removals \cup {new} /\ members' = members /\ admins' = admins
        /\ u \in admins[c] /\ u # t
    BY <1>3 DEF AuthorizeRemoval, tables
  <2>2. Mine(new) /\ new.pc = "membership"
    BY <2>1
  <2> QED
    BY <1>2, <2>1, <2>2 DEF RemovalsInv
<1>4. ASSUME NEW q \in removals, RemovalStep(q)
      PROVE  \A o \in removals' : Mine(o) /\ Alone(o, removals') /\ Holds(o)
  <2>0. q \in Removal /\ q.chat \in Chat
    BY RemovalFields DEF TypeOK
  <2>1. CASE DeleteMembership(q)
    <3> DEFINE new == [q EXCEPT !.pc = "unread"]
    <3>1. /\ new.chat = q.chat /\ new.target = q.target /\ new.user = q.user
          /\ new.wraps = q.wraps /\ new.pc = "unread"
      BY <2>0 DEF Removal
    <3>2. /\ removals' = (removals \ {q}) \cup {new} /\ members' = members /\ admins' = admins
          /\ q.target \in members[q.chat] /\ ~RowLocked(q)
      BY <2>1 DEF DeleteMembership, AdvanceRemoval, tables
    <3>3. \A o \in removals \ {q} : ~(o.chat = q.chat /\ o.target = q.target /\ o.pc # "membership")
      BY <3>2 DEF RowLocked
    <3> HIDE DEF new
    <3>4. Mine(new) /\ Holds(new) /\ Alone(new, removals')
      BY <1>2, <3>1, <3>2, <3>3
    <3>5. \A o \in removals \ {q} : Mine(o) /\ Holds(o) /\ Alone(o, removals')
      BY <1>2, <3>1, <3>2, <3>3 DEF RemovalsInv
    <3> QED
      BY <3>2, <3>4, <3>5
  <2>2. ASSUME NEW new, q.pc # "membership", AdvanceRemoval(q, new),
               new.chat = q.chat, new.target = q.target, new.user = q.user,
               \A x \in new.wraps : x.chat = q.chat /\ x.user = q.target
        PROVE  \A o \in removals' : Mine(o) /\ Alone(o, removals') /\ Holds(o)
    <3>1. /\ removals' = (removals \ {q}) \cup {new} /\ members' = members /\ admins' = admins
      BY <2>2 DEF AdvanceRemoval, tables
    <3>2. q.target \in members[q.chat]
      BY <2>2 DEF RemovalsInv
    <3>3. \A o \in removals \ {q} : ~(o.chat = q.chat /\ o.target = q.target /\ o.pc # "membership")
      BY <1>2, <2>2
    <3>4. Mine(new) /\ Holds(new) /\ Alone(new, removals')
      BY <1>2, <2>2, <3>1, <3>2, <3>3
    <3>5. \A o \in removals \ {q} : Mine(o) /\ Holds(o) /\ Alone(o, removals')
      BY <1>2, <2>2, <3>1, <3>3 DEF RemovalsInv
    <3> QED
      BY <3>1, <3>4, <3>5
  <2>3. CASE DeleteUnread(q)
    <3> DEFINE new == [q EXCEPT !.pc = "wraps",
                       !.unread = {x \in unread : x.chat = q.chat /\ x.user = q.target}]
    <3>1. new.chat = q.chat /\ new.target = q.target /\ new.user = q.user /\ new.wraps = q.wraps
      BY <2>0 DEF Removal
    <3>2. q.pc # "membership" /\ AdvanceRemoval(q, new)
      BY <2>3 DEF DeleteUnread
    <3> HIDE DEF new
    <3> QED
      BY <1>2, <2>2, <3>1, <3>2
  <2>4. CASE DeleteWraps(q)
    <3> DEFINE own == {x \in wraps : x.chat = q.chat /\ x.user = q.target}
               new == [q EXCEPT !.pc = "commit", !.wraps = own]
    <3>1. new.chat = q.chat /\ new.target = q.target /\ new.user = q.user /\ new.wraps = own
      BY <2>0 DEF Removal
    <3>2. q.pc # "membership" /\ AdvanceRemoval(q, new)
      BY <2>4 DEF DeleteWraps
    <3>3. \A x \in own : x.chat = q.chat /\ x.user = q.target
      OBVIOUS
    <3> HIDE DEF new, own
    <3> QED
      BY <2>2, <3>1, <3>2, <3>3
  <2>5. CASE CommitRemoval(q)
    <3>1. q.pc # "membership" /\ removals' = removals \ {q}
          /\ members' = [members EXCEPT ![q.chat] = @ \ {q.target}]
      BY <2>5 DEF CommitRemoval
    <3>2. \A o \in removals \ {q} : ~(o.chat = q.chat /\ o.target = q.target /\ o.pc # "membership")
      BY <1>2, <3>1
    <3>3. \A o \in removals \ {q} : o.chat \in Chat
      BY RemovalFields DEF TypeOK
    <3>4. \A o \in removals \ {q} : Holds(o)
      BY <2>0, <3>1, <3>2, <3>3 DEF RemovalsInv, TypeOK
    <3> QED
      BY <1>2, <3>1, <3>4
  <2>6. CASE RefuseRemoval(q)
    <3>1. removals' = removals \ {q} /\ members' = members
      BY <2>6 DEF RefuseRemoval, tables
    <3> QED
      BY <1>2, <3>1 DEF RemovalsInv
  <2> QED
    BY <1>4, <2>1, <2>3, <2>4, <2>5, <2>6 DEF RemovalStep
<1>5. ASSUME removals' \subseteq removals, \A q \in removals : members'[q.chat] = members[q.chat]
      PROVE  \A q \in removals' : Mine(q) /\ Alone(q, removals') /\ Holds(q)
  BY <1>2, <1>5 DEF RemovalsInv
<1>6. (removals' \subseteq removals /\ members' = members) => \A q \in removals : members'[q.chat] = members[q.chat]
  OBVIOUS
<1>7. ASSUME NEW u \in User, NEW c \in Chat, NEW users \in SUBSET User, NEW k \in Key,
             CreateChat(u, c, users, k), NEW q \in removals
      PROVE  members'[q.chat] = members[q.chat]
  <2>1. q.chat \in Chat /\ q.user \in members[q.chat]
    BY RemovalFields DEF TypeOK, RemovalsInv
  <2> QED
    BY <1>7, <2>1 DEF CreateChat, TypeOK, Exists
<1>8. \A q \in removals' : Mine(q) /\ Alone(q, removals') /\ Holds(q)
  BY <1>3, <1>4, <1>5, <1>6, <1>7, RemovalWriters
<1> QED
  BY <1>1, <1>8 DEF RemovalsInv

\* Among finitely many key versions, a superseded one has a newest above it.
LEMMA NewestAbove ==
    ASSUME TypeOK, VersionsInv, NEW v \in versions, Superseded(v)
    PROVE  \E w \in versions : w.chat = v.chat /\ Newer(w, v) /\ ~Superseded(w)
<1> DEFINE Above(x) == {y \in versions : y.chat = v.chat /\ Newer(y, x)}
           C == Above(v)
           T == {Above(x) : x \in C}
           F == FiniteSubsetsOf(versions)
<1>0. \A x \in versions : x.at \in Nat /\ x.id \in Nat
  BY KeysAreOrdered DEF TypeOK, Version
<1>1. IsWellFoundedOn(StrictSubsetOrdering(versions), F)
  BY FS_StrictSubsetOrderingWellFounded
<1>2. T \subseteq F /\ T # {}
  <2>1. \A x : Above(x) \in SUBSET versions /\ IsFiniteSet(Above(x))
    BY FS_Subset DEF VersionsInv
  <2>2. C # {}
    BY DEF Superseded
  <2> QED
    BY <2>1, <2>2 DEF FiniteSubsetsOf
<1>3. PICK S \in T : \A U \in T : ~(<<U, S>> \in StrictSubsetOrdering(versions))
  BY <1>1, <1>2, WFMin
<1>4. PICK w \in C : S = Above(w)
  OBVIOUS
<1>5. ASSUME NEW y \in versions, y.chat = w.chat, Newer(y, w) PROVE FALSE
  <2>1. y \in C
    BY <1>0, <1>4, <1>5 DEF Newer
  <2>2. Above(y) \subseteq Above(w)
    BY <1>0, <1>4, <1>5 DEF Newer
  <2>3. y \in Above(w) /\ y \notin Above(y)
    BY <1>0, <1>4, <1>5 DEF Newer
  <2>4. Above(y) \in T /\ Above(y) \in SUBSET versions /\ Above(w) \in SUBSET versions
    BY <2>1
  <2>5. <<Above(y), S>> \in StrictSubsetOrdering(versions)
    BY <1>4, <2>2, <2>3, <2>4 DEF StrictSubsetOrdering
  <2> QED
    BY <1>3, <2>4, <2>5
<1> QED
  BY <1>4, <1>5 DEF Superseded

\* The purge's scan finds only versions that leave a newer one and that nothing
\* it keeps names; until its end no step can undo that.
LEMMA StepPurge ==
    ASSUME TypeOK, VersionsInv, PurgeInv, [Next]_vars
    PROVE  PurgeInv'
<1>1. CASE ScanPurge
  <2> DEFINE remaining == messages \ expired
             idle == {v \in versions : Superseded(v) /\ Unused(v, remaining)}
  <2>1. /\ purge'.versions = idle /\ purge'.kept = remaining /\ purge'.open
        /\ versions' = versions
    BY <1>1 DEF ScanPurge, tables
  <2>2. \A v \in idle : \E w \in versions \ idle : w.chat = v.chat /\ Newer(w, v)
    BY NewestAbove
  <2>3. \A v \in idle : Unused(v, remaining)
    OBVIOUS
  <2> HIDE DEF idle, remaining
  <2> QED
    BY <2>1, <2>2, <2>3 DEF PurgeInv, Newer, Unused, Names
<1>2. CASE CommitPurge \/ RollbackPurge
  BY <1>2 DEF CommitPurge, RollbackPurge, NoPurge, PurgeInv
<1>3. CASE ~ScanPurge /\ ~CommitPurge /\ ~RollbackPurge
  <2>1. purge' = purge /\ versions \subseteq versions'
    BY <1>3, PurgeRunsAlone
  <2> QED
    BY <2>1 DEF PurgeInv, Newer, Unused, Names
<1> QED
  BY <1>1, <1>2, <1>3

\* No step leaves a member without a wrap of a stored version of the chat.
LEMMA StepHoldsKeys ==
    ASSUME StoreInv, [Next]_vars
    PROVE  MemberHoldsEveryKey'
<1> USE DEF StoreInv
<1> DEFINE W(v, u) == [chat |-> v.chat, key |-> v.id, user |-> u]
<1>1. \A v \in versions : /\ v.chat \in Chat /\ members[v.chat] # {}
                          /\ members'[v.chat] \subseteq members[v.chat]
  <2>1. \A v \in versions : v.chat \in Chat /\ members[v.chat] # {}
    BY DEF TypeOK, Version, VersionsInv, Exists
  <2> QED
    BY <2>1, MembersShrink DEF Exists
<1>2. \A v \in versions : \A u \in members'[v.chat] : W(v, u) \in wraps
  BY <1>1 DEF MemberHoldsEveryKey
<1>3. ASSUME NEW d \in User, NEW c \in Chat, NEW users \in SUBSET User, NEW k \in Key,
             CreateChat(d, c, users, k)
      PROVE  MemberHoldsEveryKey'
  <2>1. PICK t \in StartTimes : versions' = versions \cup {[id |-> k, chat |-> c, at |-> t]}
    BY <1>3 DEF CreateChat
  <2>2. /\ wraps' = wraps \cup [chat : {c}, key : {k}, user : users]
        /\ members'[c] = users
    BY <1>3 DEF CreateChat, TypeOK
  <2>3. ASSUME NEW u \in users PROVE [chat |-> c, key |-> k, user |-> u] \in wraps'
    BY <2>2
  <2>4. ASSUME NEW v \in versions', NEW u \in members'[v.chat]
        PROVE  W(v, u) \in wraps'
    BY <1>2, <2>1, <2>2, <2>3
  <2> QED
    BY <2>4 DEF MemberHoldsEveryKey
<1>4. ASSUME NEW q \in rotations, CommitRotation(q)
      PROVE  MemberHoldsEveryKey'
  <2> DEFINE new == [id |-> q.key, chat |-> q.chat, at |-> q.at]
  <2>1. new.id = q.key /\ new.chat = q.chat /\ versions' = versions \cup {new}
    BY <1>4 DEF CommitRotation
  <2>2. /\ wraps' = wraps \cup [chat : {q.chat}, key : {q.key}, user : q.members]
        /\ members'[q.chat] \subseteq q.members
    BY <1>4 DEF CommitRotation, RotationsInv
  <2> HIDE DEF new
  <2>3. ASSUME NEW u \in q.members PROVE [chat |-> q.chat, key |-> q.key, user |-> u] \in wraps'
    BY <2>2
  <2>4. ASSUME NEW v \in versions', NEW u \in members'[v.chat]
        PROVE  W(v, u) \in wraps'
    BY <1>2, <2>1, <2>2, <2>3
  <2> QED
    BY <2>4 DEF MemberHoldsEveryKey
<1>5. ASSUME NEW q \in removals, CommitRemoval(q)
      PROVE  MemberHoldsEveryKey'
  <2>1. /\ versions' = versions /\ wraps' = wraps \ q.wraps
        /\ members' = [members EXCEPT ![q.chat] = @ \ {q.target}]
    BY <1>5 DEF CommitRemoval
  <2>2. q.chat \in Chat /\ \A x \in q.wraps : x.chat = q.chat /\ x.user = q.target
    BY RemovalFields DEF TypeOK, RemovalsInv
  <2>3. ASSUME NEW v \in versions', NEW u \in members'[v.chat]
        PROVE  W(v, u) \in wraps'
    <3>1. W(v, u) \in wraps
      BY <1>2, <2>1
    <3>2. W(v, u).chat = v.chat /\ W(v, u).user = u
      OBVIOUS
    <3>3. ~(v.chat = q.chat /\ u = q.target)
      BY <2>1, <2>2 DEF TypeOK
    <3> QED
      BY <2>1, <2>2, <3>1, <3>2, <3>3
  <2> QED
    BY <2>3 DEF MemberHoldsEveryKey
<1>6. CASE CommitPurge
  <2>1. /\ versions' = versions \ purge.versions /\ members' = members
        /\ wraps' = {x \in wraps : \A v \in purge.versions : v.id # x.key}
    BY <1>6 DEF CommitPurge
  <2>2. ASSUME NEW v \in versions', NEW u \in members'[v.chat]
        PROVE  W(v, u) \in wraps'
    <3>1. W(v, u) \in wraps /\ W(v, u).key = v.id
      BY <1>2, <2>1
    <3>2. \A w \in purge.versions : w.id # v.id
      BY <2>1 DEF VersionsInv
    <3> QED
      BY <2>1, <3>1, <3>2
  <2> QED
    BY <2>2 DEF MemberHoldsEveryKey
<1>7. CASE UNCHANGED <<members, admins, versions, wraps>>
  BY <1>7 DEF MemberHoldsEveryKey
<1> QED
  BY <1>3, <1>4, <1>5, <1>6, <1>7, KeyTableWriters

\* StoreInv is inductive.
LEMMA StepInv == StoreInv /\ [Next]_vars => StoreInv'
BY StepTypeOK, StepVersions, StepRotations, StepRemovals, StepPurge, StepHoldsKeys DEF StoreInv

-----------------------------------------------------------------------------
\* The inductive invariant holds in every reachable state: the tables agree with
\* each other and with the requests in flight, whatever handlers, purge and
\* aborted transactions interleave.
THEOREM StoreInvariant == Spec => []StoreInv
<1>1. Init => StoreInv
  BY InitInv
<1>2. StoreInv /\ [Next]_vars => StoreInv'
  BY StepInv
<1> QED
  BY <1>1, <1>2, PTL DEF Spec

\* Type correctness and the foreign keys: every wrap and unread row refers to a
\* row that is stored.
THEOREM TypeCorrect == Spec => []TypeOK
<1>1. StoreInv => TypeOK
  BY DEF StoreInv
<1> QED
  BY <1>1, StoreInvariant, PTL

\* Every member of a chat can open every key version of it: no version is ever
\* committed, and no wrap ever deleted, so as to leave a current member out.
THEOREM MembersHoldKeys == Spec => []MemberHoldsEveryKey
<1>1. StoreInv => MemberHoldsEveryKey
  BY DEF StoreInv
<1> QED
  BY <1>1, StoreInvariant, PTL

\* The purge never takes a chat's newest key version, although it deletes what a
\* scan before found and versions are committed in between.
THEOREM NewestSpared == Spec => PurgeSparesNewest
<1>1. ASSUME StoreInv, [Next]_vars
      PROVE  [\A v \in versions \ versions' :
                 \E w \in versions' : w.chat = v.chat /\ Newer(w, v)]_vars
  <2>1. CASE CommitPurge
    BY <1>1, <2>1 DEF CommitPurge, StoreInv, PurgeInv
  <2>2. CASE ScanPurge \/ RollbackPurge
    BY <2>2 DEF ScanPurge, RollbackPurge, tables
  <2>3. CASE ~ScanPurge /\ ~CommitPurge /\ ~RollbackPurge
    BY <1>1, <2>3, PurgeRunsAlone
  <2> QED
    BY <2>1, <2>2, <2>3
<1> QED
  BY <1>1, StoreInvariant, PTL DEF Spec, PurgeSparesNewest

\* A message the purge saw and keeps does not lose its key version.
THEOREM KeptReadable == Spec => StaysReadable
<1>1. ASSUME StoreInv, [Next]_vars
      PROVE  [\A m \in messages \cap messages' :
                 Readable(m) /\ (purge.open => m \in purge.kept) => Readable(m)']_vars
  <2>1. CASE CommitPurge
    BY <1>1, <2>1 DEF CommitPurge, StoreInv, PurgeInv, Readable, Unused, Names
  <2>2. CASE ScanPurge \/ RollbackPurge
    BY <2>2 DEF ScanPurge, RollbackPurge, tables, Readable, Names
  <2>3. CASE ~ScanPurge /\ ~CommitPurge /\ ~RollbackPurge
    BY <1>1, <2>3, PurgeRunsAlone DEF Readable, Names
  <2> QED
    BY <2>1, <2>2, <2>3
<1> QED
  BY <1>1, StoreInvariant, PTL DEF Spec, StaysReadable

\* The store implements the roster: a chat's members are fixed when it is created
\* and leave one at a time, each removed by another member who is its admin at
\* the commit of the removal and not only when the request was checked.
THEOREM RosterRefinement == Spec => FollowsRoster
<1>1. Init => R!Init
  BY DEF Init, R!Init, Asked
<1>2. ASSUME StoreInv, [Next]_vars
      PROVE  [R!Next]_<<members, admins, Asked>>
  <2> USE DEF StoreInv
  <2>1. ASSUME NEW u \in User, NEW c \in Chat, NEW users \in SUBSET User, NEW k \in Key,
               CreateChat(u, c, users, k), removals' = removals
        PROVE  R!Next
    <3>1. R!Found(c, u, users)
      BY <2>1 DEF CreateChat, Exists, Asked, R!Found
    <3> QED
      BY <3>1 DEF R!Next
  <2>2. ASSUME NEW r \in Req, NEW u \in User, NEW c \in Chat, NEW t \in User,
               AuthorizeRemoval(r, u, c, t)
        PROVE  R!Next
    <3> DEFINE new == [id |-> r, pc |-> "membership", user |-> u, chat |-> c, target |-> t,
                       unread |-> {}, wraps |-> {}]
    <3>1. new.chat = c /\ new.user = u /\ new.target = t /\ removals' = removals \cup {new}
      BY <2>2 DEF AuthorizeRemoval
    <3> HIDE DEF new
    <3>2. Asked' = Asked \cup {<<c, u, t>>}
      BY <3>1 DEF Asked
    <3>3. R!Ask(c, u, t)
      BY <2>2, <3>2 DEF AuthorizeRemoval, tables, R!Ask
    <3> QED
      BY <3>3 DEF R!Next
  <2>3. ASSUME NEW q \in removals, RemovalStep(q)
        PROVE  [R!Next]_<<members, admins, Asked>>
    <3>0. /\ q \in Removal /\ q.chat \in Chat /\ q.user \in User /\ q.target \in User
      BY <1>2, RemovalFields DEF TypeOK
    <3>1. ASSUME NEW new, AdvanceRemoval(q, new),
                 new.chat = q.chat, new.user = q.user, new.target = q.target
          PROVE  UNCHANGED <<members, admins, Asked>>
      BY <3>1 DEF AdvanceRemoval, tables, Asked
    <3>2. CASE DeleteMembership(q)
      BY <3>0, <3>1, <3>2 DEF DeleteMembership, Removal
    <3>3. CASE DeleteUnread(q)
      BY <3>0, <3>1, <3>3 DEF DeleteUnread, Removal
    <3>4. CASE DeleteWraps(q)
      BY <3>0, <3>1, <3>4 DEF DeleteWraps, Removal
    <3>5. CASE CommitRemoval(q)
      <4>1. q.user \in admins[q.chat] /\ q.target \in members[q.chat] \ {q.user}
        BY <1>2, <3>5 DEF CommitRemoval, RemovalsInv
      <4>2. <<q.chat, q.user, q.target>> \in Asked
        BY DEF Asked
      <4>3. Asked' \in {Asked, Asked \ {<<q.chat, q.user, q.target>>}}
        <5>1. removals' = removals \ {q}
          BY <3>5 DEF CommitRemoval
        <5> QED
          BY <5>1 DEF Asked
      <4>4. R!Remove(q.chat, q.user, q.target)
        BY <3>5, <4>1, <4>2, <4>3 DEF CommitRemoval, R!Remove
      <4> QED
        BY <3>0, <4>4 DEF R!Next
    <3>6. CASE RefuseRemoval(q)
      <4>1. R!Drop
        BY <3>6 DEF RefuseRemoval, tables, Asked, R!Drop
      <4> QED
        BY <4>1 DEF R!Next
    <3> QED
      BY <2>3, <3>2, <3>3, <3>4, <3>5, <3>6 DEF RemovalStep
  <2>4. ASSUME removals' \subseteq removals, members' = members, admins' = admins
        PROVE  R!Next
    <3>1. R!Drop
      BY <2>4 DEF Asked, R!Drop
    <3> QED
      BY <3>1 DEF R!Next
  <2> QED
    BY <1>2, <2>1, <2>2, <2>3, <2>4, RemovalWriters
<1> QED
  BY <1>1, <1>2, StoreInvariant, PTL DEF Spec, FollowsRoster, R!Spec

=============================================================================
