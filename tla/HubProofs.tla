----------------------------- MODULE HubProofs -----------------------------
(***************************************************************************)
(* Proofs about Hub, for every set of users and notifications and every    *)
(* finite set of connections.                                              *)
(***************************************************************************)
EXTENDS Hub, TLAPS, FiniteSetTheorems

\* What the notifications do to types: they keep their shape in every step.
LEMMA NotificationFields ==
    ASSUME NEW x \in Notification
    PROVE  /\ x.user \in User /\ x.left \in SUBSET Conn /\ x.to \in Conn \cup {NoConn}
           /\ \A p \in {"idle", "rlock", "parked", "holding", "writing"}, u \in User :
                [x EXCEPT !.pc = p, !.user = u] \in Notification
           /\ \A p \in {"idle", "rlock", "parked", "holding", "writing"}, s \in SUBSET Conn :
                /\ [x EXCEPT !.pc = p] \in Notification
                /\ [x EXCEPT !.pc = p, !.left = s] \in Notification
                /\ \A c \in Conn \cup {NoConn} :
                     /\ [x EXCEPT !.pc = p, !.to = c] \in Notification
                     /\ [x EXCEPT !.pc = p, !.left = s, !.to = c] \in Notification
BY DEF Notification

\* With the registry exact, the registered connections are those whose goroutine
\* is between Register and Unregister.
LEMMA RegisteredAreLive ==
    ASSUME TypeOK, RegistryIsExact
    PROVE  Registered = {c \in Conn : pc[c] \in Live} /\ IsFiniteSet(Registered)
<1>1. Registered = {c \in Conn : pc[c] \in Live}
  BY DEF TypeOK, RegistryIsExact, Registered
<1> QED
  BY <1>1, ConnIsFinite, FS_Subset

\* The steps that do not touch the registry move no goroutine in or out of it.
LEMMA RegistryWriters ==
    ASSUME TypeOK, [Next]_vars
    PROVE  \/ \E c \in Conn : Register(c) \/ Unregister(c) \/ CrashInAck(c)
           \/ /\ conns' = conns /\ total' = total
              /\ \A c \in Conn : /\ pc'[c] \in Live <=> pc[c] \in Live
                                 /\ pc[c] \in Live => owner'[c] = owner[c]
<1> DEFINE Same == /\ conns' = conns /\ total' = total
                   /\ \A c \in Conn : /\ pc'[c] \in Live <=> pc[c] \in Live
                                      /\ pc[c] \in Live => owner'[c] = owner[c]
<1>1. ASSUME NEW c \in Conn, NEW u \in User, Connect(c, u) PROVE Same
  BY <1>1 DEF Connect, Goto, TypeOK, ConnPC, Live
<1>2. ASSUME NEW c \in Conn, ReadHeartbeat(c) \/ ReadError(c) PROVE Same
  BY <1>2 DEF ReadHeartbeat, ReadError, Goto, TypeOK, ConnPC, Live
<1>3. ASSUME NEW c \in Conn, \/ AnnounceLock(c, "register", "registering")
                             \/ AnnounceLock(c, "unregister", "unregistering")
      PROVE  Same
  BY <1>3 DEF AnnounceLock, Goto, TypeOK, ConnPC, Live
<1>4. ASSUME NEW c \in Conn, BeginAck(c) \/ EndAck(c) \/ Close(c) PROVE Same
  BY <1>4 DEF BeginAck, EndAck, Close, Goto, TypeOK, ConnPC, Live
<1>5. ASSUME NEW c \in Conn, Stall(c) \/ Resume(c) \/ Leave(c) PROVE Same
  BY <1>5 DEF Stall, Resume, Leave
<1>6. ASSUME NEW n \in Notifier, (\E u \in User : Notify(n, u)) \/ NotifierStep(n) PROVE Same
  BY <1>6 DEF Notify, NotifierStep, RLock, BeginSend, EndSend, RUnlock, PanicInSend, Goes
<1>7. ASSUME UNCHANGED vars PROVE Same
  BY <1>7 DEF vars
<1> QED
  BY <1>1, <1>2, <1>3, <1>4, <1>5, <1>6, <1>7 DEF Next, ConnStep

-----------------------------------------------------------------------------
\* The initial state satisfies the invariant.
LEMMA InitInv == Init => HubInv /\ WritesToRegistered
<1> SUFFICES ASSUME Init PROVE HubInv /\ WritesToRegistered
  OBVIOUS
<1>1. TypeOK
  BY DEF Init, TypeOK, ConnPC, Notification
<1>2. RegistryIsExact
  <2>1. Registered = {}
    BY DEF Init, Registered
  <2> QED
    BY <2>1, FS_EmptySet DEF Init, RegistryIsExact, Live
<1>3. LockInv /\ WritesToRegistered
  <2>1. \A n \in Notifier : notifiers[n].pc = "idle"
    BY DEF Init
  <2> QED
    BY <2>1, NoConnIsNone DEF Init, LockInv, WritesToRegistered, Readers
<1> QED
  BY <1>1, <1>2, <1>3 DEF HubInv

\* Every step preserves the types.
LEMMA StepType == HubInv /\ [Next]_vars => TypeOK'
<1> SUFFICES ASSUME HubInv, [Next]_vars PROVE TypeOK'
  OBVIOUS
<1> USE DEF HubInv
<1>1. ASSUME NEW c \in Conn, NEW u \in User, Connect(c, u) PROVE TypeOK'
  BY <1>1 DEF Connect, Goto, TypeOK, ConnPC
<1>2. ASSUME NEW c \in Conn, ReadHeartbeat(c) \/ ReadError(c) \/ BeginAck(c) \/ EndAck(c) \/ Close(c)
      PROVE  TypeOK'
  BY <1>2 DEF ReadHeartbeat, ReadError, BeginAck, EndAck, Close, Goto, TypeOK, ConnPC
<1>3. ASSUME NEW c \in Conn, \/ AnnounceLock(c, "register", "registering")
                             \/ AnnounceLock(c, "unregister", "unregistering")
      PROVE  TypeOK'
  BY <1>3 DEF AnnounceLock, Goto, TypeOK, ConnPC
<1>4. ASSUME NEW c \in Conn, Register(c) \/ Unregister(c) PROVE TypeOK'
  <2>1. conns' \in [User -> SUBSET Conn] /\ total' \in Nat
    <3>1. owner[c] \in User /\ conns \in [User -> SUBSET Conn] /\ total \in Nat
      BY DEF TypeOK
    <3>2. CASE Register(c)
      BY <3>1, <3>2 DEF Register
    <3>3. CASE Unregister(c)
      <4>1. c \in conns[owner[c]] => total # 0
        <5>1. c \in conns[owner[c]] => c \in Registered
          BY <3>1 DEF Registered
        <5> QED
          BY <5>1, RegisteredAreLive, FS_EmptySet DEF RegistryIsExact
      <4> QED
        BY <3>1, <3>3, <4>1 DEF Unregister
    <3> QED
      BY <1>4, <3>2, <3>3
  <2>2. notifiers' \in [Notifier -> Notification]
    <3>1. Unlock
      BY <1>4 DEF Register, Unregister
    <3>2. ASSUME NEW n \in Notifier
          PROVE  /\ notifiers[n] \in Notification
                 /\ [notifiers[n] EXCEPT !.pc = "holding", !.left = conns'[notifiers[n].user]]
                      \in Notification
      BY <2>1, NotificationFields DEF TypeOK
    <3> QED
      BY <3>1, <3>2 DEF Unlock
  <2>3. /\ pc' \in [Conn -> ConnPC] /\ owner' = owner /\ peer' = peer
        /\ isWriting' = isWriting /\ writer' = NoConn
    BY <1>4 DEF Register, Unregister, Unlock, Goto, TypeOK, ConnPC
  <2> QED
    BY <2>1, <2>2, <2>3 DEF TypeOK
<1>5. ASSUME NEW c \in Conn, CrashInAck(c) PROVE TypeOK'
  <2>1. \A n \in Notifier : [notifiers[n] EXCEPT !.pc = "idle", !.left = {}, !.to = NoConn]
                              \in Notification
    BY NotificationFields DEF TypeOK
  <2> QED
    BY <1>5, <2>1 DEF CrashInAck, TypeOK, ConnPC
<1>6. ASSUME NEW c \in Conn, Stall(c) \/ Resume(c) \/ Leave(c) PROVE TypeOK'
  BY <1>6 DEF Stall, Resume, Leave, TypeOK
<1>7. ASSUME NEW n \in Notifier, NEW x \in Notification, Goes(n, x),
             isWriting' \in [Conn -> BOOLEAN]
      PROVE  TypeOK'
  BY <1>7 DEF Goes, TypeOK
<1>8. ASSUME NEW n \in Notifier, (\E u \in User : Notify(n, u)) \/ NotifierStep(n)
      PROVE  TypeOK'
  <2>0. notifiers[n] \in Notification /\ isWriting \in [Conn -> BOOLEAN]
        /\ conns \in [User -> SUBSET Conn]
    BY DEF TypeOK
  <2>1. ASSUME NEW u \in User, Notify(n, u) PROVE TypeOK'
    BY <1>7, <2>0, <2>1, NotificationFields DEF Notify
  <2>2. CASE RLock(n)
    BY <1>7, <2>0, <2>2, NotificationFields DEF RLock
  <2>3. ASSUME NEW c \in Conn, BeginSend(n, c) PROVE TypeOK'
    BY <1>7, <2>0, <2>3, NotificationFields DEF BeginSend
  <2>4. CASE EndSend(n)
    <3>1. notifiers[n].left \ {notifiers[n].to} \in SUBSET Conn
      BY <2>0, NotificationFields
    <3> QED
      BY <1>7, <2>0, <2>4, <3>1, NotificationFields DEF EndSend
  <2>5. CASE RUnlock(n)
    BY <1>7, <2>0, <2>5, NotificationFields DEF RUnlock
  <2>6. CASE PanicInSend(n)
    BY <1>7, <2>0, <2>6, NotificationFields DEF PanicInSend
  <2> QED
    BY <1>8, <2>1, <2>2, <2>3, <2>4, <2>5, <2>6 DEF NotifierStep
<1>9. CASE UNCHANGED vars
  BY <1>9 DEF TypeOK, vars
<1> QED
  BY <1>1, <1>2, <1>3, <1>4, <1>5, <1>6, <1>8, <1>9 DEF Next, ConnStep

\* Register and Unregister keep the map, the count and the goroutines in line.
LEMMA StepRegistry == HubInv /\ [Next]_vars => RegistryIsExact'
<1> SUFFICES ASSUME HubInv, [Next]_vars PROVE RegistryIsExact'
  OBVIOUS
<1> USE DEF HubInv
<1>1. Registered = {c \in Conn : pc[c] \in Live} /\ IsFiniteSet(Registered)
  BY RegisteredAreLive
<1>2. ASSUME NEW c \in Conn, Register(c) PROVE RegistryIsExact'
  <2>1. /\ pc[c] = "registering" /\ pc' = [pc EXCEPT ![c] = "read"] /\ owner' = owner
        /\ conns' = [conns EXCEPT ![owner[c]] = @ \cup {c}] /\ owner[c] \in User
        /\ total' = IF c \in conns[owner[c]] THEN total ELSE total + 1
    BY <1>2 DEF Register, Goto, TypeOK
  <2>2. \A u \in User : conns'[u] = {d \in Conn : owner'[d] = u /\ pc'[d] \in Live}
    BY <2>1 DEF RegistryIsExact, TypeOK, Live
  <2>3. Registered' = Registered \cup {c} /\ c \notin Registered
    BY <1>1, <2>1 DEF Registered, TypeOK, Live
  <2>4. total' = total + 1
    BY <2>1, <2>3 DEF Registered
  <2>5. Cardinality(Registered') = Cardinality(Registered) + 1
    BY <1>1, <2>3, FS_AddElement
  <2> QED
    BY <2>2, <2>4, <2>5 DEF RegistryIsExact
<1>3. ASSUME NEW c \in Conn, Unregister(c) PROVE RegistryIsExact'
  <2>1. /\ pc[c] = "unregistering" /\ pc' = [pc EXCEPT ![c] = "close"] /\ owner' = owner
        /\ conns' = [conns EXCEPT ![owner[c]] = @ \ {c}] /\ owner[c] \in User
        /\ total' = IF c \in conns[owner[c]] THEN total - 1 ELSE total
    BY <1>3 DEF Unregister, Goto, TypeOK
  <2>2. \A u \in User : conns'[u] = {d \in Conn : owner'[d] = u /\ pc'[d] \in Live}
    BY <2>1 DEF RegistryIsExact, TypeOK, Live
  <2>3. c \in conns[owner[c]] /\ c \in Registered
    BY <1>1, <2>1 DEF RegistryIsExact, Live
  <2>4. Registered' = Registered \ {c}
    <3>1. Registered' = {d \in Conn : pc'[d] \in Live}
      BY <2>1, <2>2 DEF Registered, TypeOK
    <3> QED
      BY <1>1, <2>1, <3>1 DEF TypeOK, Live
  <2>5. Cardinality(Registered') = Cardinality(Registered) - 1
    BY <1>1, <2>3, <2>4, FS_RemoveElement
  <2> QED
    BY <2>1, <2>2, <2>3, <2>5 DEF RegistryIsExact
<1>4. ASSUME NEW c \in Conn, CrashInAck(c) PROVE RegistryIsExact'
  <2>1. /\ conns' = [u \in User |-> {}] /\ total' = 0 /\ pc' = [d \in Conn |-> "none"]
    BY <1>4 DEF CrashInAck
  <2>2. Registered' = {}
    BY <2>1 DEF Registered
  <2> QED
    BY <2>1, <2>2, FS_EmptySet DEF RegistryIsExact, Live
<1>5. ASSUME conns' = conns, total' = total,
             \A c \in Conn : /\ pc'[c] \in Live <=> pc[c] \in Live
                             /\ pc[c] \in Live => owner'[c] = owner[c]
      PROVE  RegistryIsExact'
  <2>1. Registered' = Registered
    BY <1>5 DEF Registered
  <2> QED
    BY <1>5, <2>1 DEF RegistryIsExact
<1> QED
  BY <1>2, <1>3, <1>4, <1>5, RegistryWriters

\* The write lock has one owner, and whoever waits behind it is let in.
LEMMA StepLock == HubInv /\ [Next]_vars => LockInv'
<1> SUFFICES ASSUME HubInv, [Next]_vars PROVE LockInv'
  OBVIOUS
<1> USE NoConnIsNone DEF HubInv
<1>1. ASSUME NEW c \in Conn, NEW u \in User, Connect(c, u) PROVE LockInv'
  BY <1>1 DEF Connect, Goto, TypeOK, LockInv
<1>2. ASSUME NEW c \in Conn, ReadHeartbeat(c) \/ ReadError(c) \/ BeginAck(c) \/ EndAck(c) \/ Close(c)
      PROVE  LockInv'
  BY <1>2 DEF ReadHeartbeat, ReadError, BeginAck, EndAck, Close, Goto, TypeOK, LockInv
<1>3. ASSUME NEW c \in Conn, \/ AnnounceLock(c, "register", "registering")
                             \/ AnnounceLock(c, "unregister", "unregistering")
      PROVE  LockInv'
  BY <1>3 DEF AnnounceLock, Goto, TypeOK, LockInv
<1>4. ASSUME NEW c \in Conn, Register(c) \/ Unregister(c) PROVE LockInv'
  <2>1. /\ writer = c /\ writer' = NoConn
        /\ pc' = [pc EXCEPT ![c] = "read"] \/ pc' = [pc EXCEPT ![c] = "close"]
    BY <1>4 DEF Register, Unregister, Unlock, Goto, LockInv
  <2>2. \A n \in Notifier : notifiers'[n].pc # "parked"
    <3>1. ASSUME NEW n \in Notifier
          PROVE  [notifiers[n] EXCEPT !.pc = "holding", !.left = conns'[notifiers[n].user]].pc
                   = "holding"
      BY DEF TypeOK, Notification
    <3>2. Unlock
      BY <1>4 DEF Register, Unregister
    <3> QED
      BY <3>1, <3>2 DEF Unlock
  <2> QED
    BY <2>1, <2>2 DEF LockInv, TypeOK
<1>5. ASSUME NEW c \in Conn, CrashInAck(c) PROVE LockInv'
  <2>1. \A n \in Notifier :
          [notifiers[n] EXCEPT !.pc = "idle", !.left = {}, !.to = NoConn].pc = "idle"
    BY DEF TypeOK, Notification
  <2> QED
    BY <1>5, <2>1 DEF CrashInAck, LockInv
<1>6. ASSUME NEW c \in Conn, Stall(c) \/ Resume(c) \/ Leave(c) PROVE LockInv'
  BY <1>6 DEF Stall, Resume, Leave, LockInv
<1>7. ASSUME NEW n \in Notifier, NEW x, Goes(n, x), x.pc = "parked" => writer # NoConn
      PROVE  LockInv'
  BY <1>7 DEF Goes, LockInv, TypeOK
<1>8. ASSUME NEW n \in Notifier, (\E u \in User : Notify(n, u)) \/ NotifierStep(n)
      PROVE  LockInv'
  <2>0. notifiers[n] \in Notification
    BY DEF TypeOK
  <2>1. ASSUME NEW u \in User, Notify(n, u) PROVE LockInv'
    BY <1>7, <2>0, <2>1 DEF Notify, Notification
  <2>2. CASE RLock(n)
    BY <1>7, <2>0, <2>2 DEF RLock, Notification
  <2>3. ASSUME NEW c \in Conn, BeginSend(n, c) PROVE LockInv'
    BY <1>7, <2>0, <2>3 DEF BeginSend, Notification
  <2>4. CASE EndSend(n)
    BY <1>7, <2>0, <2>4 DEF EndSend, Notification
  <2>5. CASE RUnlock(n)
    BY <1>7, <2>0, <2>5 DEF RUnlock, Notification
  <2>6. CASE PanicInSend(n)
    BY <1>7, <2>0, <2>6 DEF PanicInSend, Notification
  <2> QED
    BY <1>8, <2>1, <2>2, <2>3, <2>4, <2>5, <2>6 DEF NotifierStep
<1>9. CASE UNCHANGED vars
  BY <1>9 DEF LockInv, vars
<1> QED
  BY <1>1, <1>2, <1>3, <1>4, <1>5, <1>6, <1>8, <1>9 DEF Next, ConnStep

\* The registry does not change under a reader, and a reader begins with what is
\* registered.
LEMMA StepWrites == HubInv /\ WritesToRegistered /\ [Next]_vars => WritesToRegistered'
<1> SUFFICES ASSUME HubInv, WritesToRegistered, [Next]_vars PROVE WritesToRegistered'
  OBVIOUS
<1> USE DEF HubInv
<1>1. ASSUME NEW n \in Notifier, NEW x, Goes(n, x),
             x.pc \in {"holding", "writing"} => x.left \subseteq conns[x.user]
      PROVE  WritesToRegistered'
  BY <1>1 DEF Goes, TypeOK, WritesToRegistered, Readers
<1>2. ASSUME NEW n \in Notifier, (\E u \in User : Notify(n, u)) \/ NotifierStep(n)
      PROVE  WritesToRegistered'
  <2>0. /\ notifiers[n] \in Notification
        /\ notifiers[n].pc \in {"holding", "writing"} =>
             notifiers[n].left \subseteq conns[notifiers[n].user]
    BY DEF TypeOK, WritesToRegistered, Readers
  <2>1. ASSUME NEW u \in User, Notify(n, u) PROVE WritesToRegistered'
    BY <1>1, <2>0, <2>1 DEF Notify, Notification
  <2>2. CASE RLock(n)
    BY <1>1, <2>0, <2>2 DEF RLock, Notification
  <2>3. ASSUME NEW c \in Conn, BeginSend(n, c) PROVE WritesToRegistered'
    BY <1>1, <2>0, <2>3 DEF BeginSend, Notification
  <2>4. CASE EndSend(n)
    BY <1>1, <2>0, <2>4 DEF EndSend, Notification
  <2>5. CASE RUnlock(n)
    BY <1>1, <2>0, <2>5 DEF RUnlock, Notification
  <2>6. CASE PanicInSend(n)
    BY <1>1, <2>0, <2>6 DEF PanicInSend, Notification
  <2> QED
    BY <1>2, <2>1, <2>2, <2>3, <2>4, <2>5, <2>6 DEF NotifierStep
<1>3. ASSUME NEW c \in Conn, Register(c) \/ Unregister(c) PROVE WritesToRegistered'
  <2>1. Readers = {} /\ Unlock
    BY <1>3 DEF Register, Unregister
  <2>2. ASSUME NEW n \in Readers' PROVE notifiers'[n].left \subseteq conns'[notifiers'[n].user]
    <3>1. notifiers[n].pc = "parked" /\ n \in Notifier
      BY <2>1 DEF Unlock, Readers
    <3>2. notifiers'[n] = [notifiers[n] EXCEPT !.pc = "holding", !.left = conns'[notifiers[n].user]]
      BY <2>1, <3>1 DEF Unlock
    <3> QED
      BY <3>1, <3>2 DEF TypeOK, Notification
  <2> QED
    BY <2>2 DEF WritesToRegistered
<1>4. ASSUME NEW c \in Conn, CrashInAck(c) PROVE WritesToRegistered'
  <2>1. \A n \in Notifier :
          [notifiers[n] EXCEPT !.pc = "idle", !.left = {}, !.to = NoConn].pc = "idle"
    BY DEF TypeOK, Notification
  <2> QED
    BY <1>4, <2>1 DEF CrashInAck, WritesToRegistered, Readers
<1>5. ASSUME conns' = conns, notifiers' = notifiers PROVE WritesToRegistered'
  BY <1>5 DEF WritesToRegistered, Readers
<1>6. ASSUME NEW c \in Conn,
             \/ \E u \in User : Connect(c, u)
             \/ ReadHeartbeat(c) \/ ReadError(c) \/ BeginAck(c) \/ EndAck(c) \/ Close(c)
             \/ AnnounceLock(c, "register", "registering")
             \/ AnnounceLock(c, "unregister", "unregistering")
             \/ Stall(c) \/ Resume(c) \/ Leave(c)
      PROVE  conns' = conns /\ notifiers' = notifiers
  BY <1>6 DEF Connect, ReadHeartbeat, ReadError, BeginAck, EndAck, Close, AnnounceLock,
     Stall, Resume, Leave
<1>7. UNCHANGED vars => conns' = conns /\ notifiers' = notifiers
  BY DEF vars
<1> QED
  BY <1>2, <1>3, <1>4, <1>5, <1>6, <1>7 DEF Next, ConnStep

-----------------------------------------------------------------------------
\* Registry, count, lock and goroutines agree, for any number of them.
THEOREM HubInvariant == Spec => []HubInv
<1>1. HubInv /\ [Next]_vars => HubInv'
  BY StepType, StepRegistry, StepLock DEF HubInv
<1> QED
  BY <1>1, InitInv, PTL DEF Spec

\* No notification writes to a connection that is not registered.
THEOREM WritesAreRegistered == Spec => []WritesToRegistered
<1>1. HubInv /\ WritesToRegistered /\ [Next]_vars => WritesToRegistered'
  BY StepWrites
<1> QED
  BY <1>1, InitInv, HubInvariant, PTL DEF Spec

=============================================================================
