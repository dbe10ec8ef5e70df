------------------------- MODULE UnreadEventsProofs -------------------------
(***************************************************************************)
(* Proofs about UnreadEvents, for any chats, finitely many messages and    *)
(* any number of events in the connection.                                 *)
(***************************************************************************)
EXTENDS UnreadEvents, TLAPS, FiniteSetTheorems, SequenceTheorems

\* The counts that the page will have been given when it has every event.
Last == IF socket.queue = <<>> THEN heard ELSE socket.queue[Len(socket.queue)]

\* Counts that know of k changes: of all, if they are as many as there are.
Snapshot(k, counts) == k <= Changes /\ (k = Changes => counts = UnreadCounts)

\* The counts of a chat are made again, or have been.
Recounted(c, k) ==
    \/ k < latest
    \/ \E n \in Note : ChatOf[n[1]] = c /\ notes[n].pc \in {"due", "members"}
    \/ \E n \in Note : notes[n].pc = "counted" /\ k < notes[n].at

\* Counts that know of k changes are right up to purges, but for chats of which
\* others will come.
Right(k, counts) == \A c \in member : UpToPurges(c, counts[c]) \/ Recounted(c, k)

\* A message that is not posted has no notification.
UnpostedInv == \A m \in Msg : rows[m] = "none" => ~Under(<<m, "post">>)

CountedInv ==
    \A n \in Note :
        notes[n].pc = "counted" =>
            /\ Snapshot(notes[n].at, notes[n].counts)
            /\ stale \/ Right(notes[n].at, notes[n].counts)

LastInv == stale \/ (Snapshot(latest, Last) /\ Right(latest, Last))

EventsInv == EventTypeOK /\ UnpostedInv /\ latest <= Changes /\ CountedInv /\ LastInv

-----------------------------------------------------------------------------
(* Types.                                                                  *)

\* A chat is unread in finitely many messages.
LEMMA CountsTyped ==
    ASSUME EventTypeOK
    PROVE  /\ Changes \in Nat /\ UnreadCounts \in Counts /\ NoCounts \in Counts
           /\ WithLapsed \in Counts
           /\ \A c \in Chat : UpToPurges(c, UnreadCounts[c])
<1>1. ASSUME NEW T \in SUBSET Msg PROVE IsFiniteSet(T) /\ Cardinality(T) \in Nat
  BY MessagesAreTyped, FS_Subset, FS_CardinalityType
<1>2. \A c \in Chat : Cardinality({m \in Msg : ChatOf[m] = c /\ rows[m] = "unread"}) \in Nat
  BY <1>1
<1>5. \A c \in Chat : Cardinality({m \in Msg : ChatOf[m] = c /\ rows[m] \in {"unread", "lapsed"}}) \in Nat
  BY <1>1
<1>3. /\ Cardinality({m \in Msg : rows[m] # "none"}) \in Nat
      /\ Cardinality({m \in Msg : rows[m] \notin {"none", "unread"}}) \in Nat
  BY <1>1
<1>4. ASSUME NEW c \in Chat PROVE UpToPurges(c, UnreadCounts[c])
  <2> DEFINE A == {m \in Msg : ChatOf[m] = c /\ rows[m] = "unread"}
             B == {m \in Msg : ChatOf[m] = c /\ rows[m] \in {"unread", "lapsed"}}
  <2>1. A \subseteq B /\ IsFiniteSet(B) /\ Cardinality(A) \in Nat
    BY <1>1
  <2>2. Cardinality(A) <= Cardinality(B)
    BY <2>1, FS_Subset
  <2>3. UnreadCounts[c] = Cardinality(A) /\ WithLapsed[c] = Cardinality(B)
    BY DEF UnreadCounts, WithLapsed
  <2> HIDE DEF A, B
  <2> QED
    BY <2>1, <2>2, <2>3 DEF UpToPurges
<1> QED
  BY <1>2, <1>3, <1>4, <1>5 DEF Changes, UnreadCounts, WithLapsed, NoCounts, Counts

\* The counts that a step leaves have their type, whatever it does to the rows, and
\* are right up to purges.
LEMMA CountsTypedAfter ==
    /\ UnreadCounts' \in Counts /\ WithLapsed' \in Counts
    /\ \A c \in Chat : UpToPurges(c, UnreadCounts[c])'
<1>1. ASSUME NEW T \in SUBSET Msg PROVE IsFiniteSet(T) /\ Cardinality(T) \in Nat
  BY MessagesAreTyped, FS_Subset, FS_CardinalityType
<1>2. ASSUME NEW c \in Chat
      PROVE  /\ Cardinality({m \in Msg : ChatOf[m] = c /\ rows'[m] = "unread"}) \in Nat
             /\ Cardinality({m \in Msg : ChatOf[m] = c /\ rows'[m] \in {"unread", "lapsed"}}) \in Nat
             /\ Cardinality({m \in Msg : ChatOf[m] = c /\ rows'[m] = "unread"})
                  <= Cardinality({m \in Msg : ChatOf[m] = c /\ rows'[m] \in {"unread", "lapsed"}})
  <2> DEFINE A == {m \in Msg : ChatOf[m] = c /\ rows'[m] = "unread"}
             B == {m \in Msg : ChatOf[m] = c /\ rows'[m] \in {"unread", "lapsed"}}
  <2>1. A \subseteq B /\ IsFiniteSet(B) /\ Cardinality(A) \in Nat /\ Cardinality(B) \in Nat
    BY <1>1
  <2> QED
    BY <2>1, FS_Subset
<1>3. UnreadCounts' \in Counts /\ WithLapsed' \in Counts
  BY <1>2 DEF UnreadCounts, WithLapsed, Counts
<1>4. ASSUME NEW c \in Chat PROVE UnreadCounts'[c] <= UnreadCounts'[c] /\ UnreadCounts'[c] <= WithLapsed'[c]
  <2>1. UnreadCounts'[c] \in Nat
    BY <1>3 DEF Counts
  <2>2. UnreadCounts'[c] <= WithLapsed'[c]
    BY <1>2 DEF UnreadCounts, WithLapsed
  <2> QED
    BY <2>1, <2>2
<1> QED
  BY <1>3, <1>4 DEF UpToPurges

LEMMA NoteFields ==
    ASSUME EventTypeOK, NEW n \in Note
    PROVE  /\ notes[n] \in NoteRecord
           /\ \A pc \in {"none", "due", "members"} : [notes[n] EXCEPT !.pc = pc] \in NoteRecord
           /\ [pc |-> "counted", counts |-> UnreadCounts, at |-> Changes] \in NoteRecord
           /\ NoNote \in NoteRecord
BY CountsTyped DEF EventTypeOK, NoteRecord, NoNote

LEMMA TypesInit ==
    ASSUME EventInit
    PROVE  EventTypeOK
<1>1. NoCounts \in Counts
  BY DEF NoCounts, Counts
<1>2. NoNote \in NoteRecord
  BY <1>1 DEF NoNote, NoteRecord
<1>3. socket \in [up : BOOLEAN, queue : Seq(Counts)]
  BY EmptySeq DEF EventInit
<1> QED
  BY <1>1, <1>2, <1>3 DEF EventInit, EventTypeOK

LEMMA ChangeTyped ==
    ASSUME EventTypeOK,
           \/ \E m \in Msg : Post(m) \/ Read(m)
           \/ \E c \in Chat : Remove(c)
           \/ \E S \in SUBSET Expiring : Purge(S)
    PROVE  EventTypeOK'
<1>1. ASSUME NEW m \in Msg, Post(m) PROVE EventTypeOK'
  <2>1. notes' \in [Note -> NoteRecord]
    BY <1>1, NoteFields DEF Post, Due, Note, EventTypeOK
  <2> QED
    BY <1>1, <2>1 DEF Post, EventTypeOK
<1>2. ASSUME NEW m \in Msg, Read(m) PROVE EventTypeOK'
  <2>1. notes' \in [Note -> NoteRecord]
    BY <1>2, NoteFields DEF Read, Due, Note, EventTypeOK
  <2> QED
    BY <1>2, <2>1 DEF Read, EventTypeOK
<1>3. ASSUME NEW c \in Chat, Remove(c) PROVE EventTypeOK'
  BY <1>3 DEF Remove, EventTypeOK
<1>4. ASSUME NEW S \in SUBSET Expiring, Purge(S) PROVE EventTypeOK'
  BY <1>4 DEF Purge, EventTypeOK
<1> QED
  BY <1>1, <1>2, <1>3, <1>4

LEMMA NotificationTyped ==
    ASSUME EventTypeOK, NEW n \in Note,
           ReadMembers(n) \/ ReadCounts(n) \/ Skip(n) \/ SendCounts(n)
    PROVE  EventTypeOK'
<1>1. CASE ReadMembers(n)
  <2>1. notes' \in [Note -> NoteRecord]
    BY <1>1, NoteFields DEF ReadMembers, EventTypeOK
  <2> QED
    BY <1>1, <2>1 DEF ReadMembers, EventTypeOK
<1>2. CASE ReadCounts(n)
  <2>1. notes' \in [Note -> NoteRecord]
    BY <1>2, NoteFields DEF ReadCounts, EventTypeOK
  <2> QED
    BY <1>2, <2>1 DEF ReadCounts, EventTypeOK
<1>3. CASE Skip(n)
  <2>1. notes' \in [Note -> NoteRecord]
    BY <1>3, NoteFields DEF Skip, EventTypeOK
  <2> QED
    BY <1>3, <2>1 DEF Skip, EventTypeOK
<1>4. CASE SendCounts(n)
  <2>1. notes' \in [Note -> NoteRecord]
    BY <1>4, NoteFields DEF SendCounts, EventTypeOK
  <2>2. notes[n].counts \in Counts /\ notes[n].at \in Nat
    BY NoteFields DEF NoteRecord
  <2>3. socket' \in [up : BOOLEAN, queue : Seq(Counts)] /\ (~socket'.up => socket'.queue = <<>>)
    <3>1. Append(socket.queue, notes[n].counts) \in Seq(Counts)
      BY <2>2, AppendProperties DEF EventTypeOK
    <3>2. CASE socket.up
      <4>1. socket' = [socket EXCEPT !.queue = Append(socket.queue, notes[n].counts)]
        BY <1>4, <3>2 DEF SendCounts
      <4> QED
        BY <3>1, <3>2, <4>1 DEF EventTypeOK
    <3>3. CASE ~socket.up
      BY <1>4, <3>3 DEF SendCounts, EventTypeOK
    <3> QED
      BY <3>2, <3>3
  <2>4. latest' \in Nat /\ stale' \in BOOLEAN
    BY <1>4, <2>2 DEF SendCounts, EventTypeOK
  <2> QED
    BY <1>4, <2>1, <2>3, <2>4 DEF SendCounts, EventTypeOK
<1> QED
  BY <1>1, <1>2, <1>3, <1>4

LEMMA ConnectionTyped ==
    ASSUME EventTypeOK, Connect \/ Drop \/ Deliver
    PROVE  EventTypeOK'
<1>1. CASE Connect
  BY <1>1 DEF Connect, EventTypeOK
<1>2. CASE Drop
  BY <1>2, EmptySeq DEF Drop, EventTypeOK
<1>3. CASE Deliver
  <2>1. Head(socket.queue) \in Counts /\ Tail(socket.queue) \in Seq(Counts)
    BY <1>3, HeadTailProperties DEF Deliver, EventTypeOK
  <2> QED
    BY <1>3, <2>1 DEF Deliver, EventTypeOK
<1> QED
  BY <1>1, <1>2, <1>3

LEMMA TypesStep ==
    ASSUME EventTypeOK, [EventNext]_eventVars
    PROVE  EventTypeOK'
<1>1. CASE UNCHANGED eventVars
  BY <1>1 DEF eventVars, EventTypeOK
<1> QED
  BY <1>1, ChangeTyped, NotificationTyped, ConnectionTyped DEF EventNext

-----------------------------------------------------------------------------
(* Changes.                                                                *)

\* A message that is posted stays so, and one that is no longer unread, too.
Onward ==
    \A m \in Msg : /\ rows[m] # "none" => rows'[m] # "none"
                   /\ rows[m] \notin {"none", "unread"} => rows'[m] \notin {"none", "unread"}

LEMMA OnwardStep ==
    ASSUME EventTypeOK, [EventNext]_eventVars
    PROVE  Onward
<1>1. ASSUME NEW m \in Msg, Post(m) \/ Read(m) PROVE Onward
  BY <1>1 DEF Post, Read, Onward, EventTypeOK
<1>2. ASSUME NEW c \in Chat, Remove(c) PROVE Onward
  BY <1>2 DEF Remove, Onward
<1>6. ASSUME NEW S \in SUBSET Expiring, Purge(S) PROVE Onward
  BY <1>6 DEF Purge, Stored, Onward
<1>3. ASSUME rows' = rows PROVE Onward
  BY <1>3 DEF Onward
<1>4. ASSUME NEW n \in Note, ReadMembers(n) \/ ReadCounts(n) \/ Skip(n) \/ SendCounts(n)
      PROVE  rows' = rows
  BY <1>4 DEF ReadMembers, ReadCounts, Skip, SendCounts
<1>5. CASE Connect \/ Drop \/ Deliver \/ UNCHANGED eventVars
  BY <1>3, <1>5 DEF Connect, Drop, Deliver, eventVars
<1> QED
  BY <1>1, <1>2, <1>3, <1>4, <1>5, <1>6 DEF EventNext

\* Two growing sets that together do not grow stay as they are.
LEMMA GrowingSets ==
    ASSUME NEW A, NEW A1, NEW B, NEW B1, IsFiniteSet(A1), IsFiniteSet(B1),
           A \subseteq A1, B \subseteq B1
    PROVE  LET n == Cardinality(A) + Cardinality(B)
               n1 == Cardinality(A1) + Cardinality(B1)
           IN n \in Nat /\ n1 \in Nat /\ n <= n1 /\ (n = n1 => A = A1 /\ B = B1)
<1>1. /\ IsFiniteSet(A) /\ Cardinality(A) <= Cardinality(A1)
      /\ Cardinality(A) = Cardinality(A1) => A = A1
  BY FS_Subset
<1>2. /\ IsFiniteSet(B) /\ Cardinality(B) <= Cardinality(B1)
      /\ Cardinality(B) = Cardinality(B1) => B = B1
  BY FS_Subset
<1>3. /\ Cardinality(A) \in Nat /\ Cardinality(A1) \in Nat
      /\ Cardinality(B) \in Nat /\ Cardinality(B1) \in Nat
  BY <1>1, <1>2, FS_CardinalityType
<1> QED
  BY <1>1, <1>2, <1>3

\* The number of changes tells the sets of unread rows apart.
LEMMA ChangesGrow ==
    ASSUME EventTypeOK, EventTypeOK', Onward
    PROVE  /\ Changes \in Nat /\ Changes' \in Nat /\ Changes <= Changes'
           /\ Changes = Changes' => UnreadCounts' = UnreadCounts
<1> DEFINE A == {m \in Msg : rows[m] # "none"}
           A1 == {m \in Msg : rows'[m] # "none"}
           B == {m \in Msg : rows[m] \notin {"none", "unread"}}
           B1 == {m \in Msg : rows'[m] \notin {"none", "unread"}}
<1>1. A \subseteq A1 /\ B \subseteq B1
  BY DEF Onward
<1>2. IsFiniteSet(A1) /\ IsFiniteSet(B1)
  BY MessagesAreTyped, FS_Subset
<1>3. Changes = Cardinality(A) + Cardinality(B) /\ Changes' = Cardinality(A1) + Cardinality(B1)
  BY DEF Changes
<1>4. ASSUME A = A1, B = B1 PROVE UnreadCounts' = UnreadCounts
  <2>1. \A m \in Msg : rows'[m] = "unread" <=> rows[m] = "unread"
    <3> SUFFICES ASSUME NEW m \in Msg PROVE rows'[m] = "unread" <=> rows[m] = "unread"
      OBVIOUS
    <3>1. (m \in A <=> m \in A1) /\ (m \in B <=> m \in B1)
      BY <1>4
    <3> QED
      BY <3>1
  <2>2. ASSUME NEW c \in Chat
        PROVE  {m \in Msg : ChatOf[m] = c /\ rows'[m] = "unread"}
                 = {m \in Msg : ChatOf[m] = c /\ rows[m] = "unread"}
    BY <2>1
  <2> QED
    BY <2>2 DEF UnreadCounts
<1> HIDE DEF A, A1, B, B1
<1> QED
  BY <1>1, <1>2, <1>3, <1>4, GrowingSets

\* Counts that knew of all changes do so no longer once there is another.
LEMMA SnapshotStays ==
    ASSUME EventTypeOK, EventTypeOK', Onward, NEW k \in Nat, NEW counts, Snapshot(k, counts)
    PROVE  Snapshot(k, counts)'
<1>1. ASSUME k = Changes' PROVE counts = UnreadCounts'
  <2>1. k = Changes /\ UnreadCounts' = UnreadCounts
    BY <1>1, ChangesGrow DEF Snapshot
  <2> QED
    BY <2>1 DEF Snapshot
<1> QED
  BY <1>1, ChangesGrow DEF Snapshot

-----------------------------------------------------------------------------
(* Notifications.                                                          *)

\* What a step does to the counts of chats and to the notifications that make up for it.
Followed ==
    /\ member' \subseteq member /\ latest \in Nat /\ latest' \in Nat /\ latest <= latest'
    /\ \A c \in member' : \/ UnreadCounts'[c] <= UnreadCounts[c] /\ WithLapsed[c] <= WithLapsed'[c]
                          \/ \E n \in Note : ChatOf[n[1]] = c /\ notes'[n].pc = "due"
    /\ \A n \in Note :
         /\ notes[n].pc \in {"due", "members"} /\ ChatOf[n[1]] \in member' /\ ~stale' =>
              \/ notes'[n].pc \in {"due", "members"}
              \/ notes'[n].pc = "counted" /\ notes'[n].at = Changes
         /\ notes[n].pc = "counted" => notes'[n] = notes[n] \/ notes[n].at <= latest'

\* The count of a chat stays as it is but for messages that are purged.
LEMMA CountStays ==
    ASSUME EventTypeOK, NEW c \in Chat,
           \A m \in Msg : ChatOf[m] = c =>
              /\ rows'[m] = "unread" => rows[m] = "unread"
              /\ rows[m] \in {"unread", "lapsed"} => rows'[m] \in {"unread", "lapsed"}
    PROVE  UnreadCounts'[c] <= UnreadCounts[c] /\ WithLapsed[c] <= WithLapsed'[c]
<1> DEFINE A == {m \in Msg : ChatOf[m] = c /\ rows[m] = "unread"}
           A1 == {m \in Msg : ChatOf[m] = c /\ rows'[m] = "unread"}
           B == {m \in Msg : ChatOf[m] = c /\ rows[m] \in {"unread", "lapsed"}}
           B1 == {m \in Msg : ChatOf[m] = c /\ rows'[m] \in {"unread", "lapsed"}}
<1>1. A1 \subseteq A /\ B \subseteq B1
  OBVIOUS
<1>2. IsFiniteSet(A) /\ IsFiniteSet(B1)
  BY MessagesAreTyped, FS_Subset
<1>3. Cardinality(A1) <= Cardinality(A) /\ Cardinality(B) <= Cardinality(B1)
  BY <1>1, <1>2, FS_Subset
<1> QED
  BY <1>3 DEF UnreadCounts, WithLapsed

\* A post or a read has a notification of its own.
LEMMA ChangeFollowed ==
    ASSUME EventTypeOK, NEW m \in Msg, NEW kind \in {"post", "read"}, ~Under(<<m, kind>>),
           Due(<<m, kind>>), \A o \in Msg \ {m} : rows'[o] = rows[o],
           UNCHANGED <<member, latest, stale>>
    PROVE  Followed
<1>1. <<m, kind>> \in Note /\ <<m, kind>>[1] = m
  BY DEF Note
<1>2. /\ notes'[<<m, kind>>].pc = "due"
      /\ \A n \in Note \ {<<m, kind>>} : notes'[n] = notes[n]
  BY <1>1, NoteFields DEF Due, EventTypeOK, NoteRecord
<1>3. ASSUME NEW c \in member, c # ChatOf[m] 
      PROVE  UnreadCounts'[c] <= UnreadCounts[c] /\ WithLapsed[c] <= WithLapsed'[c]
  BY <1>3, CountStays DEF EventTypeOK
<1>4. notes[<<m, kind>>].pc \notin {"due", "members", "counted"}
  BY <1>1, NoteFields DEF Under, NoteRecord
<1>5. ASSUME NEW c \in member
      PROVE  \/ UnreadCounts'[c] <= UnreadCounts[c] /\ WithLapsed[c] <= WithLapsed'[c]
             \/ \E n \in Note : ChatOf[n[1]] = c /\ notes'[n].pc = "due"
  BY <1>1, <1>2, <1>3
<1>6. ASSUME NEW n \in Note, notes[n].pc \in {"due", "members", "counted"}
      PROVE  notes'[n] = notes[n]
  BY <1>2, <1>4, <1>6
<1> QED
  BY <1>5, <1>6 DEF Followed, EventTypeOK

LEMMA FollowedStep ==
    ASSUME EventsInv, [EventNext]_eventVars
    PROVE  Followed
<1> USE DEF EventsInv
<1>0. latest \in Nat
  BY DEF EventTypeOK
<1>1. ASSUME rows' = rows
      PROVE  \A c \in Chat : UnreadCounts'[c] <= UnreadCounts[c] /\ WithLapsed[c] <= WithLapsed'[c]
  BY <1>1, CountStays
<1>10. member \subseteq Chat
  BY DEF EventTypeOK
<1>2. ASSUME NEW m \in Msg, Post(m) PROVE Followed
  <2>1. ~Under(<<m, "post">>)
    BY <1>2 DEF Post, UnpostedInv
  <2> QED
    BY <1>2, <2>1, ChangeFollowed DEF Post, EventTypeOK
<1>3. ASSUME NEW m \in Msg, Read(m) PROVE Followed
  BY <1>3, ChangeFollowed DEF Read, EventTypeOK
<1>4. ASSUME NEW c \in Chat, Remove(c) PROVE Followed
  <2>1. ASSUME NEW d \in member' 
        PROVE  UnreadCounts'[d] <= UnreadCounts[d] /\ WithLapsed[d] <= WithLapsed'[d]
    <3>1. d \in Chat /\ d # c
      BY <1>4 DEF Remove, EventTypeOK
    <3>2. \A m \in Msg : ChatOf[m] = d => rows'[m] = rows[m]
      BY <1>4, <3>1 DEF Remove
    <3> QED
      BY <3>1, <3>2, CountStays
  <2> QED
    BY <1>0, <1>4, <2>1 DEF Remove, Followed
<1>11. ASSUME NEW S \in SUBSET Expiring, Purge(S) PROVE Followed
  <2>1. ASSUME NEW d \in Chat
        PROVE  UnreadCounts'[d] <= UnreadCounts[d] /\ WithLapsed[d] <= WithLapsed'[d]
    <3>1. \A m \in Msg : /\ rows'[m] = "unread" => rows[m] = "unread"
                         /\ rows[m] \in {"unread", "lapsed"} => rows'[m] \in {"unread", "lapsed"}
      BY <1>11 DEF Purge, Stored
    <3> QED
      BY <3>1, CountStays
  <2> QED
    BY <1>0, <1>10, <1>11, <2>1 DEF Purge, Followed
<1>5. ASSUME NEW n \in Note, ReadMembers(n) PROVE Followed
  <2>1. /\ \A o \in Note \ {n} : notes'[o] = notes[o]
        /\ notes[n].pc = "due" /\ (ChatOf[n[1]] \in member => notes'[n].pc = "members")
    BY <1>5, NoteFields DEF ReadMembers, EventTypeOK, NoteRecord
  <2> QED
    BY <1>0, <1>1, <1>10, <1>5, <2>1 DEF ReadMembers, Followed
<1>6. ASSUME NEW n \in Note, ReadCounts(n) PROVE Followed
  <2>1. /\ \A o \in Note \ {n} : notes'[o] = notes[o]
        /\ notes[n].pc = "members" /\ notes'[n].pc = "counted" /\ notes'[n].at = Changes
    BY <1>6 DEF ReadCounts, EventTypeOK
  <2> QED
    BY <1>0, <1>1, <1>10, <1>6, <2>1 DEF ReadCounts, Followed
<1>7. ASSUME NEW n \in Note, Skip(n) PROVE Followed
  <2>1. /\ \A o \in Note \ {n} : notes'[o] = notes[o]
        /\ notes[n].pc # "counted" /\ stale'
    BY <1>7 DEF Skip, EventTypeOK
  <2> QED
    BY <1>0, <1>1, <1>10, <1>7, <2>1 DEF Skip, Followed
<1>8. ASSUME NEW n \in Note, SendCounts(n) PROVE Followed
  <2>1. notes[n].at \in Nat
    BY NoteFields DEF NoteRecord
  <2>2. /\ \A o \in Note \ {n} : notes'[o] = notes[o]
        /\ notes[n].pc = "counted" /\ notes[n].at <= latest' /\ latest <= latest' /\ latest' \in Nat
    BY <1>0, <1>8, <2>1 DEF SendCounts, EventTypeOK
  <2> QED
    BY <1>0, <1>1, <1>10, <1>8, <2>2 DEF SendCounts, Followed
<1>9. ASSUME Connect \/ Drop \/ Deliver \/ UNCHANGED eventVars PROVE Followed
  <2>1. UNCHANGED <<member, rows, notes, latest>>
    BY <1>9 DEF Connect, Drop, Deliver, eventVars
  <2> QED
    BY <1>0, <1>1, <1>10, <2>1 DEF Followed
<1> QED
  BY <1>2, <1>3, <1>4, <1>5, <1>6, <1>7, <1>8, <1>9, <1>11 DEF EventNext

\* Counts go on being right or made up for.
LEMMA RightStays ==
    ASSUME EventTypeOK, EventTypeOK', Onward, Followed, ~stale',
           NEW k \in Nat, NEW counts \in Counts, Snapshot(k, counts), Right(k, counts)
    PROVE  Right(k, counts)'
<1> SUFFICES ASSUME NEW c \in member' PROVE UpToPurges(c, counts[c])' \/ Recounted(c, k)'
  BY DEF Right
<1>1. c \in member /\ latest \in Nat /\ latest' \in Nat /\ Changes \in Nat
  BY ChangesGrow DEF Followed
<1>4. c \in Chat
  BY <1>1 DEF EventTypeOK
<1>2. CASE UpToPurges(c, counts[c])
  <2>1. CASE UnreadCounts'[c] <= UnreadCounts[c] /\ WithLapsed[c] <= WithLapsed'[c]
    <3>1. /\ UnreadCounts \in Counts /\ WithLapsed \in Counts
          /\ UnreadCounts' \in Counts /\ WithLapsed' \in Counts
      BY CountsTyped, CountsTypedAfter
    <3>2. /\ UnreadCounts[c] \in Nat /\ WithLapsed[c] \in Nat /\ counts[c] \in Nat
          /\ UnreadCounts'[c] \in Nat /\ WithLapsed'[c] \in Nat
      BY <1>4, <3>1 DEF Counts
    <3> QED
      BY <1>2, <2>1, <3>2 DEF UpToPurges
  <2> QED
    BY <2>1 DEF Followed, Recounted
<1>3. CASE ~UpToPurges(c, counts[c])
  <2>1. k < Changes /\ Recounted(c, k)
    BY <1>1, <1>3, <1>4, CountsTyped DEF Snapshot, Right
  <2>2. CASE k < latest
    BY <1>1, <2>2 DEF Followed, Recounted
  <2>3. ASSUME NEW n \in Note, ChatOf[n[1]] = c, notes[n].pc \in {"due", "members"}
        PROVE  Recounted(c, k)'
    <3>1. \/ notes'[n].pc \in {"due", "members"}
          \/ notes'[n].pc = "counted" /\ notes'[n].at = Changes
      BY <2>3 DEF Followed
    <3> QED
      BY <2>1, <2>3, <3>1 DEF Recounted
  <2>4. ASSUME NEW n \in Note, notes[n].pc = "counted", k < notes[n].at
        PROVE  Recounted(c, k)'
    <3>1. notes'[n] = notes[n] \/ notes[n].at <= latest'
      BY <2>4 DEF Followed
    <3>2. notes[n].at \in Nat
      BY NoteFields DEF NoteRecord
    <3> QED
      BY <1>1, <2>4, <3>1, <3>2 DEF Recounted
  <2> QED
    BY <2>1, <2>2, <2>3, <2>4 DEF Recounted
<1> QED
  BY <1>2, <1>3

\* Also if an event with the counts as they are puts an end to staleness.
LEMMA CountsStay ==
    ASSUME EventsInv, [EventNext]_eventVars,
           NEW k \in Nat, NEW counts \in Counts, Snapshot(k, counts), stale \/ Right(k, counts)
    PROVE  Snapshot(k, counts)' /\ (stale' \/ Right(k, counts)')
<1> USE DEF EventsInv
<1>1. EventTypeOK' /\ Onward /\ Followed
  BY TypesStep, OnwardStep, FollowedStep
<1>2. Snapshot(k, counts)'
  BY <1>1, SnapshotStays
<1>3. CASE ~stale
  BY <1>1, <1>2, <1>3, RightStays
<1>4. ASSUME stale, ~stale' PROVE Right(k, counts)'
  <2>1. PICK n \in Note : SendCounts(n)
    BY <1>4 DEF EventNext, eventVars, Post, Read, Remove, Purge, ReadMembers, ReadCounts, Skip, Connect,
                Drop, Deliver
  <2>2. notes[n].at = Changes /\ rows' = rows /\ member' = member /\ Changes <= latest'
    <3>1. notes[n].at = Changes
      BY <1>4, <2>1 DEF SendCounts
    <3>2. rows' = rows /\ member' = member
      BY <2>1 DEF SendCounts
    <3>3. latest \in Nat /\ Changes \in Nat /\ latest' = IF notes[n].at > latest THEN notes[n].at ELSE latest
      BY <1>1, <2>1, ChangesGrow DEF SendCounts, EventTypeOK
    <3> QED
      BY <3>1, <3>2, <3>3
  <2>3. UnreadCounts' = UnreadCounts /\ latest' \in Nat /\ Changes \in Nat
    BY <1>1, <2>2, ChangesGrow DEF UnreadCounts, EventTypeOK
  <2>4. CASE k = Changes
    <3>1. member' \subseteq Chat /\ counts = UnreadCounts'
      BY <1>1, <2>3, <2>4 DEF Snapshot, EventTypeOK
    <3> QED
      BY <3>1, CountsTypedAfter DEF Right, UpToPurges
  <2>5. CASE k # Changes
    <3>1. k < latest'
      BY <2>2, <2>3, <2>5 DEF Snapshot
    <3> QED
      BY <3>1 DEF Right, Recounted
  <2> QED
    BY <2>4, <2>5
<1> QED
  BY <1>2, <1>3, <1>4

-----------------------------------------------------------------------------
(* The invariant.                                                          *)

LEMMA LastTyped ==
    ASSUME EventTypeOK
    PROVE  Last \in Counts
<1>1. Len(socket.queue) \in Nat /\ (socket.queue # <<>> => Len(socket.queue) \in 1..Len(socket.queue))
  BY EmptySeq, LenProperties DEF EventTypeOK
<1> QED
  BY <1>1, ElementOfSeq DEF Last, EventTypeOK

\* The last event changes only when one is sent, or is gone.
LEMMA LastStays ==
    ASSUME EventTypeOK, [EventNext]_eventVars, ~stale'
    PROVE  \/ Last' = Last /\ latest' = latest /\ ~stale
           \/ \E n \in Note : /\ notes[n].pc = "counted"
                              /\ Last' = notes[n].counts /\ latest' = notes[n].at
<1>1. CASE \E n \in Note : SendCounts(n)
  <2>1. PICK n \in Note : SendCounts(n)
    BY <1>1
  <2>2. notes[n].counts \in Counts /\ notes[n].at \in Nat /\ latest \in Nat
    BY NoteFields DEF NoteRecord, EventTypeOK
  <2>3. socket.up /\ ~(notes[n].at < latest) /\ notes[n].pc = "counted"
    BY <2>1 DEF SendCounts
  <2>4. latest' = notes[n].at
    BY <2>1, <2>2, <2>3 DEF SendCounts
  <2>5. socket' = [socket EXCEPT !.queue = Append(socket.queue, notes[n].counts)]
    BY <2>1, <2>3 DEF SendCounts
  <2>6. socket'.queue = Append(socket.queue, notes[n].counts)
    BY <2>5 DEF EventTypeOK
  <2>7. Last' = notes[n].counts
    BY <2>2, <2>6, AppendProperties, LenProperties DEF Last, EventTypeOK
  <2> QED
    BY <2>3, <2>4, <2>7
<1>2. CASE Deliver
  <2>1. /\ heard' = Head(socket.queue) /\ socket'.queue = Tail(socket.queue)
        /\ socket.queue # <<>> /\ socket.queue \in Seq(Counts)
        /\ latest' = latest /\ stale' = stale
    BY <1>2 DEF Deliver, EventTypeOK
  <2>2. /\ Len(socket.queue) \in Nat \ {0} /\ Head(socket.queue) = socket.queue[1]
        /\ Tail(socket.queue) \in Seq(Counts) /\ Len(Tail(socket.queue)) = Len(socket.queue) - 1
        /\ \A i \in 1..Len(Tail(socket.queue)) : Tail(socket.queue)[i] = socket.queue[i + 1]
    BY <2>1, EmptySeq, HeadTailProperties
  <2>3. CASE Len(socket.queue) = 1
    <3>1. Tail(socket.queue) = <<>>
      BY <2>2, <2>3, EmptySeq
    <3>2. Last' = heard'
      BY <2>1, <3>1 DEF Last
    <3>3. Last = Head(socket.queue)
      BY <2>1, <2>2, <2>3 DEF Last
    <3> QED
      BY <2>1, <3>2, <3>3
  <2>4. CASE Len(socket.queue) # 1
    <3>1. socket'.queue # <<>> /\ Len(socket'.queue) \in 1..Len(Tail(socket.queue))
      <4> DEFINE l == Len(socket.queue)
      <4>1. l - 1 \in 1..(l - 1)
        <5>1. l \in Nat \ {0} /\ l # 1
          BY <2>2, <2>4
        <5> HIDE DEF l
        <5> QED
          BY <5>1
      <4>2. Len(Tail(socket.queue)) # 0 /\ Len(<<>>) = 0
        BY <2>2, <2>4, EmptySeq
      <4> QED
        BY <2>1, <2>2, <4>1, <4>2
    <3>2. socket'.queue[Len(socket'.queue)] = socket.queue[Len(socket.queue)]
      BY <2>1, <2>2, <3>1
    <3> QED
      BY <2>1, <3>1, <3>2 DEF Last
  <2> QED
    BY <2>1, <2>3, <2>4
<1>3. CASE Drop
  <2>1. socket.queue = <<>> /\ ~stale
    BY <1>3 DEF Drop
  <2> QED
    BY <1>3, <2>1 DEF Drop, Last
<1>4. CASE Connect
  <2>1. socket'.queue = socket.queue
    BY <1>4 DEF Connect, EventTypeOK
  <2> QED
    BY <1>4, <2>1 DEF Connect, Last
<1>5. CASE UNCHANGED eventVars
  BY <1>5 DEF eventVars, Last
<1>6. ASSUME UNCHANGED <<socket, heard, latest, stale>>
      PROVE  Last' = Last /\ latest' = latest /\ ~stale
  BY <1>6 DEF Last
<1>7. CASE \/ \E m \in Msg : Post(m) \/ Read(m)
           \/ \E c \in Chat : Remove(c)
           \/ \E S \in SUBSET Expiring : Purge(S)
  BY <1>6, <1>7 DEF Post, Read, Remove, Purge
<1>8. CASE \E n \in Note : ReadMembers(n) \/ ReadCounts(n) \/ Skip(n)
  BY <1>6, <1>8 DEF ReadMembers, ReadCounts, Skip
<1> QED
  BY <1>1, <1>2, <1>3, <1>4, <1>5, <1>7, <1>8 DEF EventNext

LEMMA LastStep ==
    ASSUME EventsInv, [EventNext]_eventVars
    PROVE  LastInv' /\ (latest <= Changes)'
<1> USE DEF EventsInv
<1>1. ASSUME ~stale' PROVE LastInv'
  <2>1. ASSUME NEW k \in Nat, NEW counts \in Counts, Last' = counts, latest' = k,
               Snapshot(k, counts), stale \/ Right(k, counts)
        PROVE  LastInv'
    BY <1>1, <2>1, CountsStay DEF LastInv, Snapshot, Right, Recounted, UpToPurges
  <2>2. CASE Last' = Last /\ latest' = latest /\ ~stale
    <3>1. PICK k, counts : k = latest /\ counts = Last
      OBVIOUS
    <3>2. k \in Nat /\ counts \in Counts /\ Snapshot(k, counts) /\ Right(k, counts)
      BY <2>2, <3>1, LastTyped DEF LastInv, EventTypeOK
    <3> QED
      BY <2>1, <2>2, <3>1, <3>2
  <2>3. ASSUME NEW n \in Note, notes[n].pc = "counted",
               Last' = notes[n].counts, latest' = notes[n].at
        PROVE  LastInv'
    <3>1. PICK k, counts : k = notes[n].at /\ counts = notes[n].counts
      OBVIOUS
    <3>2. k \in Nat /\ counts \in Counts /\ Snapshot(k, counts) /\ (stale \/ Right(k, counts))
      BY <2>3, <3>1, NoteFields DEF CountedInv, NoteRecord
    <3> QED
      BY <2>1, <2>3, <3>1, <3>2
  <2> QED
    BY <1>1, <2>2, <2>3, LastStays
<1>2. (latest <= Changes)'
  <2>1. Changes \in Nat /\ Changes' \in Nat /\ Changes <= Changes' /\ latest \in Nat
    BY TypesStep, OnwardStep, ChangesGrow DEF EventTypeOK
  <2>2. ASSUME NEW n \in Note, SendCounts(n) PROVE latest' <= Changes
    <3>1. notes[n].at \in Nat /\ notes[n].at <= Changes
      BY <2>2, NoteFields DEF SendCounts, CountedInv, Snapshot, NoteRecord
    <3> QED
      BY <2>1, <2>2, <3>1 DEF SendCounts
  <2>3. ASSUME ~\E n \in Note : SendCounts(n) PROVE latest' = latest
    BY <2>3 DEF EventNext, eventVars, Post, Read, Remove, Purge, ReadMembers, ReadCounts, Skip, Connect,
                Drop, Deliver
  <2>4. latest' <= Changes /\ latest' \in Nat
    BY <2>1, <2>2, <2>3, TypesStep DEF EventTypeOK
  <2> QED
    BY <2>1, <2>4
<1> QED
  BY <1>1, <1>2 DEF LastInv

\* A notification that has its counts has just made them, or has had them.
LEMMA CountedStep ==
    ASSUME EventsInv, [EventNext]_eventVars
    PROVE  CountedInv'
<1> USE DEF EventsInv
<1> SUFFICES ASSUME NEW n \in Note, notes'[n].pc = "counted"
             PROVE  /\ Snapshot(notes[n].at, notes[n].counts)'
                    /\ stale' \/ Right(notes[n].at, notes[n].counts)'
  BY DEF CountedInv
<1>1. CASE notes'[n] = notes[n]
  <2>1. PICK k, counts : k = notes[n].at /\ counts = notes[n].counts
    OBVIOUS
  <2>2. k \in Nat /\ counts \in Counts /\ Snapshot(k, counts) /\ (stale \/ Right(k, counts))
    BY <1>1, <2>1, NoteFields DEF CountedInv, NoteRecord
  <2>3. Snapshot(k, counts)' /\ (stale' \/ Right(k, counts)')
    BY <2>2, CountsStay
  <2>4. k = notes'[n].at /\ counts = notes'[n].counts
    BY <1>1, <2>1
  <2> QED
    BY <2>3, <2>4 DEF Snapshot, Right, Recounted, UpToPurges
<1>2. CASE ReadCounts(n)
  <2>1. /\ notes'[n].at = Changes /\ notes'[n].counts = UnreadCounts
        /\ rows' = rows
    BY <1>2 DEF ReadCounts, EventTypeOK
  <2>2. Changes' = Changes /\ UnreadCounts' = UnreadCounts /\ Changes \in Nat
    BY <2>1, CountsTyped DEF Changes, UnreadCounts
  <2>3. member' \subseteq Chat
    BY TypesStep DEF EventTypeOK
  <2> QED
    BY <2>1, <2>2, <2>3, CountsTypedAfter DEF Snapshot, Right, UpToPurges
<1>3. CASE notes'[n] # notes[n] /\ ~ReadCounts(n)
  <2>1. ASSUME NEW m \in Msg, Post(m) \/ Read(m) PROVE FALSE
    <3>1. PICK o \in Note : notes' = [notes EXCEPT ![o].pc = "due"]
      BY <2>1 DEF Post, Read, Due, Note
    <3>2. CASE o # n
      BY <1>3, <3>1, <3>2 DEF EventTypeOK
    <3>3. CASE o = n
      <4>1. notes'[n] = [notes[n] EXCEPT !.pc = "due"]
        BY <3>1, <3>3 DEF EventTypeOK
      <4> QED
        BY <4>1, NoteFields DEF NoteRecord
    <3> QED
      BY <3>2, <3>3
  <2>2. ASSUME NEW o \in Note, ReadMembers(o) \/ ReadCounts(o) \/ Skip(o) \/ SendCounts(o) PROVE FALSE
    <3>1. CASE o # n
      BY <1>3, <2>2, <3>1 DEF ReadMembers, ReadCounts, Skip, SendCounts, EventTypeOK
    <3>2. CASE o = n
      <4>1. ReadMembers(n) \/ Skip(n) \/ SendCounts(n)
        BY <1>3, <2>2, <3>2
      <4>2. notes'[n].pc \in {"members", "done"}
        BY <4>1, NoteFields DEF ReadMembers, Skip, SendCounts, EventTypeOK, NoteRecord, NoNote
      <4> QED
        BY <4>2
    <3> QED
      BY <3>1, <3>2
  <2>3. ASSUME notes' = notes PROVE FALSE
    BY <1>3, <2>3
  <2> QED
    BY <2>1, <2>2, <2>3 DEF EventNext, eventVars, Remove, Purge, Connect, Drop, Deliver
<1> QED
  BY <1>1, <1>2, <1>3

LEMMA UnpostedStep ==
    ASSUME EventsInv, [EventNext]_eventVars
    PROVE  UnpostedInv'
<1> USE DEF EventsInv
<1> SUFFICES ASSUME NEW m \in Msg, rows'[m] = "none" PROVE ~Under(<<m, "post">>)'
  BY DEF UnpostedInv
<1>1. rows[m] = "none" /\ ~Under(<<m, "post">>) /\ <<m, "post">> \in Note
  BY OnwardStep DEF Onward, UnpostedInv, Note
<1>2. ASSUME NEW o \in Msg, Post(o) PROVE notes'[<<m, "post">>] = notes[<<m, "post">>]
  BY <1>1, <1>2 DEF Post, Due, EventTypeOK
<1>3. ASSUME NEW o \in Msg, Read(o) PROVE notes'[<<m, "post">>] = notes[<<m, "post">>]
  BY <1>1, <1>3 DEF Read, Due, EventTypeOK
<1>4. ASSUME NEW n \in Note, ReadMembers(n) \/ ReadCounts(n) \/ Skip(n) \/ SendCounts(n)
      PROVE  notes'[<<m, "post">>] = notes[<<m, "post">>]
  <2>1. Under(n)
    BY <1>4 DEF ReadMembers, ReadCounts, Skip, SendCounts, Under
  <2>2. n # <<m, "post">>
    BY <1>1, <2>1
  <2> QED
    BY <1>1, <1>4, <2>2 DEF ReadMembers, ReadCounts, Skip, SendCounts, EventTypeOK
<1>5. notes'[<<m, "post">>] = notes[<<m, "post">>]
  BY <1>2, <1>3, <1>4 DEF EventNext, eventVars, Remove, Purge, Connect, Drop, Deliver
<1> QED
  BY <1>1, <1>5 DEF Under

LEMMA InvInit == EventInit => EventsInv
<1> SUFFICES ASSUME EventInit PROVE EventsInv
  OBVIOUS
<1>1. EventTypeOK
  BY TypesInit
<1>2. UnreadCounts = NoCounts
  <2>1. \A c \in Chat : {m \in Msg : ChatOf[m] = c /\ rows[m] = "unread"} = {}
    BY DEF EventInit
  <2> QED
    BY <2>1, FS_EmptySet DEF UnreadCounts, NoCounts
<1>3. Changes \in Nat /\ Last = NoCounts
  BY <1>1, CountsTyped DEF EventInit, Last
<1>4. UnpostedInv /\ CountedInv
  BY DEF EventInit, UnpostedInv, CountedInv, Under, Note, NoNote
<1>5. LastInv
  <2>1. \A c \in member : UpToPurges(c, Last[c])
    BY <1>1, <1>2, <1>3, CountsTyped DEF EventTypeOK
  <2> QED
    BY <1>2, <1>3, <2>1 DEF EventInit, LastInv, Snapshot, Right
<1> QED
  BY <1>1, <1>3, <1>4, <1>5 DEF EventsInv, EventInit

LEMMA InvStep == EventsInv /\ [EventNext]_eventVars => EventsInv'
<1> SUFFICES ASSUME EventsInv, [EventNext]_eventVars PROVE EventsInv'
  OBVIOUS
<1>1. EventTypeOK'
  BY TypesStep DEF EventsInv
<1> QED
  BY <1>1, UnpostedStep, CountedStep, LastStep DEF EventsInv

LEMMA InvAlways == EventSpec => []EventsInv
BY InvInit, InvStep, PTL DEF EventSpec

-----------------------------------------------------------------------------
(* What follows.                                                           *)

\* Counts, notifications and the events in the connection keep their types, and no
\* event waits in a connection that is down.
THEOREM EventTypesCorrect == EventSpec => []EventTypeOK
<1>1. EventsInv => EventTypeOK
  BY DEF EventsInv
<1> QED
  BY <1>1, InvAlways, PTL

\* When nothing is under way any more and no event was missed, the viewer has been
\* told the counts as they are, whatever handlers and queries came between, but for
\* what was purged unread since they were read.
THEOREM CountsDoCatchUp == EventSpec => []CountsCatchUp
<1>1. EventsInv => CountsCatchUp
  <2> SUFFICES ASSUME EventsInv, \A n \in Note : ~Under(n), socket.queue = <<>>, ~stale, NEW c \in member
               PROVE  UpToPurges(c, heard[c]) /\ (latest = Changes => heard[c] = UnreadCounts[c])
    BY DEF CountsCatchUp
  <2>1. Last = heard /\ Right(latest, Last) /\ Snapshot(latest, Last)
    BY DEF EventsInv, LastInv, Last
  <2>2. ~Recounted(c, latest)
    BY DEF Recounted, Under, EventsInv, EventTypeOK
  <2> QED
    BY <2>1, <2>2 DEF Right, Snapshot
<1> QED
  BY <1>1, InvAlways, PTL
=============================================================================
