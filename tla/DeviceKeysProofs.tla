-------------------------- MODULE DeviceKeysProofs --------------------------
(***************************************************************************)
(* Proofs about DeviceKeys, for any number of tabs, calls and identities.  *)
(***************************************************************************)
EXTENDS DeviceKeys, TLAPS, SequenceTheorems

\* A call by itself: one that is under way is of a tab, waits for a storage key at
\* the stages that need one, has it when it goes on, and has what it works with.
Formed(r) ==
    /\ r \in TaskRecord
    /\ r.pc \in {"idle", "failed"} => r.tab = NoTab /\ r.via = NoTask
    /\ r.pc \notin {"idle", "failed"} => r.tab \in Tab
    /\ r.via # NoTask => r.pc \in Stage
    /\ r.via = NoTask => r.made = NoKey
    /\ r.pc \in Stage /\ r.via = NoTask => r.key \in Key
    /\ r.pc = "open" => r.raw.id \in Identity /\ r.raw.under \in Key
    /\ r.pc \in {"seal", "post"} \cup Look => r.id \in Identity
    /\ r.pc = "keep" => r.version \in 1..Versions
    /\ r.rotating => r.kind = "send"
    /\ r.kind = "load" => r.pc \in {"open", "seal"}
    /\ r.pc = "idle" => r.kind = "none" /\ ~r.calm

\* A call that may ask for the storage key.
Ready(r) ==
    /\ r \in TaskRecord
    /\ r.pc \in Stage /\ r.tab \in Tab /\ r.made = NoKey
    /\ r.pc = "open" => r.raw.id \in Identity /\ r.raw.under \in Key
    /\ r.pc = "seal" => r.id \in Identity
    /\ r.pc = "keep" => r.version \in 1..Versions
    /\ r.rotating => r.kind = "send"
    /\ r.kind = "load" => r.pc \in {"open", "seal"}

\* The types of the variables; what DeviceTypeOK says of calls besides is in Waits
\* and in Sound.
Types ==
    /\ stored \in Sealed
    /\ stored # Nothing => stored.id \in Identity /\ stored.under \in Key
    /\ wrapping \in [key : Key \cup {NoKey}, by : Tab \cup {NoTab}]
    /\ session \in BOOLEAN /\ missed \in BOOLEAN /\ raced \in BOOLEAN
    /\ tabs \in [Tab -> {"fresh", "in", "behind", "out"}]
    /\ clearing \subseteq Tab
    /\ cache \in [Tab -> SUBSET [version : 1..Versions, under : Key]]
    /\ requests \in [Tab -> [Look -> 0..Versions]]
    /\ tasks \in [Task -> TaskRecord]
    /\ public \in Identity
    /\ versions \in Seq(Identity) /\ Len(versions) \in 1..Versions
    /\ uploads \in Seq(Identity) /\ Len(uploads) <= Uploads
    /\ calls \in 0..Calls

\* Each tab asks for the storage key once, and calls of the tab wait for that; the
\* one that makes a key knows of none that its tab has made since.
Waits ==
    /\ \A t \in Task : tasks[t].via # NoTask =>
          LET o == tasks[t].via IN tasks[o].via = o /\ tasks[o].tab = tasks[t].tab
    /\ \A o, p \in Task : tasks[o].via = o /\ tasks[p].via = p /\ tasks[o].tab = tasks[p].tab => o = p
    /\ \A o \in Task : tasks[o].via = o /\ tasks[o].made # NoKey =>
          wrapping.key = NoKey \/ wrapping.by # tasks[o].tab

\* A call of a tab that has just been opened loads the identity.
FreshCall(r) == r.tab # NoTab => (tabs[r.tab] = "fresh" <=> r.kind = "load")

\* No sign-out comes between while a call is calm.
CalmCall(r) ==
    r.calm /\ r.pc # "failed" =>
        /\ session /\ clearing = {}
        /\ r.kind = "load" /\ r.pc = "open" => stored # Nothing
        /\ r.kind # "load" => r.kind \in {"read", "send"} /\ tabs[r.tab] = "in"

\* A call that waits for an answer gets one.
AnsweredCall(r) == r.pc \in Look => r.got # 0 \/ requests[r.tab][r.pc] # 0

\* A calm read is of a version that is wrapped for the identity it has, and its
\* second request is young enough to be answered with that version.
ReadCall(r) ==
    r.calm /\ r.kind = "read" /\ r.pc \in {"open"} \cup Look =>
        /\ r.version \in DOMAIN versions
        /\ versions[r.version] = IF r.pc = "open" THEN r.raw.id ELSE r.id
        /\ r.pc = "again" => r.version <= IF r.got = 0 THEN requests[r.tab]["again"] ELSE r.got

\* Until tabs have overwritten each other's keys, a call has the wrapping key, if it
\* is of a tab that is signed in or is about to store an identity,
KeyedCall(r) ==
    ~raced /\ r.pc \in Stage /\ r.via = NoTask /\ (r.pc = "seal" \/ tabs[r.tab] = "in") => r.key = wrapping.key

\* what a calm call opens is under the wrapping key, and no calm call has failed.
OpeningCall(r) ==
    ~raced => /\ r.pc \in {"peek", "open"} /\ r.calm /\ r.kind # "load" => r.raw.under = wrapping.key
              /\ r.pc # "failed"

\* What a call needs when it asks for the storage key, and what it needs always.
Asking(r) == FreshCall(r) /\ CalmCall(r) /\ ReadCall(r) /\ OpeningCall(r)

Sound(r) == Asking(r) /\ AnsweredCall(r) /\ KeyedCall(r)

CallsInv == \A t \in Task : Formed(tasks[t]) /\ Sound(tasks[t])

\* A tab loads the identity once.
LoadInv ==
    \A t, u \in Task : tasks[t].kind = "load" /\ tasks[u].kind = "load" /\ tasks[t].tab = tasks[u].tab => t = u

\* A tab that has just been opened has no chat keys.  While one is signed in no
\* sign-out comes between, and its chat keys are under the wrapping key.
TabInv ==
    \A T \in Tab :
        /\ tabs[T] = "fresh" => cache[T] = {}
        /\ tabs[T] = "in" => session /\ clearing = {} /\ stored # Nothing
        /\ tabs[T] = "in" /\ ~raced => \A c \in cache[T] : c.under = wrapping.key

\* What the server has when the uploads under way have arrived in order.
LastUpload == IF uploads = <<>> THEN public ELSE uploads[Len(uploads)]

UploadInv == ~missed /\ stored # Nothing => LastUpload = stored.id

DeviceInv == Types /\ CallsInv /\ Waits /\ LoadInv /\ TabInv /\ IdentityOpens /\ UploadInv

-----------------------------------------------------------------------------

(* One call.                                                               *)

LEMMA NoCalls ==
    /\ Formed(Idle) /\ Idle.via = NoTask /\ Idle.tab = NoTab /\ Idle.kind = "none" /\ ~Idle.calm
    /\ Idle.pc = "idle"
    /\ \A k \in {"read", "send"} : Formed([Idle EXCEPT !.kind = k, !.pc = "failed", !.calm = TRUE])
<1>1. Idle \in TaskRecord
  BY DeviceIsTyped DEF Idle, TaskRecord, Sealed, Nothing, Stage, Look, NoIdentity, NoKey
<1>2. \A k \in {"read", "send"} : [Idle EXCEPT !.kind = k, !.pc = "failed", !.calm = TRUE] \in TaskRecord
  BY <1>1 DEF Idle, TaskRecord
<1> QED
  BY <1>1, <1>2 DEF Formed, Idle, Stage, Look, NoKey

LEMMA AskFormed ==
    ASSUME NEW call, Ready(call), NEW v \in Task
    PROVE  LET x == [call EXCEPT !.via = v, !.key = NoKey]
           IN /\ Formed(x) /\ x.via = v /\ x.made = NoKey
              /\ x.kind = call.kind /\ x.pc = call.pc /\ x.tab = call.tab /\ x.raw = call.raw
              /\ x.id = call.id /\ x.version = call.version /\ x.got = call.got /\ x.calm = call.calm
<1> DEFINE x == [call EXCEPT !.via = v, !.key = NoKey]
<1>1. call \in TaskRecord /\ v # NoTask
  BY DeviceIsTyped DEF Ready
<1>2. x \in TaskRecord
  BY <1>1 DEF TaskRecord
<1>3. /\ x.via = v /\ x.made = NoKey
      /\ x.kind = call.kind /\ x.pc = call.pc /\ x.tab = call.tab /\ x.raw = call.raw
      /\ x.id = call.id /\ x.version = call.version /\ x.got = call.got /\ x.calm = call.calm
      /\ x.rotating = call.rotating
  BY <1>1 DEF TaskRecord, Ready
<1> HIDE DEF x
<1>4. Formed(x)
  BY <1>1, <1>2, <1>3 DEF Ready, Formed, Stage, Look
<1> QED
  BY <1>3, <1>4 DEF x

\* A call that asks waits for itself or for the call of its tab that has asked.
LEMMA AskStep ==
    ASSUME tasks \in [Task -> TaskRecord], Waits, \A t \in Task : Formed(tasks[t]),
           NEW t \in Task, tasks[t].via = NoTask,
           NEW call, Ready(call), Ask(t, call), wrapping' = wrapping
    PROVE  /\ Waits'
           /\ \E v \in Task : tasks' = [tasks EXCEPT ![t] = [call EXCEPT !.via = v, !.key = NoKey]]
<1> DEFINE pending == {o \in Running(call.tab) : tasks[o].via = o}
           asked == IF pending = {} THEN t ELSE CHOOSE o \in pending : TRUE
<1>1. call.tab \in Tab
  BY DEF Ready
<1>2. asked \in Task /\ (pending # {} => asked \in pending)
  BY DEF Running
<1>3. PICK v : v = asked
  OBVIOUS
<1>4. v \in Task /\ (pending = {} => v = t) /\ (pending # {} => tasks[v].via = v /\ tasks[v].tab = call.tab)
  BY <1>2, <1>3 DEF Running
<1>5. PICK x : x = [call EXCEPT !.via = v, !.key = NoKey]
  OBVIOUS
<1>6. tasks' = [tasks EXCEPT ![t] = x]
  BY <1>3, <1>5 DEF Ask
<1>7. x.via = v /\ x.made = NoKey /\ x.tab = call.tab
  BY <1>4, <1>5, AskFormed
<1>8. tasks'[t] = x /\ \A u \in Task : u # t => tasks'[u] = tasks[u]
  BY <1>6
<1>9. v # t => pending # {} /\ tasks'[v] = tasks[v]
  BY <1>4, <1>8
<1>10. \A u \in Task : tasks[u].via # t
  BY DeviceIsTyped DEF Waits
<1>11. ASSUME NEW u \in Task, tasks'[u].via # NoTask
       PROVE  tasks'[tasks'[u].via].via = tasks'[u].via /\ tasks'[tasks'[u].via].tab = tasks'[u].tab
  <2>1. CASE u = t
    <3>1. tasks'[u].via = v /\ tasks'[u].tab = call.tab
      BY <1>7, <1>8, <2>1
    <3>2. tasks'[v].via = v /\ tasks'[v].tab = call.tab
      BY <1>4, <1>7, <1>8, <1>9
    <3> QED
      BY <3>1, <3>2
  <2>2. CASE u # t
    <3>1. tasks'[u] = tasks[u] /\ tasks[u].via # t /\ tasks[u].via \in Task
      BY <1>8, <1>10, <1>11, <2>2 DEF TaskRecord
    <3>2. tasks'[tasks[u].via] = tasks[tasks[u].via]
      BY <1>8, <3>1
    <3> QED
      BY <1>11, <3>1, <3>2 DEF Waits
  <2> QED
    BY <2>1, <2>2
<1>12. ASSUME NEW o \in Task, NEW p \in Task, tasks'[o].via = o, tasks'[p].via = p,
              tasks'[o].tab = tasks'[p].tab, o # p
       PROVE  FALSE
  <2>1. ASSUME NEW q \in Task, q # t, tasks'[t].via = t, tasks'[q].via = q, tasks'[q].tab = tasks'[t].tab
        PROVE  FALSE
    <3>1. v = t /\ tasks[q].via = q /\ tasks[q].tab = call.tab
      BY <1>7, <1>8, <2>1
    <3>2. q \in pending
      BY <3>1 DEF Running
    <3> QED
      BY <1>4, <1>10, <3>1, <3>2
  <2>2. CASE o # t /\ p # t
    BY <1>8, <1>12, <2>2 DEF Waits
  <2> QED
    BY <1>12, <2>1, <2>2
<1>13. ASSUME NEW o \in Task, tasks'[o].via = o, tasks'[o].made # NoKey
       PROVE  wrapping'.key = NoKey \/ wrapping'.by # tasks'[o].tab
  BY <1>7, <1>8, <1>13 DEF Waits
<1>14. Waits'
  BY <1>11, <1>12, <1>13 DEF Waits
<1> QED
  BY <1>4, <1>5, <1>6, <1>14

\* Nothing waits for a call that does not wait; it may go on or end.
LEMMA WaitsStay ==
    ASSUME tasks \in [Task -> TaskRecord], Waits,
           NEW t \in Task, tasks[t].via = NoTask, NEW x, x.via = NoTask,
           tasks' = [tasks EXCEPT ![t] = x], wrapping' = wrapping
    PROVE  Waits'
<1>1. tasks'[t] = x /\ \A u \in Task : u # t => tasks'[u] = tasks[u]
  OBVIOUS
<1>2. \A u \in Task : tasks[u].via # t
  BY DeviceIsTyped DEF Waits
<1>3. ASSUME NEW u \in Task, tasks'[u].via # NoTask
      PROVE  tasks'[tasks'[u].via].via = tasks'[u].via /\ tasks'[tasks'[u].via].tab = tasks'[u].tab
  <2>1. u # t /\ tasks'[u] = tasks[u] /\ tasks[u].via # t /\ tasks[u].via \in Task
    BY <1>1, <1>2, <1>3 DEF TaskRecord
  <2>2. tasks'[tasks[u].via] = tasks[tasks[u].via]
    BY <1>1, <2>1
  <2> QED
    BY <1>3, <2>1, <2>2 DEF Waits
<1>4. \A o \in Task : tasks'[o].via = o => o # t /\ tasks'[o] = tasks[o]
  BY <1>1, DeviceIsTyped
<1> QED
  BY <1>3, <1>4 DEF Waits

LEMMA InvTypes ==
    ASSUME DeviceInv
    PROVE  DeviceTypeOK
<1>1. ASSUME NEW t \in Task, tasks[t].pc \in Look
      PROVE  tasks[t].got # 0 \/ requests[tasks[t].tab][tasks[t].pc] # 0
  BY <1>1 DEF DeviceInv, CallsInv, Sound, AnsweredCall
<1>2. ASSUME NEW t \in Task, tasks[t].via # NoTask
      PROVE  LET o == tasks[t].via IN tasks[o].via = o /\ tasks[o].tab = tasks[t].tab
  BY <1>2 DEF DeviceInv, Waits
<1>3. Len(versions) <= Versions
  BY DEF DeviceInv, Types
<1> QED
  BY <1>1, <1>2, <1>3 DEF DeviceInv, Types, DeviceTypeOK

LEMMA InvInit == DeviceInit => DeviceInv
<1> SUFFICES ASSUME DeviceInit PROVE DeviceInv
  OBVIOUS
<1>1. Types
  <2>1. /\ stored \in Sealed /\ stored = Nothing
        /\ wrapping \in [key : Key \cup {NoKey}, by : Tab \cup {NoTab}]
        /\ session \in BOOLEAN /\ missed \in BOOLEAN /\ raced \in BOOLEAN
        /\ tabs \in [Tab -> {"fresh", "in", "behind", "out"}]
        /\ clearing \subseteq Tab
        /\ cache \in [Tab -> SUBSET [version : 1..Versions, under : Key]]
    BY DEF DeviceInit, Sealed, Nothing
  <2>2. Versions \in Nat \ {0} /\ Uploads \in Nat \ {0} /\ Calls \in Nat \ {0} /\ Identities \in Nat \ {0}
    BY DeviceIsTyped
  <2>3. requests \in [Tab -> [Look -> 0..Versions]] /\ public \in Identity /\ calls \in 0..Calls
    BY <2>2 DEF DeviceInit, Backup, Identity
  <2>4. /\ versions \in Seq(Identity) /\ Len(versions) \in 1..Versions
        /\ uploads \in Seq(Identity) /\ Len(uploads) <= Uploads
    BY <2>2 DEF DeviceInit, Backup, Identity
  <2>5. tasks \in [Task -> TaskRecord]
    BY NoCalls DEF DeviceInit, Formed
  <2> QED
    BY <2>1, <2>3, <2>4, <2>5 DEF Types
<1>2. CallsInv
  <2>1. Sound(Idle)
    BY NoCalls DEF Sound, Asking, FreshCall, CalmCall, ReadCall, OpeningCall, AnsweredCall, KeyedCall, Look, Stage
  <2> QED
    BY <2>1, NoCalls DEF DeviceInit, CallsInv
<1>3. Waits /\ LoadInv
  BY NoCalls, DeviceIsTyped DEF DeviceInit, Waits, LoadInv
<1>4. TabInv /\ IdentityOpens /\ UploadInv
  BY DEF DeviceInit, TabInv, IdentityOpens, UploadInv
<1> QED
  BY <1>1, <1>2, <1>3, <1>4 DEF DeviceInv

LEMMA IdleSound == Sound(Idle)
BY NoCalls DEF Sound, Asking, FreshCall, CalmCall, ReadCall, OpeningCall, AnsweredCall, KeyedCall, Look, Stage

LEMMA AskSound ==
    ASSUME NEW call, Ready(call), Asking(call), NEW v \in Task
    PROVE  Sound([call EXCEPT !.via = v, !.key = NoKey])
<1>1. PICK x : x = [call EXCEPT !.via = v, !.key = NoKey]
  OBVIOUS
<1>2. /\ x.via = v /\ x.kind = call.kind /\ x.pc = call.pc /\ x.tab = call.tab /\ x.raw = call.raw
      /\ x.id = call.id /\ x.version = call.version /\ x.got = call.got /\ x.calm = call.calm
  BY <1>1, AskFormed
<1>3. v # NoTask /\ call.pc \in Stage
  BY DeviceIsTyped DEF Ready
<1>4. KeyedCall(x) /\ AnsweredCall(x)
  BY <1>2, <1>3 DEF KeyedCall, AnsweredCall, Stage, Look
<1>5. FreshCall(x) /\ CalmCall(x)
  BY <1>2 DEF Asking, FreshCall, CalmCall
<1>6. ReadCall(x) /\ OpeningCall(x)
  BY <1>2 DEF Asking, ReadCall, OpeningCall
<1> QED
  BY <1>1, <1>4, <1>5, <1>6 DEF Sound, Asking

-----------------------------------------------------------------------------
(* A step of one call that leaves what calls share alone.                  *)

\* A call that loads is the one that did, or the first of its tab.
LoadsOnce(t, x) ==
    x.kind = "load" => \A u \in Task : tasks[u].kind = "load" /\ tasks[u].tab = x.tab => u = t

LEMMA CallStays ==
    ASSUME UNCHANGED sharedVars, NEW r, Sound(r)
    PROVE  Sound(r)'
BY DEF sharedVars, Sound, Asking, FreshCall, CalmCall, ReadCall, OpeningCall, AnsweredCall, KeyedCall

LEMMA LoadsStay ==
    ASSUME LoadInv, tasks \in [Task -> TaskRecord], NEW t \in Task, NEW x, LoadsOnce(t, x),
           tasks' = [tasks EXCEPT ![t] = x]
    PROVE  LoadInv'
BY DEF LoadInv, LoadsOnce

LEMMA TypesStay ==
    ASSUME Types, UNCHANGED sharedVars, calls' \in 0..Calls, tasks' \in [Task -> TaskRecord]
    PROVE  Types'
BY DEF Types, sharedVars

LEMMA OneCallStep ==
    ASSUME DeviceInv, UNCHANGED sharedVars, calls' \in 0..Calls,
           NEW t \in Task, NEW x, tasks' = [tasks EXCEPT ![t] = x],
           Formed(x), Sound(x), Waits', LoadsOnce(t, x)
    PROVE  DeviceInv'
<1>1. Types'
  BY TypesStay DEF DeviceInv, Types, Formed
<1>2. CallsInv'
  <2> SUFFICES ASSUME NEW u \in Task PROVE Formed(tasks'[u]) /\ Sound(tasks[u])'
    BY DEF CallsInv, Formed
  <2>1. PICK r : r = tasks'[u]
    OBVIOUS
  <2>2. r = x \/ r = tasks[u]
    BY <2>1 DEF DeviceInv, Types
  <2>3. Formed(r) /\ Sound(r)
    BY <2>2 DEF DeviceInv, CallsInv
  <2>4. Sound(r)'
    BY <2>3, CallStays
  <2> QED
    BY <2>1, <2>3, <2>4 DEF Sound, Asking, FreshCall, CalmCall, ReadCall, OpeningCall, AnsweredCall, KeyedCall
<1>3. LoadInv'
  BY LoadsStay DEF DeviceInv, Types
<1>4. TabInv' /\ IdentityOpens'
  BY DEF DeviceInv, TabInv, IdentityOpens, sharedVars
<1>5. UploadInv'
  BY DEF DeviceInv, UploadInv, LastUpload, sharedVars
<1> QED
  BY <1>1, <1>2, <1>3, <1>4, <1>5 DEF DeviceInv

LEMMA OneAskStep ==
    ASSUME DeviceInv, UNCHANGED sharedVars, calls' \in 0..Calls,
           NEW t \in Task, tasks[t].via = NoTask,
           NEW call, Ready(call), Asking(call), Ask(t, call), LoadsOnce(t, call)
    PROVE  DeviceInv'
<1>1. wrapping' = wrapping /\ tasks \in [Task -> TaskRecord] /\ Waits /\ \A u \in Task : Formed(tasks[u])
  BY DEF sharedVars, DeviceInv, Types, CallsInv
<1>2. Waits'
  BY <1>1, AskStep
<1>3. PICK v \in Task : tasks' = [tasks EXCEPT ![t] = [call EXCEPT !.via = v, !.key = NoKey]]
  BY <1>1, AskStep
<1>4. PICK x : x = [call EXCEPT !.via = v, !.key = NoKey]
  OBVIOUS
<1>5. Formed(x) /\ x.kind = call.kind /\ x.tab = call.tab
  BY <1>4, AskFormed
<1>6. Sound(x)
  BY <1>4, AskSound
<1>7. LoadsOnce(t, x)
  BY <1>5 DEF LoadsOnce
<1> QED
  BY <1>2, <1>3, <1>4, <1>5, <1>6, <1>7, OneCallStep

NewCall(c, T, kind) ==
    /\ c \in TaskRecord /\ c.kind = kind /\ c.pc = "idle" /\ c.tab = T /\ c.raw = stored
    /\ c.made = NoKey /\ c.rotating = FALSE /\ c.calm = FALSE

LEMMA CallTyped ==
    ASSUME stored \in Sealed, NEW t, NEW T \in Tab, NEW kind \in {"load", "create", "restore", "read", "send"}
    PROVE  NewCall(Call(t, T, kind), T, kind)
<1>1. Idle \in TaskRecord
  BY NoCalls DEF Formed
<1>2. /\ Idle.pc = "idle" /\ Idle.made = NoKey /\ Idle.rotating = FALSE /\ Idle.calm = FALSE
  BY DEF Idle
<1>3. PICK i : i = Idle
  OBVIOUS
<1>4. PICK c : c = [i EXCEPT !.kind = kind, !.tab = T, !.raw = stored]
  OBVIOUS
<1>5. c \in TaskRecord
  <2>1. c = [kind |-> kind, pc |-> "idle", tab |-> T, via |-> NoTask, made |-> NoKey, key |-> NoKey,
             raw |-> stored, id |-> NoIdentity, version |-> 0, got |-> 0, rotating |-> FALSE, calm |-> FALSE]
    BY <1>3, <1>4 DEF Idle
  <2> QED
    BY <2>1, DeviceIsTyped DEF TaskRecord, NoIdentity, NoKey
<1>6. c.kind = kind /\ c.tab = T /\ c.raw = stored /\ c.pc = i.pc /\ c.made = i.made
  BY <1>1, <1>3, <1>4 DEF TaskRecord
<1>7. c.rotating = i.rotating /\ c.calm = i.calm
  BY <1>1, <1>3, <1>4 DEF TaskRecord
<1>8. NewCall(c, T, kind)
  BY <1>2, <1>3, <1>5, <1>6, <1>7 DEF NewCall
<1> QED
  BY <1>3, <1>4, <1>8 DEF Call

LEMMA FreeStep ==
    ASSUME DeviceInv, NEW t \in Task, Free(t)
    PROVE  tasks[t].via = NoTask /\ tasks[t].tab = NoTab
BY DEF DeviceInv, CallsInv, Formed, Free

LEMMA DoneStep ==
    ASSUME DeviceInv, UNCHANGED sharedVars, calls' \in 0..Calls,
           NEW t \in Task, tasks[t].via = NoTask, Done(t)
    PROVE  DeviceInv'
<1>1. tasks' = [tasks EXCEPT ![t] = Idle] /\ wrapping' = wrapping
  BY DEF Done, sharedVars
<1>2. Waits'
  BY <1>1, NoCalls, WaitsStay DEF DeviceInv, Types
<1> QED
  BY <1>1, <1>2, NoCalls, IdleSound, OneCallStep DEF LoadsOnce

LEMMA FailStep ==
    ASSUME DeviceInv, UNCHANGED sharedVars, calls' \in 0..Calls,
           NEW t \in Task, tasks[t].via = NoTask,
           NEW call, call.calm /\ call.kind \in {"read", "send"} => raced, Fail(t, call)
    PROVE  DeviceInv'
<1>1. CASE ~(call.calm /\ call.kind \in {"read", "send"})
  BY <1>1, DoneStep DEF Fail, Done
<1>2. CASE call.calm /\ call.kind \in {"read", "send"}
  <2>1. PICK x : x = [Idle EXCEPT !.kind = call.kind, !.pc = "failed", !.calm = TRUE]
    OBVIOUS
  <2>2. tasks' = [tasks EXCEPT ![t] = x] /\ wrapping' = wrapping /\ raced
    BY <1>2, <2>1 DEF Fail, sharedVars
  <2>3. Formed(x)
    BY <1>2, <2>1, NoCalls
  <2>4. x.via = NoTask /\ x.tab = NoTab /\ x.pc = "failed" /\ x.kind # "load"
    BY <1>2, <2>1 DEF Idle
  <2>5. Sound(x)
    BY <2>2, <2>4
    DEF Sound, Asking, FreshCall, CalmCall, ReadCall, OpeningCall, AnsweredCall, KeyedCall, Look, Stage
  <2>6. Waits'
    BY <2>2, <2>4, WaitsStay DEF DeviceInv, Types
  <2> QED
    BY <2>2, <2>3, <2>4, <2>5, <2>6, OneCallStep DEF LoadsOnce
<1> QED
  BY <1>1, <1>2

\* A new identity is stored under a name that is one.
LEMMA GenerateStep ==
    ASSUME DeviceInv, UNCHANGED sharedVars, calls' \in 0..Calls,
           NEW t \in Task, tasks[t].via = NoTask,
           NEW call \in TaskRecord, call.tab \in Tab, call.made = NoKey, call.kind \in {"load", "create"},
           ~call.rotating, call.pc # "failed",
           LoadsOnce(t, call), FreshCall(call), CalmCall(call), Generate(t, call)
    PROVE  DeviceInv'
<1>1. PICK i \in NewIdentity : Ask(t, [call EXCEPT !.pc = "seal", !.id = i, !.raw = Nothing])
  BY DEF Generate
<1>2. i \in Identity
  BY DEF NewIdentity, NewOf
<1>3. PICK x : x = [call EXCEPT !.pc = "seal", !.id = i, !.raw = Nothing]
  OBVIOUS
<1>4. /\ x \in TaskRecord /\ x.pc = "seal" /\ x.id = i /\ x.kind = call.kind /\ x.tab = call.tab
      /\ x.made = call.made /\ x.rotating = call.rotating /\ x.calm = call.calm
  <2>1. Nothing \in Sealed /\ "seal" \in Stage
    BY DEF Sealed, Nothing, Stage
  <2>2. x \in TaskRecord
    BY <1>2, <1>3, <2>1 DEF TaskRecord
  <2> QED
    BY <1>3, <2>2 DEF TaskRecord
<1>5. Ready(x)
  BY <1>2, <1>4 DEF Ready, Stage
<1>6. Asking(x)
  <2>1. FreshCall(x)
    BY <1>4 DEF FreshCall
  <2>2. CalmCall(x)
    BY <1>4 DEF CalmCall
  <2>3. ReadCall(x) /\ OpeningCall(x)
    BY <1>4 DEF ReadCall, OpeningCall, Look
  <2> QED
    BY <2>1, <2>2, <2>3 DEF Asking
<1>7. LoadsOnce(t, x)
  BY <1>4 DEF LoadsOnce
<1> QED
  BY <1>1, <1>3, <1>5, <1>6, <1>7, OneAskStep

-----------------------------------------------------------------------------
(* Calls begin.                                                            *)

LEMMA BegunStep ==
    ASSUME DeviceInv, Begun
    PROVE  calls' \in 0..Calls
BY DeviceIsTyped DEF DeviceInv, Types, Begun

\* It goes on to open the identity that it has read.
LEMMA OpenStep ==
    ASSUME DeviceInv, UNCHANGED sharedVars, calls' \in 0..Calls, stored # Nothing,
           NEW t \in Task, tasks[t].via = NoTask,
           NEW call \in TaskRecord, call.tab \in Tab, call.made = NoKey, call.raw = stored, ~call.rotating,
           LoadsOnce(t, call), FreshCall(call),
           call.calm => /\ session /\ clearing = {}
                        /\ call.kind # "load" => call.kind \in {"read", "send"} /\ tabs[call.tab] = "in"
                        /\ call.kind = "read" => call.version \in DOMAIN versions
                                                 /\ versions[call.version] = stored.id,
           Ask(t, [call EXCEPT !.pc = "open"])
    PROVE  DeviceInv'
<1>1. PICK x : x = [call EXCEPT !.pc = "open"]
  OBVIOUS
<1>2. /\ x \in TaskRecord /\ x.pc = "open" /\ x.kind = call.kind /\ x.tab = call.tab
      /\ x.made = call.made /\ x.rotating = call.rotating /\ x.calm = call.calm /\ x.raw = stored
      /\ x.version = call.version
  BY <1>1 DEF TaskRecord, Stage
<1>3. stored.id \in Identity /\ stored.under \in Key /\ (~raced => stored.under = wrapping.key)
  BY DEF DeviceInv, Types, IdentityOpens
<1>4. Ready(x)
  BY <1>2, <1>3 DEF Ready, Stage
<1>5. FreshCall(x)
  BY <1>2 DEF FreshCall
<1>6. CalmCall(x)
  BY <1>2 DEF CalmCall
<1>7. ReadCall(x) /\ OpeningCall(x)
  BY <1>2, <1>3 DEF ReadCall, OpeningCall
<1>8. LoadsOnce(t, x)
  BY <1>2 DEF LoadsOnce
<1> QED
  BY <1>1, <1>4, <1>5, <1>6, <1>7, <1>8, OneAskStep DEF Asking

LEMMA LoadStep ==
    ASSUME DeviceInv, NEW t \in Task, NEW T \in Tab, Load(t, T)
    PROVE  DeviceInv'
<1>0. PICK new : new = Call(t, T, "load")
  OBVIOUS
<1>1. PICK call : call = [new EXCEPT !.calm = clearing = {}]
  OBVIOUS
<1>2. /\ Free(t) /\ Begun /\ session /\ tabs[T] = "fresh" /\ ~Busy(T, "load")
      /\ Ensure(t, call) /\ UNCHANGED sharedVars
  BY <1>0, <1>1 DEF Load
<1>3. stored \in Sealed /\ tasks[t].via = NoTask /\ calls' \in 0..Calls
  BY <1>2, FreeStep, BegunStep DEF DeviceInv, Types
<1>new. NewCall(new, T, "load")
  BY <1>0, <1>3, CallTyped, Zenon
<1>4. /\ call \in TaskRecord /\ call.kind = "load" /\ call.tab = T /\ call.raw = stored
      /\ call.made = NoKey /\ ~call.rotating /\ call.pc = "idle"
  <2>1. new \in TaskRecord /\ (clearing = {}) \in BOOLEAN
    BY <1>new DEF NewCall
  <2>b. PICK b \in BOOLEAN : b = (clearing = {})
    BY <2>1
  <2>c. call = [new EXCEPT !.calm = b]
    BY <1>1, <2>b
  <2>2. call \in TaskRecord
    BY <2>1, <2>b, <2>c, ZenonT(30) DEF TaskRecord
  <2>3. /\ call.kind = new.kind /\ call.tab = new.tab /\ call.raw = new.raw
        /\ call.made = new.made /\ call.rotating = new.rotating /\ call.pc = new.pc
    BY <1>1, <2>1 DEF TaskRecord
  <2> QED
    BY <2>2, <2>3, <1>new DEF NewCall
<1>5. call.calm => clearing = {}
  BY <1>1, <1>new DEF NewCall, TaskRecord
<1>6. LoadsOnce(t, call)
  BY <1>2, <1>4 DEF LoadsOnce, Busy, Running
<1>7. FreshCall(call) /\ CalmCall(call)
  BY <1>2, <1>4, <1>5 DEF FreshCall, CalmCall
<1>8. CASE stored = Nothing
  <2>1. Generate(t, call)
    BY <1>2, <1>8 DEF Ensure
  <2> QED
    BY <1>2, <1>3, <1>4, <1>6, <1>7, <2>1, GenerateStep
<1>9. CASE stored # Nothing
  <2>1. Ask(t, [call EXCEPT !.pc = "open"])
    BY <1>2, <1>9 DEF Ensure
  <2> QED
    BY <1>2, <1>3, <1>4, <1>5, <1>6, <1>7, <1>9, <2>1, OpenStep
<1> QED
  BY <1>8, <1>9

LEMMA CreateStep ==
    ASSUME DeviceInv, NEW t \in Task, NEW T \in Tab, Create(t, T)
    PROVE  DeviceInv'
<1>1. PICK call : call = Call(t, T, "create")
  OBVIOUS
<1>2. Free(t) /\ Begun /\ SignedIn(T) /\ Ensure(t, call) /\ UNCHANGED sharedVars
  BY <1>1 DEF Create
<1>3. stored \in Sealed /\ tasks[t].via = NoTask /\ calls' \in 0..Calls
  BY <1>2, FreeStep, BegunStep DEF DeviceInv, Types
<1>4. /\ call \in TaskRecord /\ call.kind = "create" /\ call.tab = T /\ call.raw = stored
      /\ call.made = NoKey /\ ~call.rotating /\ ~call.calm /\ call.pc = "idle"
  <2>1. NewCall(call, T, "create")
    BY <1>1, <1>3, CallTyped, Zenon
  <2> QED
    BY <2>1 DEF NewCall
<1>5. LoadsOnce(t, call)
  BY <1>4 DEF LoadsOnce
<1>6. FreshCall(call) /\ CalmCall(call)
  BY <1>2, <1>4 DEF FreshCall, CalmCall, SignedIn
<1>7. CASE stored = Nothing
  <2>1. Generate(t, call)
    BY <1>2, <1>7 DEF Ensure
  <2> QED
    BY <1>2, <1>3, <1>4, <1>5, <1>6, <2>1, GenerateStep
<1>8. CASE stored # Nothing
  <2>1. Ask(t, [call EXCEPT !.pc = "open"])
    BY <1>2, <1>8 DEF Ensure
  <2> QED
    BY <1>2, <1>3, <1>4, <1>5, <1>6, <1>8, <2>1, OpenStep
<1> QED
  BY <1>7, <1>8

LEMMA RestoreStep ==
    ASSUME DeviceInv, NEW t \in Task, NEW T \in Tab, Restore(t, T)
    PROVE  DeviceInv'
<1>0. PICK new : new = Call(t, T, "restore")
  OBVIOUS
<1>1. PICK x : x = [new EXCEPT !.pc = "seal", !.id = Backup, !.raw = Nothing]
  OBVIOUS
<1>2. Free(t) /\ Begun /\ SignedIn(T) /\ Ask(t, x) /\ UNCHANGED sharedVars
  BY <1>0, <1>1 DEF Restore
<1>3. stored \in Sealed /\ tasks[t].via = NoTask /\ calls' \in 0..Calls
  BY <1>2, FreeStep, BegunStep DEF DeviceInv, Types
<1>new. NewCall(new, T, "restore")
  BY <1>0, <1>3, CallTyped, Zenon
<1>4. Backup \in Identity
  BY DeviceIsTyped DEF Backup, Identity
<1>5. /\ x \in TaskRecord /\ x.kind = "restore" /\ x.tab = T /\ x.pc = "seal" /\ x.id = Backup
      /\ x.made = NoKey /\ ~x.rotating /\ ~x.calm
  <2>1. new \in TaskRecord /\ Nothing \in Sealed /\ "seal" \in Stage
    BY <1>new DEF NewCall, Sealed, Nothing, Stage
  <2>2. x \in TaskRecord
    BY <1>1, <1>4, <2>1 DEF TaskRecord
  <2>3. x.pc = "seal" /\ x.id = Backup
    BY <1>1, <2>1 DEF TaskRecord
  <2>4. /\ x.kind = new.kind /\ x.tab = new.tab /\ x.made = new.made
        /\ x.rotating = new.rotating /\ x.calm = new.calm
    BY <1>1, <2>1 DEF TaskRecord
  <2> QED
    BY <2>2, <2>3, <2>4, <1>new DEF NewCall
<1>6. Ready(x)
  BY <1>4, <1>5 DEF Ready, Stage
<1>7. Asking(x)
  BY <1>2, <1>5 DEF Asking, FreshCall, CalmCall, ReadCall, OpeningCall, SignedIn
<1>8. LoadsOnce(t, x)
  BY <1>5 DEF LoadsOnce
<1> QED
  BY <1>2, <1>3, <1>6, <1>7, <1>8, OneAskStep

\* A tab that is signed in, when nothing has come between, has an identity.
LEMMA CalmTab ==
    ASSUME DeviceInv, NEW T \in Tab, Calm(T)
    PROVE  /\ session /\ clearing = {} /\ tabs[T] = "in" /\ ~raced /\ stored # Nothing
           /\ \A c \in cache[T] : c.under = wrapping.key
BY DEF DeviceInv, TabInv, Calm

LEMMA SendStep ==
    ASSUME DeviceInv, NEW t \in Task, NEW T \in Tab, Send(t, T)
    PROVE  DeviceInv'
<1>0. PICK new : new = Call(t, T, "send")
  OBVIOUS
<1>1. PICK call : call = [new EXCEPT !.calm = Calm(T)]
  OBVIOUS
<1>2. /\ Free(t) /\ Begun /\ SignedIn(T) /\ UNCHANGED sharedVars
      /\ IF stored = Nothing THEN Fail(t, call) ELSE Ask(t, [call EXCEPT !.pc = "open"])
  BY <1>0, <1>1 DEF Send
<1>3. stored \in Sealed /\ tasks[t].via = NoTask /\ calls' \in 0..Calls
  BY <1>2, FreeStep, BegunStep DEF DeviceInv, Types
<1>new. NewCall(new, T, "send")
  BY <1>0, <1>3, CallTyped, Zenon
<1>4. /\ call.kind = "send" /\ call.tab = T /\ call.raw = stored
      /\ call.made = NoKey /\ ~call.rotating
  BY <1>1, <1>new DEF NewCall, TaskRecord
<1>5. (call.calm <=> Calm(T)) /\ call \in TaskRecord
  <2>1. Calm(T) \in BOOLEAN
    BY DEF Calm
  <2> QED
    BY <1>1, <1>3, <2>1, <1>new DEF NewCall, TaskRecord
<1>6. FreshCall(call) /\ LoadsOnce(t, call)
  BY <1>2, <1>4 DEF FreshCall, LoadsOnce, SignedIn
<1>7. CASE stored = Nothing
  BY <1>2, <1>3, <1>5, <1>7, CalmTab, FailStep
<1>8. CASE stored # Nothing
  BY <1>2, <1>3, <1>4, <1>5, <1>6, <1>8, CalmTab, OpenStep
<1> QED
  BY <1>7, <1>8

LEMMA ReadStep ==
    ASSUME DeviceInv, NEW t \in Task, NEW T \in Tab, NEW v \in 1..Versions, Read(t, T, v)
    PROVE  DeviceInv'
<1>0. PICK new : new = Call(t, T, "read")
  OBVIOUS
<1>1. PICK call : call = [new EXCEPT !.version = v,
                                                     !.calm = Calm(T) /\ versions[v] = stored.id]
  OBVIOUS
<1>2. /\ Free(t) /\ Begun /\ SignedIn(T) /\ v \in DOMAIN versions /\ UNCHANGED sharedVars
  BY DEF Read
<1>3. \/ \E c \in cache[T] :
            Ask(t, [call EXCEPT !.pc = "peek", !.raw = [Nothing EXCEPT !.under = c.under]])
      \/ stored = Nothing /\ Fail(t, call)
      \/ stored # Nothing /\ Ask(t, [call EXCEPT !.pc = "open"])
  BY <1>0, <1>1 DEF Read
<1>4. stored \in Sealed /\ tasks[t].via = NoTask /\ calls' \in 0..Calls
  BY <1>2, FreeStep, BegunStep DEF DeviceInv, Types
<1>new. NewCall(new, T, "read")
  BY <1>0, <1>4, CallTyped, Zenon
<1>5. /\ call.kind = "read" /\ call.tab = T /\ call.raw = stored /\ call.version = v
      /\ call.made = NoKey /\ ~call.rotating
  BY <1>1, <1>new DEF NewCall, TaskRecord
<1>6. (call.calm <=> Calm(T) /\ versions[v] = stored.id) /\ call \in TaskRecord
  <2>1. (Calm(T) /\ versions[v] = stored.id) \in BOOLEAN /\ v \in 0..Versions
    BY DeviceIsTyped
  <2>2. PICK b \in BOOLEAN : b = (Calm(T) /\ versions[v] = stored.id)
    BY <2>1
  <2>3. call = [new EXCEPT !.version = v, !.calm = b] /\ new \in TaskRecord
    BY <1>1, <2>2, <1>new DEF NewCall
  <2>4. call \in TaskRecord
    BY <2>1, <2>3 DEF TaskRecord
  <2>5. call.calm = b
    BY <2>3 DEF TaskRecord
  <2> QED
    BY <2>2, <2>4, <2>5
<1>7. FreshCall(call) /\ LoadsOnce(t, call)
  BY <1>2, <1>5 DEF FreshCall, LoadsOnce, SignedIn
<1>8. ASSUME NEW c \in cache[T],
             Ask(t, [call EXCEPT !.pc = "peek", !.raw = [Nothing EXCEPT !.under = c.under]])
      PROVE  DeviceInv'
  <2>1. PICK x : x = [call EXCEPT !.pc = "peek", !.raw = [Nothing EXCEPT !.under = c.under]]
    OBVIOUS
  <2>2. c.under \in Key
    BY DEF DeviceInv, Types
  <2>3. [Nothing EXCEPT !.under = c.under] \in Sealed /\ [Nothing EXCEPT !.under = c.under].under = c.under
    BY <2>2 DEF Nothing, Sealed
  <2>4. /\ x \in TaskRecord /\ x.pc = "peek" /\ x.kind = "read" /\ x.tab = T /\ x.raw.under = c.under
        /\ x.made = NoKey /\ ~x.rotating /\ (x.calm => Calm(T))
    BY <1>5, <1>6, <2>1, <2>3 DEF TaskRecord, Stage
  <2>5. Ready(x)
    BY <2>4 DEF Ready, Stage
  <2>6. FreshCall(x) /\ LoadsOnce(t, x)
    BY <1>2, <2>4 DEF FreshCall, LoadsOnce, SignedIn
  <2>7. CalmCall(x)
    BY <2>4, CalmTab DEF CalmCall
  <2>8. ReadCall(x) /\ OpeningCall(x)
    BY <2>4, CalmTab DEF ReadCall, OpeningCall, Look
  <2> QED
    BY <1>2, <1>4, <1>8, <2>1, <2>5, <2>6, <2>7, <2>8, OneAskStep DEF Asking
<1>9. CASE stored = Nothing /\ Fail(t, call)
  BY <1>2, <1>4, <1>6, <1>9, CalmTab, FailStep
<1>10. CASE stored # Nothing /\ Ask(t, [call EXCEPT !.pc = "open"])
  BY <1>2, <1>4, <1>5, <1>6, <1>7, <1>10, CalmTab, OpenStep
<1> QED
  BY <1>3, <1>8, <1>9, <1>10

-----------------------------------------------------------------------------
(* Calls go on.                                                            *)

LEMMA CallInv ==
    ASSUME DeviceInv, NEW t \in Task
    PROVE  Formed(tasks[t]) /\ Sound(tasks[t])
BY DEF DeviceInv, CallsInv

LEMMA CallsNext ==
    ASSUME \A u \in Task : Formed(tasks'[u]) /\ \E r : r = tasks'[u] /\ Sound(r)'
    PROVE  CallsInv'
<1>1. ASSUME NEW u \in Task PROVE Sound(tasks[u])'
  BY DEF Sound, Asking, FreshCall, CalmCall, ReadCall, OpeningCall, AnsweredCall, KeyedCall
<1> QED
  BY <1>1 DEF CallsInv, Formed

\* A calm call of a tab that is signed in has the key that its envelope or its
\* chat key is under, unless tabs have overwritten each other's keys.
LEMMA CalmOpens ==
    ASSUME DeviceInv, NEW t \in Task, Is(t, "open") \/ Is(t, "peek"),
           tasks[t].calm, tasks[t].kind \in {"read", "send"}
    PROVE  raced \/ Opens(t)
BY CallInv DEF Is, Sound, Asking, CalmCall, KeyedCall, OpeningCall, Opens, Stage

\* tasks and calls are all that a step of a call by itself changes.
LEMMA ByItself ==
    ASSUME DeviceInv, UNCHANGED allButTasks
    PROVE  UNCHANGED sharedVars /\ calls' \in 0..Calls
BY DEF allButTasks, DeviceInv, Types

LEMMA CreateOpenedStep ==
    ASSUME DeviceInv, NEW t \in Task, CreateOpened(t)
    PROVE  DeviceInv'
BY ByItself, DoneStep DEF CreateOpened, Opened, Is

LEMMA RotationOpenedStep ==
    ASSUME DeviceInv, NEW t \in Task, RotationOpened(t)
    PROVE  DeviceInv'
<1>1. UNCHANGED sharedVars /\ calls' \in 0..Calls
  BY ByItself DEF RotationOpened
<1>2. PICK r : r = tasks[t]
  OBVIOUS
<1>3. Formed(r) /\ Sound(r) /\ r.rotating /\ r.pc = "open" /\ r.via = NoTask
  BY <1>2, CallInv DEF RotationOpened, Opened, Is
<1>4. PICK x : x = [r EXCEPT !.pc = "post", !.id = r.raw.id, !.raw = Nothing, !.key = NoKey]
  OBVIOUS
<1>5. tasks' = [tasks EXCEPT ![t] = x]
  BY <1>2, <1>4 DEF RotationOpened
<1>6. /\ x \in TaskRecord /\ x.pc = "post" /\ x.id \in Identity /\ x.kind = "send"
      /\ x.via = NoTask /\ x.made = NoKey /\ x.tab = r.tab /\ x.tab \in Tab
      /\ x.calm = r.calm /\ x.rotating = r.rotating /\ r.kind = "send"
  BY <1>3, <1>4 DEF Formed, TaskRecord, Nothing, Sealed
<1>7. Formed(x)
  BY <1>6 DEF Formed, Stage, Look
<1>8. Sound(x)
  <2>1. FreshCall(x)
    BY <1>3, <1>6 DEF Sound, Asking, FreshCall
  <2>2. CalmCall(x)
    BY <1>3, <1>6 DEF Sound, Asking, CalmCall
  <2>3. ReadCall(x) /\ OpeningCall(x) /\ AnsweredCall(x) /\ KeyedCall(x)
    BY <1>6 DEF ReadCall, OpeningCall, AnsweredCall, KeyedCall, Look, Stage
  <2> QED
    BY <2>1, <2>2, <2>3 DEF Sound, Asking
<1>9. Waits'
  BY <1>1, <1>2, <1>3, <1>5, <1>6, WaitsStay DEF DeviceInv, Types, sharedVars
<1> QED
  BY <1>1, <1>5, <1>6, <1>7, <1>8, <1>9, OneCallStep DEF LoadsOnce

LEMMA OpenLostStep ==
    ASSUME DeviceInv, NEW t \in Task, OpenLost(t)
    PROVE  DeviceInv'
<1>1. UNCHANGED sharedVars /\ calls' \in 0..Calls
  BY ByItself DEF OpenLost
<1>2. PICK r : r = tasks[t]
  OBVIOUS
<1>3. Formed(r) /\ Sound(r) /\ r.pc = "open" /\ r.via = NoTask /\ ~Opens(t) /\ Is(t, "open")
  BY <1>2, CallInv DEF OpenLost, Is
<1>4. CASE r.kind \in {"load", "create"}
  <2>1. Generate(t, r)
    BY <1>2, <1>4 DEF OpenLost
  <2>2. r \in TaskRecord /\ r.tab \in Tab /\ r.made = NoKey /\ ~r.rotating /\ FreshCall(r) /\ CalmCall(r)
    BY <1>3, <1>4 DEF Formed, Sound, Asking
  <2>3. LoadsOnce(t, r)
    BY <1>2 DEF DeviceInv, LoadInv, LoadsOnce
  <2> QED
    BY <1>1, <1>2, <1>3, <1>4, <2>1, <2>2, <2>3, GenerateStep
<1>5. CASE r.kind \notin {"load", "create"}
  <2>1. Fail(t, r)
    BY <1>2, <1>5 DEF OpenLost
  <2>2. r.calm /\ r.kind \in {"read", "send"} => raced
    BY <1>2, <1>3, CalmOpens
  <2> QED
    BY <1>1, <1>2, <1>3, <2>1, <2>2, FailStep
<1> QED
  BY <1>4, <1>5

LEMMA PeekStep ==
    ASSUME DeviceInv, NEW t \in Task, Peek(t)
    PROVE  DeviceInv'
<1>1. UNCHANGED sharedVars /\ calls' \in 0..Calls /\ Is(t, "peek") /\ tasks[t].via = NoTask
  BY ByItself DEF Peek, Is
<1>2. CASE Opens(t)
  BY <1>1, <1>2, DoneStep DEF Peek
<1>3. CASE ~Opens(t)
  <2>1. tasks[t].calm /\ tasks[t].kind \in {"read", "send"} => raced
    BY <1>1, <1>3, CalmOpens
  <2> QED
    BY <1>1, <1>3, <2>1, FailStep DEF Peek
<1> QED
  BY <1>2, <1>3

\* A call that has its answer waits for nothing else, and if it is calm its tab is
\* signed in.
LEMMA AnsweredStep ==
    ASSUME DeviceInv, NEW t \in Task, Answered(t)
    PROVE  /\ tasks[t].via = NoTask /\ tasks[t].tab \in Tab /\ tasks[t].kind # "load"
           /\ tasks[t] \in TaskRecord /\ tasks[t].made = NoKey
           /\ tasks[t].got \in 1..Versions
           /\ tasks[t].calm => session /\ stored # Nothing /\ tasks[t].kind \in {"read", "send"}
<1>1. PICK r : r = tasks[t]
  OBVIOUS
<1>2. Formed(r) /\ Sound(r) /\ r.pc \in Look /\ r.got # 0
  BY <1>1, CallInv DEF Answered
<1>3. /\ r.via = NoTask /\ r.tab \in Tab /\ r.kind # "load" /\ r \in TaskRecord /\ r.made = NoKey
      /\ r.got \in 0..Versions
  BY <1>2 DEF Formed, Stage, Look, TaskRecord
<1>4. Versions \in Nat
  BY DeviceIsTyped
<1>5. r.got \in 1..Versions
  BY <1>2, <1>3, <1>4
<1>6. r.calm => session /\ r.kind \in {"read", "send"} /\ tabs[r.tab] = "in"
  BY <1>2, <1>3 DEF Sound, Asking, CalmCall, Look
<1>7. r.calm => stored # Nothing
  BY <1>3, <1>6 DEF DeviceInv, TabInv
<1> QED
  BY <1>1, <1>3, <1>5, <1>6, <1>7

LEMMA TakeVersionStep ==
    ASSUME DeviceInv, NEW t \in Task, TakeVersion(t)
    PROVE  DeviceInv'
<1>1. UNCHANGED sharedVars /\ calls' \in 0..Calls
  BY ByItself DEF TakeVersion
<1>2. PICK r : r = tasks[t]
  OBVIOUS
<1>3. /\ Formed(r) /\ Sound(r) /\ r.pc \in Look /\ r.tab \in Tab /\ r.kind # "load" /\ r \in TaskRecord
      /\ r.made = NoKey /\ r.got \in 1..Versions /\ tasks[t].via = NoTask
  BY <1>2, CallInv, AnsweredStep DEF TakeVersion, Answered
<1>4. PICK v \in 1..r.got : Ask(t, [r EXCEPT !.pc = "keep", !.version = v, !.got = 0])
  BY <1>2 DEF TakeVersion, Selected
<1>5. PICK x : x = [r EXCEPT !.pc = "keep", !.version = v, !.got = 0]
  OBVIOUS
<1>6. v \in 1..Versions /\ v \in 0..Versions /\ 0 \in 0..Versions
  BY <1>3, DeviceIsTyped
<1>7. /\ x \in TaskRecord /\ x.pc = "keep" /\ x.version = v /\ x.kind = r.kind /\ x.tab = r.tab
      /\ x.made = r.made /\ x.rotating = r.rotating /\ x.calm = r.calm
  BY <1>3, <1>5, <1>6 DEF TaskRecord, Stage
<1>8. Ready(x)
  BY <1>3, <1>6, <1>7 DEF Ready, Formed, Stage
<1>9. FreshCall(x) /\ CalmCall(x)
  BY <1>3, <1>7 DEF Sound, Asking, FreshCall, CalmCall, Look
<1>10. ReadCall(x) /\ OpeningCall(x) /\ LoadsOnce(t, x)
  BY <1>3, <1>7 DEF ReadCall, OpeningCall, LoadsOnce, Look
<1> QED
  BY <1>1, <1>3, <1>4, <1>5, <1>8, <1>9, <1>10, OneAskStep DEF Asking

LEMMA RotateStep ==
    ASSUME DeviceInv, NEW t \in Task, Rotate(t)
    PROVE  DeviceInv'
<1>1. UNCHANGED sharedVars /\ calls' \in 0..Calls /\ stored # Nothing
  BY ByItself DEF Rotate
<1>2. PICK r : r = tasks[t]
  OBVIOUS
<1>3. /\ Formed(r) /\ Sound(r) /\ r.pc \in Look /\ r.tab \in Tab /\ r.kind = "send" /\ r \in TaskRecord
      /\ r.made = NoKey /\ tasks[t].via = NoTask
  BY <1>2, CallInv, AnsweredStep DEF Rotate, Answered
<1>4. PICK x : x = [r EXCEPT !.pc = "open", !.raw = stored, !.id = NoIdentity, !.got = 0, !.rotating = TRUE]
  OBVIOUS
<1>5. Ask(t, x)
  BY <1>2, <1>4 DEF Rotate
<1>6. /\ stored \in Sealed /\ stored.id \in Identity /\ stored.under \in Key
      /\ ~raced => stored.under = wrapping.key
  BY <1>1 DEF DeviceInv, Types, IdentityOpens
<1>7. 0 \in 0..Versions
  BY DeviceIsTyped
<1>8. /\ x \in TaskRecord /\ x.pc = "open" /\ x.raw = stored /\ x.kind = "send" /\ x.tab = r.tab
      /\ x.made = r.made /\ x.calm = r.calm
  BY <1>3, <1>4, <1>6, <1>7 DEF TaskRecord, Stage
<1>9. Ready(x)
  BY <1>3, <1>6, <1>8 DEF Ready, Stage
<1>10. FreshCall(x) /\ CalmCall(x)
  BY <1>3, <1>8 DEF Sound, Asking, FreshCall, CalmCall, Look
<1>11. ReadCall(x) /\ OpeningCall(x) /\ LoadsOnce(t, x)
  BY <1>6, <1>8 DEF ReadCall, OpeningCall, LoadsOnce
<1> QED
  BY <1>1, <1>3, <1>5, <1>9, <1>10, <1>11, OneAskStep DEF Asking

\* A calm read does not give up: its version is in the answer and wrapped for the
\* identity that it has.
LEMMA GiveUpStep ==
    ASSUME DeviceInv, NEW t \in Task, GiveUp(t)
    PROVE  DeviceInv'
<1>1. UNCHANGED sharedVars /\ calls' \in 0..Calls
  BY ByItself DEF GiveUp
<1>2. PICK r : r = tasks[t]
  OBVIOUS
<1>3. /\ Formed(r) /\ Sound(r) /\ r.pc \in Look /\ r.got \in 1..Versions /\ tasks[t].via = NoTask
      /\ r.calm => stored # Nothing /\ r.kind \in {"read", "send"}
  BY <1>2, CallInv, AnsweredStep DEF GiveUp, Answered
<1>4. ASSUME r.calm, r.kind = "read" PROVE FALSE
  <2>1. /\ r.version \in DOMAIN versions /\ versions[r.version] = r.id
        /\ r.pc = "again" => r.version <= r.got
    BY <1>3, <1>4 DEF Sound, Asking, ReadCall, Look
  <2>2. r.version \in Nat \ {0}
    BY <2>1, LenProperties DEF DeviceInv, Types
  <2>3. \A v \in Selected(t) : v = r.version
    BY <1>2, <1>4 DEF Selected
  <2>4. Selected(t) # {} \/ r.pc = "again"
    BY <1>2, <1>4 DEF GiveUp
  <2>5. r.pc = "again" => r.version \in Selected(t)
    BY <1>2, <1>3, <1>4, <2>1, <2>2 DEF Selected
  <2>6. r.version \in Selected(t)
    BY <2>3, <2>4, <2>5
  <2>7. Openable(t)
    BY <1>2, <2>1, <2>6 DEF Openable
  <2> QED
    BY <2>7 DEF GiveUp
<1>5. ASSUME r.calm, r.kind = "send" PROVE FALSE
  BY <1>2, <1>3, <1>5 DEF GiveUp
<1>6. Fail(t, r) /\ ~r.calm
  BY <1>2, <1>3, <1>4, <1>5 DEF GiveUp
<1> QED
  BY <1>1, <1>3, <1>6, FailStep

-----------------------------------------------------------------------------
(* Steps of a call that change what calls share.                           *)

\* The other calls are as sound as they were, by a fact about any call.
LEMMA OneCallSound ==
    ASSUME DeviceInv, NEW t \in Task, NEW x, tasks' = [tasks EXCEPT ![t] = x],
           Formed(x), Sound(x)', \A u \in Task : u # t => \A r : r = tasks[u] => Sound(r)'
    PROVE  CallsInv'
<1> SUFFICES ASSUME NEW u \in Task PROVE Formed(tasks'[u]) /\ Sound(tasks[u])'
  BY DEF CallsInv, Formed
<1>1. PICK r : r = tasks'[u]
  OBVIOUS
<1>2. (u = t /\ r = x) \/ (u # t /\ r = tasks[u])
  BY <1>1 DEF DeviceInv, Types
<1>3. Formed(r) /\ Sound(r)'
  BY <1>2, CallInv
<1> QED
  BY <1>1, <1>3 DEF Sound, Asking, FreshCall, CalmCall, ReadCall, OpeningCall, AnsweredCall, KeyedCall

\* A request that is under way is joined, and answered for all who have.
LEMMA ShareStep ==
    ASSUME DeviceInv,
           UNCHANGED <<stored, wrapping, session, tabs, clearing, cache, public, versions, uploads, calls,
                       missed, raced>>,
           NEW t \in Task, tasks[t].via = NoTask, NEW l \in Look,
           NEW call \in TaskRecord, call.tab \in Tab, call.via = NoTask, call.made = NoKey,
           call.id \in Identity, call.kind # "load", call.rotating => call.kind = "send", FreshCall(call),
           call.calm => /\ session /\ clearing = {} /\ call.kind \in {"read", "send"} /\ tabs[call.tab] = "in"
                        /\ call.kind = "read" => call.version \in DOMAIN versions
                                                 /\ versions[call.version] = call.id,
           Share(t, l, call)
    PROVE  DeviceInv'
<1>1. PICK T, older, n : /\ T = call.tab /\ older = requests[T][l]
                         /\ n = IF older = 0 THEN Len(versions) ELSE older
  OBVIOUS
<1>2. requests' = [requests EXCEPT ![T] = [requests[T] EXCEPT ![l] = n]]
  BY <1>1 DEF Share, DeviceInv, Types
<1>3. PICK b \in BOOLEAN : b <=> call.calm /\ ~(l = "again" /\ older \in 1..(call.version - 1))
  OBVIOUS
<1>4. PICK x : x = [call EXCEPT !.pc = l, !.key = NoKey, !.raw = Nothing, !.got = 0, !.calm = b]
  OBVIOUS
<1>5. tasks' = [tasks EXCEPT ![t] = x]
  <2>1. b = (call.calm /\ ~(l = "again" /\ older \in 1..(call.version - 1)))
    BY <1>3 DEF TaskRecord
  <2> QED
    BY <1>1, <1>4, <2>1 DEF Share
<1>6. /\ T \in Tab /\ requests[T] \in [Look -> 0..Versions] /\ older \in 0..Versions
      /\ Len(versions) \in 1..Versions /\ versions \in Seq(Identity) /\ Versions \in Nat
  BY <1>1, DeviceIsTyped DEF DeviceInv, Types
<1>7. n \in 1..Versions /\ (older # 0 => n = older) /\ (older = 0 => n = Len(versions))
  BY <1>1, <1>6
<1>8. /\ requests' \in [Tab -> [Look -> 0..Versions]] /\ requests'[T][l] = n
      /\ \A U \in Tab, k \in Look : requests[U][k] # 0 => requests'[U][k] = requests[U][k]
  <2>1. [requests[T] EXCEPT ![l] = n] \in [Look -> 0..Versions]
    BY <1>6, <1>7
  <2> QED
    BY <1>1, <1>2, <1>6, <1>7, <2>1 DEF DeviceInv, Types
<1>9. /\ x \in TaskRecord /\ x.pc = l /\ x.got = 0 /\ x.id = call.id /\ x.kind = call.kind /\ x.tab = T
      /\ x.via = NoTask /\ x.made = NoKey /\ x.rotating = call.rotating /\ x.version = call.version
      /\ (x.calm <=> b)
  <2>1. 0 \in 0..Versions /\ Nothing \in Sealed /\ NoKey \in Key \cup {NoKey}
    BY <1>6 DEF Sealed, Nothing
  <2>2. x \in TaskRecord
    BY <1>4, <2>1 DEF TaskRecord
  <2> QED
    BY <1>1, <1>4, <2>2 DEF TaskRecord
<1>10. Formed(x)
  BY <1>1, <1>9 DEF Formed, Look, Stage
<1>11. Sound(x)'
  <2>1. FreshCall(x)'
    BY <1>1, <1>9 DEF FreshCall
  <2>2. CalmCall(x)'
    BY <1>1, <1>3, <1>9 DEF CalmCall, Look
  <2>3. AnsweredCall(x)'
    BY <1>7, <1>8, <1>9 DEF AnsweredCall
  <2>4. KeyedCall(x)' /\ OpeningCall(x)'
    BY <1>9 DEF KeyedCall, OpeningCall, Stage, Look
  <2>5. ReadCall(x)'
    <3> SUFFICES ASSUME x.calm, x.kind = "read"
                 PROVE  /\ x.version \in DOMAIN versions /\ versions[x.version] = x.id
                        /\ x.pc = "again" => x.version <= requests'[x.tab]["again"]
      BY <1>9 DEF ReadCall, Look
    <3>1. x.version \in DOMAIN versions /\ versions[x.version] = x.id
      BY <1>3, <1>9
    <3>2. x.version \in 1..Len(versions)
      BY <1>6, <3>1, LenProperties
    <3>3. l = "again" => older \notin 1..(x.version - 1)
      BY <1>3, <1>9
    <3>4. l = "again" => x.version <= n
      BY <1>6, <1>7, <3>2, <3>3
    <3> QED
      BY <1>8, <1>9, <3>1, <3>4
  <2> QED
    BY <2>1, <2>2, <2>3, <2>4, <2>5 DEF Sound, Asking
<1>12. ASSUME NEW u \in Task, u # t, NEW r, r = tasks[u] PROVE Sound(r)'
  <2>1. Formed(r) /\ Sound(r)
    BY <1>12, CallInv
  <2>2. FreshCall(r)' /\ CalmCall(r)' /\ KeyedCall(r)' /\ OpeningCall(r)'
    BY <2>1 DEF Sound, Asking, FreshCall, CalmCall, KeyedCall, OpeningCall
  <2>3. AnsweredCall(r)'
    BY <1>8, <2>1 DEF Sound, AnsweredCall, Formed, Look
  <2>4. ReadCall(r)'
    <3>1. r.pc \in Look => r.tab \in Tab
      BY <2>1 DEF Formed, Look
    <3>2. r.pc = "again" /\ r.got = 0 => requests'[r.tab]["again"] = requests[r.tab]["again"]
      BY <1>8, <2>1, <3>1 DEF Sound, AnsweredCall, Look
    <3> QED
      BY <2>1, <3>2 DEF Sound, Asking, ReadCall
  <2> QED
    BY <2>2, <2>3, <2>4 DEF Sound, Asking
<1>13. CallsInv'
  BY <1>5, <1>10, <1>11, <1>12, OneCallSound
<1>14. Types'
  BY <1>5, <1>8, <1>9 DEF DeviceInv, Types
<1>15. Waits'
  BY <1>5, <1>9, WaitsStay DEF DeviceInv, Types
<1>16. LoadInv'
  BY <1>5, <1>9, LoadsStay DEF DeviceInv, Types, LoadsOnce
<1>17. TabInv' /\ IdentityOpens' /\ UploadInv'
  BY DEF DeviceInv, TabInv, IdentityOpens, UploadInv, LastUpload
<1> QED
  BY <1>13, <1>14, <1>15, <1>16, <1>17 DEF DeviceInv

LEMMA LookupOpenedStep ==
    ASSUME DeviceInv, NEW t \in Task, LookupOpened(t)
    PROVE  DeviceInv'
<1>1. PICK r : r = tasks[t]
  OBVIOUS
<1>2. /\ Formed(r) /\ Sound(r) /\ r.pc = "open" /\ r.via = NoTask /\ r.kind \in {"read", "send"}
      /\ ~r.rotating
  BY <1>1, CallInv DEF LookupOpened, Opened, Is
<1>3. PICK call : call = [r EXCEPT !.id = r.raw.id]
  OBVIOUS
<1>4. Fetch(t, "first", call)
  BY <1>1, <1>3 DEF LookupOpened
<1>5. /\ call \in TaskRecord /\ call.tab = r.tab /\ call.tab \in Tab /\ call.via = NoTask /\ call.made = NoKey
      /\ call.id = r.raw.id /\ call.id \in Identity /\ call.kind = r.kind /\ ~call.rotating
      /\ call.calm = r.calm /\ call.version = r.version
  BY <1>2, <1>3 DEF Formed, TaskRecord
<1>6. FreshCall(call)
  BY <1>2, <1>5 DEF Sound, Asking, FreshCall
<1>7. r.calm => session /\ clearing = {} /\ tabs[r.tab] = "in"
  BY <1>2 DEF Sound, Asking, CalmCall
<1>8. r.calm /\ r.kind = "read" => r.version \in DOMAIN versions /\ versions[r.version] = r.raw.id
  BY <1>2 DEF Sound, Asking, ReadCall
<1>9. CASE session
  <2>1. Share(t, "first", call)
    BY <1>4, <1>9 DEF Fetch
  <2> QED
    BY <1>1, <1>2, <1>5, <1>6, <1>7, <1>8, <2>1, ShareStep DEF LookupOpened, Look
<1>10. CASE ~session
  <2>1. Fail(t, call) /\ UNCHANGED sharedVars /\ calls' \in 0..Calls
    BY <1>4, <1>10 DEF Fetch, LookupOpened, sharedVars, DeviceInv, Types
  <2> QED
    BY <1>1, <1>2, <1>5, <1>7, <1>10, <2>1, FailStep
<1> QED
  BY <1>9, <1>10

LEMMA LookAgainStep ==
    ASSUME DeviceInv, NEW t \in Task, LookAgain(t)
    PROVE  DeviceInv'
<1>1. PICK r : r = tasks[t]
  OBVIOUS
<1>2. /\ Formed(r) /\ Sound(r) /\ r.pc = "first" /\ r.via = NoTask /\ r.kind # "load" /\ r.tab \in Tab
      /\ r \in TaskRecord /\ r.made = NoKey
      /\ r.calm => session /\ r.kind \in {"read", "send"}
  BY <1>1, CallInv, AnsweredStep DEF LookAgain, Answered
<1>3. Fetch(t, "again", r)
  BY <1>1 DEF LookAgain, FetchAgain
<1>4. r.id \in Identity /\ (r.rotating => r.kind = "send") /\ FreshCall(r)
  BY <1>2 DEF Formed, Sound, Asking, Look
<1>5. r.calm => clearing = {} /\ tabs[r.tab] = "in"
  BY <1>2 DEF Sound, Asking, CalmCall
<1>6. r.calm /\ r.kind = "read" => r.version \in DOMAIN versions /\ versions[r.version] = r.id
  BY <1>2 DEF Sound, Asking, ReadCall, Look
<1>7. CASE session
  <2>1. Share(t, "again", r)
    BY <1>3, <1>7 DEF Fetch
  <2> QED
    BY <1>1, <1>2, <1>4, <1>5, <1>6, <1>7, <2>1, ShareStep DEF LookAgain, Look
<1>8. CASE ~session
  <2>1. Fail(t, r) /\ UNCHANGED sharedVars /\ calls' \in 0..Calls
    BY <1>3, <1>8 DEF Fetch, LookAgain, sharedVars, DeviceInv, Types
  <2> QED
    BY <1>1, <1>2, <1>8, <2>1, FailStep
<1> QED
  BY <1>7, <1>8

LEMMA UploadStep ==
    ASSUME DeviceInv, NEW id \in Identity, Upload(id), UNCHANGED <<public, session>>
    PROVE  /\ uploads' \in Seq(Identity) /\ Len(uploads') <= Uploads
           /\ session => LastUpload' = id
           /\ ~session => LastUpload' = LastUpload
<1>1. uploads \in Seq(Identity) /\ Len(uploads) \in Nat /\ Len(uploads) < Uploads /\ Uploads \in Nat
  BY DeviceIsTyped, LenProperties DEF DeviceInv, Types, Upload
<1>2. CASE session
  <2>1. /\ uploads' = Append(uploads, id) /\ uploads' \in Seq(Identity) /\ uploads' # <<>>
        /\ Len(uploads') = Len(uploads) + 1 /\ uploads'[Len(uploads) + 1] = id
    BY <1>1, <1>2, AppendProperties DEF Upload
  <2>2. Len(uploads') <= Uploads
    BY <1>1, <2>1
  <2> QED
    BY <1>2, <2>1, <2>2 DEF LastUpload
<1>3. CASE ~session
  BY <1>1, <1>3 DEF Upload, LastUpload
<1> QED
  BY <1>2, <1>3

\* The load of a tab is the only call of it, and the tab has no chat keys.
LEMMA LoadAlone ==
    ASSUME DeviceInv, NEW t \in Task, tasks[t].kind = "load"
    PROVE  /\ tasks[t].tab \in Tab /\ tabs[tasks[t].tab] = "fresh" /\ cache[tasks[t].tab] = {}
           /\ \A u \in Task : u # t => tasks[u].tab # tasks[t].tab
<1>1. PICK r : r = tasks[t]
  OBVIOUS
<1>2. r.tab \in Tab /\ r.tab # NoTab
  BY <1>1, CallInv, DeviceIsTyped DEF Formed
<1>3. tabs[r.tab] = "fresh"
  BY <1>1, <1>2, CallInv DEF Sound, Asking, FreshCall
<1>4. ASSUME NEW u \in Task, tasks[u].tab = r.tab PROVE u = t
  <2>1. tasks[u].kind = "load"
    BY <1>2, <1>3, <1>4, CallInv DEF Sound, Asking, FreshCall
  <2> QED
    BY <1>1, <1>4, <2>1 DEF DeviceInv, LoadInv
<1> QED
  BY <1>1, <1>2, <1>3, <1>4 DEF DeviceInv, TabInv

\* A call that has ended is sound whatever happens.
LEMMA EndedSound ==
    ASSUME NEW r, Formed(r), r.pc \in {"idle", "failed"}, r.pc = "failed" => raced'
    PROVE  Sound(r)'
<1>1. r.tab = NoTab /\ r.kind # "load" /\ (r.pc = "idle" => ~r.calm)
  BY DEF Formed
<1> QED
  BY <1>1
  DEF Sound, Asking, FreshCall, CalmCall, ReadCall, OpeningCall, AnsweredCall, KeyedCall, Look, Stage

\* Its call ends, the tab is signed in, and there is an identity.
LEMMA SignedInStep ==
    ASSUME DeviceInv, NEW t \in Task, tasks[t].kind = "load", tasks[t].via = NoTask,
           SignedInNow(tasks[t]), Done(t),
           UNCHANGED <<wrapping, session, clearing, cache, requests, versions, raced>>,
           stored # Nothing \/ tasks[t].calm => stored' # Nothing
    PROVE  CallsInv' /\ Waits' /\ LoadInv' /\ TabInv'
           /\ tabs' \in [Tab -> {"fresh", "in", "behind", "out"}] /\ tasks' \in [Task -> TaskRecord]
<1>1. PICK T, s : /\ T = tasks[t].tab /\ s \in {"in", "behind"} /\ (s = "in" => tasks[t].calm)
                  /\ tabs' = [tabs EXCEPT ![T] = s]
  BY DEF SignedInNow
<1>2. /\ T \in Tab /\ tabs[T] = "fresh" /\ cache[T] = {} /\ tabs'[T] = s
      /\ \A U \in Tab : U # T => tabs'[U] = tabs[U]
      /\ tabs' \in [Tab -> {"fresh", "in", "behind", "out"}]
  BY <1>1, LoadAlone DEF DeviceInv, Types
<1>3. tasks' = [tasks EXCEPT ![t] = Idle] /\ tasks' \in [Task -> TaskRecord]
  BY NoCalls DEF Done, DeviceInv, Types, Formed
<1>4. Sound(Idle)'
  BY NoCalls DEF Sound, Asking, FreshCall, CalmCall, ReadCall, OpeningCall, AnsweredCall, KeyedCall, Look, Stage
<1>5. ASSUME NEW u \in Task, u # t, NEW r, r = tasks[u] PROVE Sound(r)'
  <2>1. Formed(r) /\ Sound(r) /\ r.tab # T
    BY <1>1, <1>5, CallInv, LoadAlone
  <2>2. r.tab \in Tab => tabs'[r.tab] = tabs[r.tab]
    BY <1>2, <2>1
  <2>3. CASE r.pc \notin {"idle", "failed"}
    BY <2>1, <2>2, <2>3
    DEF Formed, Sound, Asking, FreshCall, CalmCall, ReadCall, OpeningCall, AnsweredCall, KeyedCall
  <2>4. CASE r.pc \in {"idle", "failed"}
    <3>1. r.pc = "failed" => raced'
      BY <2>1 DEF Sound, Asking, OpeningCall
    <3> QED
      BY <2>1, <2>4, <3>1, EndedSound
  <2> QED
    BY <2>3, <2>4
<1>6. CallsInv'
  BY <1>3, <1>4, <1>5, NoCalls, OneCallSound
<1>7. Waits' /\ LoadInv'
  BY <1>3, NoCalls, WaitsStay, LoadsStay DEF DeviceInv, Types, LoadsOnce
<1>8. TabInv'
  <2>1. s = "in" => session /\ clearing = {}
    <3>1. PICK r : r = tasks[t]
      OBVIOUS
    <3>2. Formed(r) /\ Sound(r) /\ r.kind = "load"
      BY <3>1, CallInv
    <3> QED
      BY <1>1, <3>1, <3>2 DEF Formed, Sound, Asking, CalmCall
  <2> QED
    BY <1>1, <1>2, <2>1 DEF DeviceInv, TabInv
<1> QED
  BY <1>2, <1>3, <1>6, <1>7, <1>8

LEMMA LoadOpenedStep ==
    ASSUME DeviceInv, NEW t \in Task, LoadOpened(t)
    PROVE  DeviceInv'
<1>1. PICK r : r = tasks[t]
  OBVIOUS
<1>2. /\ Formed(r) /\ Sound(r) /\ r.pc = "open" /\ r.kind = "load" /\ r.via = NoTask
      /\ r.raw.id \in Identity
  BY <1>1, CallInv DEF LoadOpened, Opened, Is, Formed
<1>3. r.calm => stored # Nothing
  BY <1>2 DEF Sound, Asking, CalmCall
<1>4. /\ SignedInNow(tasks[t]) /\ Done(t) /\ Upload(r.raw.id)
      /\ missed' = ~(session /\ uploads = <<>> /\ stored'.id = r.raw.id)
      /\ UNCHANGED <<stored, wrapping, session, clearing, cache, requests, public, versions, calls, raced>>
  BY <1>1 DEF LoadOpened, UploadFound, Ensured
<1>5. /\ CallsInv' /\ Waits' /\ LoadInv' /\ TabInv'
      /\ tabs' \in [Tab -> {"fresh", "in", "behind", "out"}] /\ tasks' \in [Task -> TaskRecord]
  BY <1>1, <1>2, <1>3, <1>4, SignedInStep
<1>6. /\ uploads' \in Seq(Identity) /\ Len(uploads') <= Uploads
      /\ session => LastUpload' = r.raw.id
  BY <1>2, <1>4, UploadStep
<1>7. Types'
  BY <1>4, <1>5, <1>6 DEF DeviceInv, Types
<1>8. IdentityOpens'
  BY <1>4 DEF DeviceInv, IdentityOpens
<1>9. UploadInv'
  BY <1>4, <1>6 DEF UploadInv
<1> QED
  BY <1>5, <1>7, <1>8, <1>9 DEF DeviceInv

\* An identity is stored under the wrapping key, and is uploaded.
LEMMA SealStep ==
    ASSUME DeviceInv, NEW t \in Task, Seal(t)
    PROVE  DeviceInv'
<1>1. PICK r : r = tasks[t]
  OBVIOUS
<1>2. /\ Formed(r) /\ Sound(r) /\ r.pc = "seal" /\ r.via = NoTask /\ tasks[t].via = NoTask
      /\ r.id \in Identity /\ r.key \in Key
  BY <1>1, CallInv DEF Seal, Is, Formed, Stage
<1>3. /\ Done(t) /\ Upload(r.id) /\ stored' = [id |-> r.id, under |-> r.key]
      /\ UNCHANGED <<wrapping, session, clearing, cache, requests, public, versions, calls, raced>>
  BY <1>1 DEF Seal
<1>4. /\ stored' \in Sealed /\ stored' # Nothing
      /\ stored'.id = r.id /\ stored'.under = r.key
  BY <1>2, <1>3, DeviceIsTyped DEF Sealed, Nothing, Identity, NoIdentity
<1>5. /\ uploads' \in Seq(Identity) /\ Len(uploads') <= Uploads
      /\ session => LastUpload' = r.id
  BY <1>2, <1>3, UploadStep
<1>6. IdentityOpens'
  BY <1>2, <1>3, <1>4 DEF Sound, KeyedCall, IdentityOpens, Stage
<1>7. CASE r.kind = "load"
  <2>1. SignedInNow(tasks[t]) /\ missed' = ~(session /\ uploads = <<>> /\ stored'.id = r.id)
    BY <1>1, <1>7 DEF Seal, Ensured
  <2>2. /\ CallsInv' /\ Waits' /\ LoadInv' /\ TabInv'
        /\ tabs' \in [Tab -> {"fresh", "in", "behind", "out"}] /\ tasks' \in [Task -> TaskRecord]
    BY <1>1, <1>2, <1>3, <1>4, <1>7, <2>1, SignedInStep
  <2>3. Types'
    BY <1>2, <1>3, <1>4, <1>5, <2>1, <2>2 DEF DeviceInv, Types
  <2>4. UploadInv'
    BY <1>5, <2>1 DEF UploadInv
  <2> QED
    BY <1>6, <2>2, <2>3, <2>4 DEF DeviceInv
<1>8. CASE r.kind # "load"
  <2>1. UNCHANGED tabs /\ missed' = (missed \/ ~session)
    BY <1>1, <1>8 DEF Seal
  <2>2. tasks' = [tasks EXCEPT ![t] = Idle] /\ tasks' \in [Task -> TaskRecord]
    BY <1>3, NoCalls DEF Done, DeviceInv, Types, Formed
  <2>3. Sound(Idle)'
    BY NoCalls, EndedSound
  <2>4. ASSUME NEW u \in Task, u # t, NEW q, q = tasks[u] PROVE Sound(q)'
    <3>1. Sound(q)
      BY <2>4, CallInv
    <3> QED
      BY <1>3, <1>4, <2>1, <3>1
      DEF Sound, Asking, FreshCall, CalmCall, ReadCall, OpeningCall, AnsweredCall, KeyedCall
  <2>5. CallsInv'
    BY <2>2, <2>3, <2>4, NoCalls, OneCallSound
  <2>6. Waits' /\ LoadInv'
    BY <1>2, <1>3, <2>2, NoCalls, WaitsStay, LoadsStay DEF DeviceInv, Types, LoadsOnce
  <2>7. TabInv'
    BY <1>3, <1>4, <2>1 DEF DeviceInv, TabInv
  <2>8. Types'
    BY <1>2, <1>3, <1>4, <1>5, <2>1, <2>2 DEF DeviceInv, Types
  <2>9. UploadInv'
    BY <1>4, <1>5, <2>1 DEF DeviceInv, Types, UploadInv
  <2> QED
    BY <1>6, <2>5, <2>6, <2>7, <2>8, <2>9 DEF DeviceInv
<1> QED
  BY <1>7, <1>8

LEMMA VersionAdded ==
    ASSUME DeviceInv, NEW id \in Identity, Len(versions) < Versions, versions' = Append(versions, id)
    PROVE  /\ versions' \in Seq(Identity) /\ Len(versions') \in 1..Versions
           /\ \A v \in DOMAIN versions : v \in DOMAIN versions' /\ versions'[v] = versions[v]
<1>1. versions \in Seq(Identity) /\ Len(versions) \in Nat /\ DOMAIN versions = 1..Len(versions) /\ Versions \in Nat
  BY DeviceIsTyped, LenProperties DEF DeviceInv, Types
<1>2. /\ versions' \in Seq(Identity) /\ Len(versions') = Len(versions) + 1
      /\ \A v \in 1..Len(versions) : versions'[v] = versions[v]
  BY <1>1, AppendProperties
<1>3. DOMAIN versions' = 1..(Len(versions) + 1)
  BY <1>2, LenProperties
<1> QED
  BY <1>1, <1>2, <1>3

\* A version that is added changes nothing for a call; a chat key that is kept neither.
LEMMA VersionsSound ==
    ASSUME UNCHANGED <<stored, wrapping, session, tabs, clearing, requests, raced>>,
           \A v \in DOMAIN versions : v \in DOMAIN versions' /\ versions'[v] = versions[v],
           NEW r, Sound(r)
    PROVE  Sound(r)'
<1>1. FreshCall(r)' /\ CalmCall(r)' /\ OpeningCall(r)' /\ AnsweredCall(r)' /\ KeyedCall(r)'
  BY DEF Sound, Asking, FreshCall, CalmCall, OpeningCall, AnsweredCall, KeyedCall
<1>2. ReadCall(r)'
  BY DEF Sound, Asking, ReadCall
<1> QED
  BY <1>1, <1>2 DEF Sound, Asking

\* The same of all calls but one.
LEMMA VersionsCalls ==
    ASSUME DeviceInv, UNCHANGED <<stored, wrapping, session, tabs, clearing, requests, raced>>,
           \A v \in DOMAIN versions : v \in DOMAIN versions' /\ versions'[v] = versions[v],
           NEW t \in Task, NEW x, tasks' = [tasks EXCEPT ![t] = x], Formed(x), Sound(x)
    PROVE  CallsInv'
<1>1. Sound(x)'
  BY VersionsSound
<1>2. ASSUME NEW u \in Task, u # t, NEW r, r = tasks[u] PROVE Sound(r)'
  BY <1>2, CallInv, VersionsSound
<1> QED
  BY <1>1, <1>2, OneCallSound

LEMMA PostStep ==
    ASSUME DeviceInv, NEW t \in Task, Post(t)
    PROVE  DeviceInv'
<1>1. PICK r : r = tasks[t]
  OBVIOUS
<1>2. /\ Formed(r) /\ Sound(r) /\ r.pc = "post" /\ r.via = NoTask /\ tasks[t].via = NoTask
      /\ r \in TaskRecord /\ r.id \in Identity /\ r.made = NoKey /\ r.tab \in Tab
  BY <1>1, CallInv DEF Post, Is, Formed
<1>3. PICK n : n = Len(versions) + 1
  OBVIOUS
<1>4. PICK c : c = [r EXCEPT !.pc = "keep", !.version = n]
  OBVIOUS
<1>5. /\ Len(versions) < Versions /\ versions' = Append(versions, r.id) /\ Ask(t, c)
      /\ UNCHANGED <<stored, wrapping, session, tabs, clearing, cache, requests, public, uploads, calls,
                     missed, raced>>
  BY <1>1, <1>3, <1>4 DEF Post
<1>6. n \in 1..Versions /\ n \in 0..Versions
  BY <1>3, <1>5, DeviceIsTyped, LenProperties DEF DeviceInv, Types
<1>7. /\ c \in TaskRecord /\ c.pc = "keep" /\ c.version = n /\ c.kind = r.kind /\ c.tab = r.tab
      /\ c.made = r.made /\ c.rotating = r.rotating /\ c.calm = r.calm
  BY <1>2, <1>4, <1>6 DEF TaskRecord, Stage
<1>8. Ready(c)
  BY <1>2, <1>6, <1>7 DEF Ready, Formed, Stage
<1>9. Asking(c)
  <2>1. FreshCall(c) /\ CalmCall(c)
    BY <1>2, <1>7 DEF Sound, Asking, FreshCall, CalmCall
  <2>2. ReadCall(c) /\ OpeningCall(c)
    BY <1>7 DEF ReadCall, OpeningCall, Look
  <2> QED
    BY <2>1, <2>2 DEF Asking
<1>w. /\ wrapping' = wrapping /\ tasks \in [Task -> TaskRecord] /\ Waits /\ \A u \in Task : Formed(tasks[u])
      /\ tasks[t].via = NoTask /\ Ask(t, c)
  BY <1>2, <1>5 DEF DeviceInv, Types, CallsInv
<1>10. Waits'
  BY <1>8, <1>w, AskStep
<1>11. PICK v \in Task : tasks' = [tasks EXCEPT ![t] = [c EXCEPT !.via = v, !.key = NoKey]]
  BY <1>8, <1>w, AskStep
<1>12. PICK x : x = [c EXCEPT !.via = v, !.key = NoKey]
  OBVIOUS
<1>13. Formed(x) /\ Sound(x) /\ x.kind = c.kind
  BY <1>8, <1>9, <1>12, AskFormed, AskSound
<1>14. /\ versions' \in Seq(Identity) /\ Len(versions') \in 1..Versions
       /\ \A w \in DOMAIN versions : w \in DOMAIN versions' /\ versions'[w] = versions[w]
  BY <1>2, <1>5, VersionAdded
<1>15. CallsInv'
  BY <1>5, <1>11, <1>12, <1>13, <1>14, VersionsCalls
<1>16. tasks' \in [Task -> TaskRecord] /\ LoadInv'
  <2>1. x \in TaskRecord /\ x.kind # "load"
    BY <1>2, <1>7, <1>13 DEF Formed
  <2> QED
    BY <1>11, <1>12, <2>1, LoadsStay DEF DeviceInv, Types, LoadsOnce
<1>17. Types'
  BY <1>5, <1>14, <1>16 DEF DeviceInv, Types
<1>18. TabInv' /\ IdentityOpens' /\ UploadInv'
  BY <1>5 DEF DeviceInv, TabInv, IdentityOpens, UploadInv, LastUpload
<1> QED
  BY <1>10, <1>15, <1>16, <1>17, <1>18 DEF DeviceInv

LEMMA LosePostStep ==
    ASSUME DeviceInv, NEW t \in Task, LosePost(t)
    PROVE  DeviceInv'
<1>1. PICK r : r = tasks[t]
  OBVIOUS
<1>2. /\ Formed(r) /\ r.pc = "post" /\ tasks[t].via = NoTask /\ r.id \in Identity
  BY <1>1, CallInv DEF LosePost, Is, Formed
<1>3. /\ tasks' = [tasks EXCEPT ![t] = Idle]
      /\ UNCHANGED <<stored, wrapping, session, tabs, clearing, cache, requests, public, uploads, calls,
                     missed, raced>>
  BY DEF LosePost, Done
<1>4. /\ versions' \in Seq(Identity) /\ Len(versions') \in 1..Versions
      /\ \A w \in DOMAIN versions : w \in DOMAIN versions' /\ versions'[w] = versions[w]
  <2>1. CASE UNCHANGED versions
    BY <2>1 DEF DeviceInv, Types
  <2>2. CASE Len(versions) < Versions /\ versions' = Append(versions, r.id)
    BY <1>2, <2>2, VersionAdded
  <2> QED
    BY <1>1, <2>1, <2>2 DEF LosePost
<1>5. CallsInv'
  BY <1>3, <1>4, NoCalls, IdleSound, VersionsCalls
<1>6. tasks' \in [Task -> TaskRecord] /\ LoadInv' /\ Waits'
  BY <1>2, <1>3, NoCalls, WaitsStay, LoadsStay DEF DeviceInv, Types, LoadsOnce, Formed
<1>7. Types'
  BY <1>3, <1>4, <1>6 DEF DeviceInv, Types
<1>8. TabInv' /\ IdentityOpens' /\ UploadInv'
  BY <1>3 DEF DeviceInv, TabInv, IdentityOpens, UploadInv, LastUpload
<1> QED
  BY <1>5, <1>6, <1>7, <1>8 DEF DeviceInv

\* The key that a chat key is kept under is the wrapping key, or nothing is calm.
LEMMA KeepStep ==
    ASSUME DeviceInv, NEW t \in Task, Keep(t)
    PROVE  DeviceInv'
<1>1. PICK r : r = tasks[t]
  OBVIOUS
<1>2. /\ Formed(r) /\ Sound(r) /\ r.pc = "keep" /\ r.via = NoTask /\ tasks[t].via = NoTask
      /\ r.tab \in Tab /\ r.version \in 1..Versions /\ r.key \in Key /\ r.kind # "load"
  BY <1>1, CallInv DEF Keep, Is, Formed, Stage
<1>3. PICK T, e : T = r.tab /\ e = [version |-> r.version, under |-> r.key]
  OBVIOUS
<1>4. /\ tasks' = [tasks EXCEPT ![t] = Idle]
      /\ cache' = [cache EXCEPT ![T] = {c \in cache[T] : c.version # r.version} \cup {e}]
      /\ UNCHANGED <<stored, wrapping, session, tabs, clearing, requests, public, versions, uploads, calls,
                     missed, raced>>
  BY <1>1, <1>2, <1>3 DEF Keep, Done, DeviceInv, Types
<1>5. T \in Tab /\ tabs[T] # "fresh"
  BY <1>2, <1>3, DeviceIsTyped DEF Sound, Asking, FreshCall
<1>6. /\ cache' \in [Tab -> SUBSET [version : 1..Versions, under : Key]]
      /\ \A U \in Tab : \A c \in cache'[U] : (U = T /\ c = e) \/ c \in cache[U]
      /\ \A U \in Tab : U # T => cache'[U] = cache[U]
  <2>1. e \in [version : 1..Versions, under : Key]
    BY <1>2, <1>3
  <2> QED
    BY <1>4, <2>1 DEF DeviceInv, Types
<1>7. tabs[T] = "in" /\ ~raced => e.under = wrapping.key
  BY <1>2, <1>3 DEF Sound, KeyedCall, Stage
<1>8. TabInv'
  BY <1>4, <1>5, <1>6, <1>7 DEF DeviceInv, TabInv
<1>9. CallsInv'
  BY <1>4, NoCalls, IdleSound, VersionsCalls
<1>10. tasks' \in [Task -> TaskRecord] /\ LoadInv' /\ Waits'
  BY <1>2, <1>4, NoCalls, WaitsStay, LoadsStay DEF DeviceInv, Types, LoadsOnce, Formed
<1>11. Types'
  BY <1>4, <1>6, <1>10 DEF DeviceInv, Types
<1>12. IdentityOpens' /\ UploadInv'
  BY <1>4 DEF DeviceInv, IdentityOpens, UploadInv, LastUpload
<1> QED
  BY <1>8, <1>9, <1>10, <1>11, <1>12 DEF DeviceInv

-----------------------------------------------------------------------------
(* The storage key.                                                        *)

\* x is the call r, but for the storage key that it waits for or has.
Alike(r, x) ==
    /\ x.kind = r.kind /\ x.pc = r.pc /\ x.tab = r.tab /\ x.raw = r.raw /\ x.id = r.id
    /\ x.version = r.version /\ x.got = r.got /\ x.calm = r.calm /\ x.rotating = r.rotating

\* The calls that wait for o have got the key k, the others are as they were.
Given(o, k) ==
    \A u \in Task :
        \/ tasks[u].via # o /\ tasks'[u] = tasks[u]
        \/ /\ tasks[u].via = o /\ Alike(tasks[u], tasks'[u])
           /\ tasks'[u].via = NoTask /\ tasks'[u].made = NoKey /\ tasks'[u].key = k

LEMMA GivenCalls ==
    ASSUME DeviceInv, NEW o \in Task, NEW k \in Key, Give(o, k)
    PROVE  Given(o, k) /\ tasks' \in [Task -> TaskRecord] /\ \A u \in Task : Formed(tasks'[u])
<1>1. ASSUME NEW u \in Task
      PROVE  /\ Formed(tasks'[u])
             /\ \/ tasks[u].via # o /\ tasks'[u] = tasks[u]
                \/ /\ tasks[u].via = o /\ Alike(tasks[u], tasks'[u])
                   /\ tasks'[u].via = NoTask /\ tasks'[u].made = NoKey /\ tasks'[u].key = k
  <2>1. PICK r : r = tasks[u]
    OBVIOUS
  <2>2. Formed(r) /\ r \in TaskRecord
    BY <2>1, CallInv DEF Formed
  <2>3. CASE r.via # o
    BY <2>1, <2>2, <2>3 DEF Give
  <2>4. CASE r.via = o
    <3>1. PICK x : x = [r EXCEPT !.via = NoTask, !.key = k, !.made = NoKey]
      OBVIOUS
    <3>2. tasks'[u] = x
      BY <2>1, <2>4, <3>1 DEF Give
    <3>3. x \in TaskRecord
      BY <2>2, <3>1 DEF TaskRecord
    <3>4. Alike(r, x) /\ x.via = NoTask /\ x.made = NoKey /\ x.key = k
      BY <2>2, <3>1 DEF TaskRecord, Alike
    <3>5. r.pc \in Stage
      BY <2>2, <2>4, DeviceIsTyped DEF Formed
    <3>6. Formed(x)
      BY <2>2, <3>3, <3>4, <3>5 DEF Formed, Alike, Stage, Look
    <3> QED
      BY <2>1, <2>4, <3>2, <3>4, <3>6
  <2> QED
    BY <2>3, <2>4
<1>2. tasks' = [u \in Task |-> tasks'[u]]
  BY DEF Give
<1> QED
  BY <1>1, <1>2 DEF Given, Formed

\* A call that has got the wrapping key, or has been left alone, is as sound as it was.
LEMMA AlikeSound ==
    ASSUME UNCHANGED <<stored, session, tabs, clearing, requests, versions>>, raced => raced',
           NEW r, Sound(r), NEW x, Alike(r, x),
           ~raced' => wrapping'.key = wrapping.key \/ (r.pc \in {"peek", "open"} /\ r.calm => r.kind = "load"),
           KeyedCall(x)'
    PROVE  Sound(x)'
<1>1. FreshCall(x)' /\ CalmCall(x)' /\ AnsweredCall(x)'
  BY DEF Sound, Asking, Alike, FreshCall, CalmCall, AnsweredCall
<1>2. ReadCall(x)'
  BY DEF Sound, Asking, Alike, ReadCall
<1>3. OpeningCall(x)'
  BY DEF Sound, Asking, Alike, OpeningCall
<1> QED
  BY <1>1, <1>2, <1>3 DEF Sound, Asking

\* Until tabs have overwritten each other's keys, the wrapping key that a call has got
\* is the first one, or nothing is encrypted under one.
LEMMA GiveStep ==
    ASSUME DeviceInv, UNCHANGED missed, UNCHANGED storageUnchanged,
           NEW o \in Task, tasks[o].via = o, NEW k \in Key, Give(o, k),
           wrapping' \in [key : Key \cup {NoKey}, by : Tab \cup {NoTab}], wrapping'.key = k,
           raced' \in BOOLEAN, raced => raced',
           ~raced' => wrapping' = wrapping \/ wrapping.key = NoKey,
           \A p \in Task : p # o /\ tasks[p].via = p /\ tasks[p].made # NoKey => wrapping'.by # tasks[p].tab
    PROVE  DeviceInv'
<1>1. UNCHANGED <<stored, session, tabs, clearing, cache, requests, public, versions, uploads, calls, missed>>
  BY DEF storageUnchanged
<1>2. Given(o, k) /\ tasks' \in [Task -> TaskRecord] /\ \A u \in Task : Formed(tasks'[u])
  BY GivenCalls
<1>3. ASSUME wrapping.key = NoKey, ~raced'
      PROVE  stored = Nothing /\ \A T \in Tab : tabs[T] # "in"
  <2>1. stored = Nothing
    BY <1>3 DEF DeviceInv, IdentityOpens, Types, Key, NoKey
  <2> QED
    BY <2>1 DEF DeviceInv, TabInv
<1>4. ASSUME NEW u \in Task PROVE Sound(tasks[u])'
  <2>1. PICK r, x : r = tasks[u] /\ x = tasks'[u]
    OBVIOUS
  <2>2. Formed(r) /\ Sound(r) /\ Alike(r, x)
    BY <1>2, <2>1, CallInv DEF Given, Alike
  <2>3. ~raced' => wrapping'.key = wrapping.key \/ (r.pc \in {"peek", "open"} /\ r.calm => r.kind = "load")
    <3> SUFFICES ASSUME ~raced', wrapping.key = NoKey, r.pc \in {"peek", "open"}, r.calm, r.kind # "load"
                 PROVE  FALSE
      OBVIOUS
    <3>1. tabs[r.tab] = "in" /\ r.tab \in Tab
      BY <2>2 DEF Sound, Asking, CalmCall, Formed
    <3> QED
      BY <1>3, <3>1
  <2>4. KeyedCall(x)'
    <3> SUFFICES ASSUME ~raced', x.pc \in Stage, x.via = NoTask, x.pc = "seal" \/ tabs[x.tab] = "in",
                        x.key # wrapping'.key
                 PROVE  FALSE
      BY <1>1 DEF KeyedCall
    <3>1. r = x /\ x.key \in Key /\ x.tab \in Tab
      BY <1>2, <2>1, <2>2, DeviceIsTyped DEF Given, Formed, Stage
    <3>2. x.key = wrapping.key
      BY <1>1, <2>2, <3>1 DEF Sound, KeyedCall
    <3> QED
      BY <3>1, <3>2 DEF Key, NoKey
  <2>5. Sound(x)'
    BY <1>1, <2>2, <2>3, <2>4, AlikeSound
  <2> QED
    BY <2>1, <2>5 DEF Sound, Asking, FreshCall, CalmCall, ReadCall, OpeningCall, AnsweredCall, KeyedCall
<1>5. CallsInv'
  BY <1>2, <1>4 DEF CallsInv, Formed
<1>6. Waits'
  <2>1. ASSUME NEW u \in Task, tasks'[u].via # NoTask
        PROVE  tasks'[tasks'[u].via].via = tasks'[u].via /\ tasks'[tasks'[u].via].tab = tasks'[u].tab
    <3>1. PICK p : p = tasks[u].via
      OBVIOUS
    <3>2. tasks'[u] = tasks[u] /\ p # o /\ p \in Task /\ p # NoTask
      BY <1>2, <2>1, <3>1 DEF Given, DeviceInv, Types, TaskRecord
    <3>3. tasks[p].via = p /\ tasks[p].tab = tasks[u].tab
      BY <3>1, <3>2 DEF DeviceInv, Waits
    <3>4. tasks'[p] = tasks[p]
      BY <1>2, <3>2, <3>3 DEF Given
    <3> QED
      BY <3>1, <3>2, <3>3, <3>4
  <2>2. \A p \in Task : tasks'[p].via = p => p # o /\ tasks'[p] = tasks[p]
    BY <1>2, DeviceIsTyped DEF Given
  <2> QED
    BY <2>1, <2>2 DEF DeviceInv, Waits
<1>7. LoadInv'
  BY <1>2 DEF DeviceInv, LoadInv, Given, Alike
<1>8. Types'
  BY <1>1, <1>2 DEF DeviceInv, Types
<1>9. TabInv'
  BY <1>1, <1>3 DEF DeviceInv, TabInv
<1>10. IdentityOpens' /\ UploadInv'
  BY <1>1, <1>3 DEF DeviceInv, IdentityOpens, UploadInv, LastUpload
<1> QED
  BY <1>5, <1>6, <1>7, <1>8, <1>9, <1>10 DEF DeviceInv

LEMMA FindKeyStep ==
    ASSUME DeviceInv, NEW o \in Task, FindKey(o)
    PROVE  DeviceInv'
<1>1. PICK k : k = wrapping.key
  OBVIOUS
<1>2. k \in Key /\ wrapping'.key = k /\ Give(o, k) /\ tasks[o].via = o
  BY <1>1 DEF DeviceInv, Types, FindKey
<1>3. /\ UNCHANGED missed /\ UNCHANGED storageUnchanged /\ wrapping' = wrapping
      /\ wrapping' \in [key : Key \cup {NoKey}, by : Tab \cup {NoTab}]
      /\ raced' \in BOOLEAN /\ (raced => raced') /\ (~raced' => wrapping' = wrapping \/ wrapping.key = NoKey)
  BY DEF FindKey, DeviceInv, Types
<1>4. \A p \in Task : p # o /\ tasks[p].via = p /\ tasks[p].made # NoKey => wrapping'.by # tasks[p].tab
  BY DEF DeviceInv, Waits, FindKey
<1> QED
  BY <1>2, <1>3, <1>4, GiveStep

LEMMA PutKeyStep ==
    ASSUME DeviceInv, NEW o \in Task, PutKey(o)
    PROVE  DeviceInv'
<1>1. PICK r : r = tasks[o]
  OBVIOUS
<1>2. r.made \in Key /\ r.tab \in Tab /\ r.via = o
  BY <1>1, CallInv, DeviceIsTyped DEF PutKey, Formed, TaskRecord, Stage
<1>3. wrapping' = [key |-> r.made, by |-> r.tab] /\ raced' = (raced \/ (wrapping.key # NoKey /\ wrapping.by # r.tab))
  BY <1>1 DEF PutKey
<1>4. wrapping.key = NoKey \/ wrapping.by # r.tab
  BY <1>1 DEF PutKey, DeviceInv, Waits
<1>5. \A p \in Task : p # o /\ tasks[p].via = p /\ tasks[p].made # NoKey => r.tab # tasks[p].tab
  BY <1>1, <1>2 DEF DeviceInv, Waits
<1>6. PICK k : k = r.made
  OBVIOUS
<1>7. k \in Key /\ wrapping'.key = k /\ Give(o, k) /\ tasks[o].via = o
  BY <1>1, <1>2, <1>3, <1>6 DEF PutKey
<1>8. /\ UNCHANGED missed /\ UNCHANGED storageUnchanged
      /\ wrapping' \in [key : Key \cup {NoKey}, by : Tab \cup {NoTab}]
  BY <1>2, <1>3 DEF PutKey
<1>9. raced' \in BOOLEAN /\ (raced => raced') /\ (~raced' => wrapping.key = NoKey)
  BY <1>3, <1>4 DEF DeviceInv, Types
<1>10. \A p \in Task : p # o /\ tasks[p].via = p /\ tasks[p].made # NoKey => wrapping'.by # tasks[p].tab
  BY <1>3, <1>5
<1> QED
  BY <1>7, <1>8, <1>9, <1>10, GiveStep

LEMMA MakeKeyStep ==
    ASSUME DeviceInv, NEW o \in Task, MakeKey(o)
    PROVE  DeviceInv'
<1>1. PICK k \in Key : tasks' = [tasks EXCEPT ![o].made = k]
  BY DEF MakeKey, NewKey, NewOf
<1>2. /\ tasks[o].via = o /\ wrapping.key = NoKey
      /\ UNCHANGED <<stored, wrapping, session, tabs, clearing, cache, requests, public, versions, uploads,
                     calls, missed, raced>>
  BY DEF MakeKey, storageUnchanged
<1>3. PICK r : r = tasks[o]
  OBVIOUS
<1>4. Formed(r) /\ Sound(r) /\ r \in TaskRecord
  BY <1>3, CallInv DEF Formed
<1>5. PICK x : x = [r EXCEPT !.made = k]
  OBVIOUS
<1>6. tasks' = [tasks EXCEPT ![o] = x]
  BY <1>1, <1>3, <1>5
<1>7. x \in TaskRecord
  BY <1>4, <1>5 DEF TaskRecord
<1>8. Alike(r, x) /\ x.via = r.via /\ x.key = r.key /\ x.made = k
  BY <1>4, <1>5 DEF TaskRecord, Alike
<1>9. Formed(x)
  BY <1>2, <1>3, <1>4, <1>7, <1>8, DeviceIsTyped DEF Formed, Alike
<1>10. Sound(x)
  <2>1. FreshCall(x) /\ CalmCall(x) /\ ReadCall(x) /\ OpeningCall(x) /\ AnsweredCall(x)
    BY <1>4, <1>8
    DEF Alike, Sound, Asking, FreshCall, CalmCall, ReadCall, OpeningCall, AnsweredCall
  <2>2. KeyedCall(x)
    BY <1>4, <1>8 DEF Alike, Sound, KeyedCall
  <2> QED
    BY <2>1, <2>2 DEF Sound, Asking
<1>11. \A u \in Task : /\ tasks'[u].via = tasks[u].via /\ tasks'[u].tab = tasks[u].tab
                       /\ u # o => tasks'[u] = tasks[u]
  BY <1>3, <1>6, <1>8 DEF Alike, DeviceInv, Types
<1>12. Waits'
  <2>1. ASSUME NEW u \in Task, tasks'[u].via # NoTask
        PROVE  tasks'[tasks'[u].via].via = tasks'[u].via /\ tasks'[tasks'[u].via].tab = tasks'[u].tab
    BY <1>11, <2>1 DEF DeviceInv, Types, TaskRecord, Waits
  <2>2. ASSUME NEW p \in Task, NEW q \in Task, tasks'[p].via = p, tasks'[q].via = q, tasks'[p].tab = tasks'[q].tab
        PROVE  p = q
    BY <1>11, <2>2 DEF DeviceInv, Waits
  <2>3. \A p \in Task : wrapping'.key = NoKey
    BY <1>2
  <2> QED
    BY <2>1, <2>2, <2>3 DEF Waits
<1>13. LoadsOnce(o, x)
  BY <1>3, <1>8 DEF LoadsOnce, Alike, DeviceInv, LoadInv
<1> QED
  BY <1>2, <1>6, <1>9, <1>10, <1>12, <1>13, OneCallStep DEF sharedVars, DeviceInv, Types

-----------------------------------------------------------------------------
(* The network and the server.                                             *)

\* The calls wait for the storage key as they did.
LEMMA WaitsKept ==
    ASSUME DeviceInv, wrapping' = wrapping,
           \A u \in Task : /\ tasks'[u].via = tasks[u].via /\ tasks'[u].tab = tasks[u].tab
                           /\ tasks'[u].made = tasks[u].made /\ tasks'[u].kind = tasks[u].kind
    PROVE  Waits' /\ LoadInv'
<1>1. ASSUME NEW u \in Task, tasks'[u].via # NoTask
      PROVE  tasks'[tasks'[u].via].via = tasks'[u].via /\ tasks'[tasks'[u].via].tab = tasks'[u].tab
  BY <1>1 DEF DeviceInv, Types, TaskRecord, Waits
<1>2. Waits'
  BY <1>1 DEF DeviceInv, Waits
<1>3. LoadInv'
  BY DEF DeviceInv, LoadInv
<1> QED
  BY <1>2, <1>3

\* Some calls are gone, and nothing that is left waits for one of them.
LEMMA WaitsDropped ==
    ASSUME DeviceInv, UNCHANGED wrapping,
           \A u \in Task : tasks'[u] = tasks[u] \/ tasks'[u] = Idle,
           \A u \in Task, o \in Task : tasks[u].via = o /\ tasks'[u] = tasks[u] => tasks'[o] = tasks[o]
    PROVE  Waits' /\ LoadInv'
<1>1. ASSUME NEW u \in Task, tasks'[u].via # NoTask
      PROVE  tasks'[tasks'[u].via].via = tasks'[u].via /\ tasks'[tasks'[u].via].tab = tasks'[u].tab
  <2>1. PICK o : o = tasks[u].via
    OBVIOUS
  <2>2. tasks'[u] = tasks[u] /\ o \in Task /\ o # NoTask
    BY <1>1, <2>1, NoCalls DEF DeviceInv, Types, TaskRecord
  <2>3. tasks'[o] = tasks[o] /\ tasks[o].via = o /\ tasks[o].tab = tasks[u].tab
    BY <2>1, <2>2 DEF DeviceInv, Waits
  <2> QED
    BY <2>1, <2>2, <2>3
<1>2. \A o \in Task : tasks'[o].via = o => tasks'[o] = tasks[o]
  BY NoCalls, DeviceIsTyped
<1>3. Waits'
  BY <1>1, <1>2 DEF DeviceInv, Waits
<1>4. LoadInv'
  BY NoCalls DEF DeviceInv, LoadInv
<1> QED
  BY <1>3, <1>4

LEMMA AnswerStep ==
    ASSUME DeviceInv, NEW T \in Tab, NEW l \in Look, Answer(T, l)
    PROVE  DeviceInv'
<1>1. PICK n \in requests[T][l]..Len(versions) :
        tasks' = [t \in Task |-> IF tasks[t].tab = T /\ tasks[t].pc = l
                                 THEN [tasks[t] EXCEPT !.got = IF @ = 0 THEN n ELSE @] ELSE tasks[t]]
  BY DEF Answer
<1>2. /\ requests[T][l] # 0 /\ requests' = [requests EXCEPT ![T] = [requests[T] EXCEPT ![l] = 0]]
      /\ UNCHANGED <<stored, wrapping, session, tabs, clearing, cache, public, versions, uploads, calls,
                     missed, raced>>
  BY DEF Answer, DeviceInv, Types
<1>3. /\ requests[T] \in [Look -> 0..Versions] /\ Len(versions) \in 1..Versions /\ Versions \in Nat
      /\ requests[T][l] \in 0..Versions /\ 0 \in 0..Versions
  BY DeviceIsTyped DEF DeviceInv, Types
<1>4. n \in 1..Versions /\ n >= requests[T][l]
  BY <1>2, <1>3
<1>5. /\ requests' \in [Tab -> [Look -> 0..Versions]]
      /\ \A U \in Tab, k \in Look : ~(U = T /\ k = l) => requests'[U][k] = requests[U][k]
  <2>1. [requests[T] EXCEPT ![l] = 0] \in [Look -> 0..Versions]
    BY <1>3
  <2> QED
    BY <1>2, <2>1 DEF DeviceInv, Types
<1>6. ASSUME NEW u \in Task
      PROVE  /\ Formed(tasks'[u])
             /\ tasks'[u].via = tasks[u].via /\ tasks'[u].tab = tasks[u].tab
             /\ tasks'[u].made = tasks[u].made /\ tasks'[u].kind = tasks[u].kind
             /\ \E x : x = tasks'[u] /\ Sound(x)'
  <2>1. PICK r, x : r = tasks[u] /\ x = tasks'[u]
    OBVIOUS
  <2>2. Formed(r) /\ Sound(r) /\ r \in TaskRecord
    BY <2>1, CallInv DEF Formed
  <2>3. CASE ~(r.tab = T /\ r.pc = l)
    <3>1. x = r
      BY <1>1, <2>1, <2>3
    <3>2. r.pc \in Look => r.tab \in Tab /\ requests'[r.tab][r.pc] = requests[r.tab][r.pc]
      BY <1>5, <2>2, <2>3 DEF Formed, Look
    <3>3. FreshCall(r)' /\ CalmCall(r)' /\ OpeningCall(r)' /\ KeyedCall(r)'
      BY <1>2, <2>2 DEF Sound, Asking, FreshCall, CalmCall, OpeningCall, KeyedCall
    <3>4. AnsweredCall(r)' /\ ReadCall(r)'
      BY <1>2, <2>2, <3>2 DEF Sound, Asking, AnsweredCall, ReadCall, Look
    <3> QED
      BY <2>1, <2>2, <3>1, <3>3, <3>4 DEF Sound, Asking
  <2>4. CASE r.tab = T /\ r.pc = l
    <3>1. PICK g : g = IF r.got = 0 THEN n ELSE r.got
      OBVIOUS
    <3>2. x = [r EXCEPT !.got = g]
      BY <1>1, <2>1, <2>4, <3>1
    <3>3. g \in 0..Versions /\ g # 0
      BY <1>3, <1>4, <2>2, <3>1 DEF TaskRecord
    <3>4. x \in TaskRecord
      BY <2>2, <3>2, <3>3 DEF TaskRecord
    <3>5. /\ x.kind = r.kind /\ x.pc = r.pc /\ x.tab = r.tab /\ x.via = r.via /\ x.made = r.made
          /\ x.key = r.key /\ x.raw = r.raw /\ x.id = r.id /\ x.version = r.version /\ x.got = g
          /\ x.rotating = r.rotating /\ x.calm = r.calm
      BY <2>2, <3>2 DEF TaskRecord
    <3>6. Formed(x)
      BY <2>2, <3>4, <3>5 DEF Formed
    <3>7. FreshCall(x)' /\ CalmCall(x)' /\ OpeningCall(x)' /\ KeyedCall(x)'
      BY <1>2, <2>2, <3>5 DEF Sound, Asking, FreshCall, CalmCall, OpeningCall, KeyedCall
    <3>8. AnsweredCall(x)'
      BY <3>3, <3>5 DEF AnsweredCall
    <3>9. ReadCall(x)'
      <4> SUFFICES ASSUME x.calm, x.kind = "read"
                   PROVE  /\ x.version \in DOMAIN versions /\ versions[x.version] = x.id
                          /\ x.pc = "again" => x.version <= g
        BY <1>2, <2>4, <3>3, <3>5 DEF ReadCall, Look
      <4>1. /\ x.version \in DOMAIN versions /\ versions[x.version] = x.id
            /\ x.pc = "again" => x.version <= IF r.got = 0 THEN requests[T]["again"] ELSE r.got
        BY <2>2, <2>4, <3>5 DEF Sound, Asking, ReadCall, Look
      <4>2. x.version \in Nat
        BY <3>4 DEF TaskRecord
      <4> QED
        BY <1>3, <1>4, <2>4, <3>1, <3>5, <4>1, <4>2
    <3> QED
      BY <2>1, <3>5, <3>6, <3>7, <3>8, <3>9 DEF Sound, Asking
  <2> QED
    BY <2>3, <2>4
<1>7. CallsInv'
  BY <1>6, CallsNext
<1>8. tasks' \in [Task -> TaskRecord]
  <2>1. tasks' = [u \in Task |-> tasks'[u]]
    BY <1>1
  <2> QED
    BY <1>6, <2>1 DEF Formed
<1>9. Waits' /\ LoadInv'
  BY <1>2, <1>6, WaitsKept
<1>10. Types'
  BY <1>2, <1>5, <1>8 DEF DeviceInv, Types
<1>11. TabInv' /\ IdentityOpens' /\ UploadInv'
  BY <1>2 DEF DeviceInv, TabInv, IdentityOpens, UploadInv, LastUpload
<1> QED
  BY <1>7, <1>9, <1>10, <1>11 DEF DeviceInv

LEMMA LoseRequestStep ==
    ASSUME DeviceInv, NEW T \in Tab, NEW l \in Look, LoseRequest(T, l)
    PROVE  DeviceInv'
<1>1. /\ tasks' = [t \in Task |-> IF tasks[t].tab = T /\ tasks[t].pc = l /\ tasks[t].got = 0 THEN Idle
                                  ELSE tasks[t]]
      /\ requests' = [requests EXCEPT ![T] = [requests[T] EXCEPT ![l] = 0]]
      /\ UNCHANGED <<stored, wrapping, session, tabs, clearing, cache, public, versions, uploads, calls,
                     missed, raced>>
  BY DEF LoseRequest, DeviceInv, Types
<1>2. /\ requests' \in [Tab -> [Look -> 0..Versions]]
      /\ \A U \in Tab, k \in Look : ~(U = T /\ k = l) => requests'[U][k] = requests[U][k]
  <2>1. [requests[T] EXCEPT ![l] = 0] \in [Look -> 0..Versions]
    BY DeviceIsTyped DEF DeviceInv, Types
  <2> QED
    BY <1>1, <2>1 DEF DeviceInv, Types
<1>3. ASSUME NEW u \in Task
      PROVE  /\ Formed(tasks'[u]) /\ (tasks'[u] = tasks[u] \/ tasks'[u] = Idle)
             /\ tasks[u].via # NoTask => tasks'[u] = tasks[u]
             /\ \E x : x = tasks'[u] /\ Sound(x)'
  <2>1. PICK r, x : r = tasks[u] /\ x = tasks'[u]
    OBVIOUS
  <2>2. Formed(r) /\ Sound(r) /\ r \in TaskRecord
    BY <2>1, CallInv DEF Formed
  <2>3. CASE ~(r.tab = T /\ r.pc = l /\ r.got = 0)
    <3>1. x = r
      BY <1>1, <2>1, <2>3
    <3>2. r.pc \in Look /\ r.got = 0 => r.tab \in Tab /\ requests'[r.tab][r.pc] = requests[r.tab][r.pc]
      BY <1>2, <2>2, <2>3 DEF Formed, Look
    <3>3. FreshCall(r)' /\ CalmCall(r)' /\ OpeningCall(r)' /\ KeyedCall(r)'
      BY <1>1, <2>2 DEF Sound, Asking, FreshCall, CalmCall, OpeningCall, KeyedCall
    <3>4. AnsweredCall(r)' /\ ReadCall(r)'
      BY <1>1, <2>2, <3>2 DEF Sound, Asking, AnsweredCall, ReadCall, Look
    <3> QED
      BY <2>1, <2>2, <3>1, <3>3, <3>4 DEF Sound, Asking
  <2>4. CASE r.tab = T /\ r.pc = l /\ r.got = 0
    <3>1. x = Idle /\ Formed(x)
      BY <1>1, <2>1, <2>4, NoCalls
    <3>2. Sound(x)'
      BY <3>1, NoCalls, EndedSound
    <3>3. r.via = NoTask
      BY <2>2, <2>4 DEF Formed, Look, Stage
    <3> QED
      BY <2>1, <3>1, <3>2, <3>3
  <2> QED
    BY <2>3, <2>4
<1>4. CallsInv'
  BY <1>3, CallsNext
<1>5. tasks' \in [Task -> TaskRecord]
  <2>1. tasks' = [u \in Task |-> tasks'[u]]
    BY <1>1
  <2> QED
    BY <1>3, <2>1 DEF Formed
<1>6. Waits' /\ LoadInv'
  <2>1. \A u \in Task, o \in Task : tasks[u].via = o /\ tasks'[u] = tasks[u] => tasks'[o] = tasks[o]
    BY <1>3, DeviceIsTyped DEF DeviceInv, Waits
  <2> QED
    BY <1>1, <1>3, <2>1, WaitsDropped
<1>7. Types'
  BY <1>1, <1>2, <1>5 DEF DeviceInv, Types
<1>8. TabInv' /\ IdentityOpens' /\ UploadInv'
  BY <1>1 DEF DeviceInv, TabInv, IdentityOpens, UploadInv, LastUpload
<1> QED
  BY <1>4, <1>6, <1>7, <1>8 DEF DeviceInv

\* The upload that is the last one stays so, unless it arrives or is lost.
LEMMA WithoutUploadTyped ==
    ASSUME DeviceInv, NEW i \in DOMAIN uploads
    PROVE  /\ WithoutUpload(i) \in Seq(Identity) /\ Len(WithoutUpload(i)) = Len(uploads) - 1
           /\ i = 1 /\ Len(uploads) > 1 => WithoutUpload(i)[Len(uploads) - 1] = uploads[Len(uploads)]
           /\ uploads[i] \in Identity
<1> DEFINE n == Len(uploads)
<1>1. uploads \in Seq(Identity) /\ n \in Nat /\ DOMAIN uploads = 1..n /\ i \in 1..n
  BY LenProperties DEF DeviceInv, Types
<1>2. \A j \in 1..n : uploads[j] \in Identity
  BY <1>1, ElementOfSeq
<1>3. /\ SubSeq(uploads, 1, i - 1) \in Seq(Identity) /\ Len(SubSeq(uploads, 1, i - 1)) = i - 1
  BY <1>1, <1>2, SubSeqProperties
<1>4. /\ SubSeq(uploads, i + 1, n) \in Seq(Identity) /\ Len(SubSeq(uploads, i + 1, n)) = n - i
      /\ i < n => SubSeq(uploads, i + 1, n)[n - i] = uploads[n]
  <2>0. PICK m, k : m = i + 1 /\ k = n
    OBVIOUS
  <2>1. m \in Int /\ k \in Int /\ \A j \in m..k : uploads[j] \in Identity
    BY <1>1, <1>2, <2>0
  <2>2. /\ SubSeq(uploads, m, k) \in Seq(Identity)
        /\ Len(SubSeq(uploads, m, k)) = IF m <= k THEN k - m + 1 ELSE 0
        /\ \A j \in 1..(k - m + 1) : SubSeq(uploads, m, k)[j] = uploads[m + j - 1]
    <3> HIDE DEF n
    <3> QED
      BY <2>1, SubSeqProperties
  <2>3. i < n => k - m + 1 \in 1..(k - m + 1) /\ k - m + 1 = n - i /\ m + (k - m + 1) - 1 = n
    BY <1>1, <2>0
  <2>4. i < n => SubSeq(uploads, m, k)[n - i] = uploads[n]
    BY <2>2, <2>3
  <2>5. Len(SubSeq(uploads, m, k)) = n - i
    BY <1>1, <2>0, <2>2
  <2> QED
    BY <2>0, <2>2, <2>4, <2>5
<1>5. PICK a, b : a = SubSeq(uploads, 1, i - 1) /\ b = SubSeq(uploads, i + 1, n)
  OBVIOUS
<1>6. a \in Seq(Identity) /\ b \in Seq(Identity) /\ Len(a) = i - 1 /\ Len(b) = n - i
  BY <1>3, <1>4, <1>5
<1>7. a \o b \in Seq(Identity) /\ Len(a \o b) = Len(a) + Len(b)
  BY <1>6, ConcatProperties
<1>8. Len(a \o b) = n - 1
  BY <1>1, <1>6, <1>7
<1>9. ASSUME i = 1, n > 1 PROVE (a \o b)[n - 1] = uploads[n]
  <2>1. n - 1 \in 1..(Len(a) + Len(b)) /\ Len(a) = 0 /\ (n - 1) - Len(a) = n - i /\ i < n
    BY <1>1, <1>6, <1>9
  <2>2. \A j \in 1..(Len(a) + Len(b)) : (a \o b)[j] = IF j <= Len(a) THEN a[j] ELSE b[j - Len(a)]
    BY <1>6, ConcatProperties, Zenon
  <2>3. ~(n - 1 <= Len(a))
    BY <1>1, <1>9, <2>1
  <2>4. (a \o b)[n - 1] = b[(n - 1) - Len(a)]
    BY <2>1, <2>2, <2>3, Zenon
  <2> QED
    BY <1>4, <1>5, <2>1, <2>4
<1>10. WithoutUpload(i) = a \o b
  BY <1>5 DEF WithoutUpload
<1> HIDE DEF n
<1> QED
  BY <1>1, <1>2, <1>7, <1>8, <1>9, <1>10 DEF n

\* What the server has, or what is on its way to it, is no part of the rest.
LEMMA ServerStep ==
    ASSUME DeviceInv, UNCHANGED <<stored, wrapping, session, tabs, clearing, cache, requests, tasks, calls, raced>>,
           public' \in Identity, missed' \in BOOLEAN,
           versions' \in Seq(Identity), Len(versions') \in 1..Versions,
           \A v \in DOMAIN versions : v \in DOMAIN versions' /\ versions'[v] = versions[v],
           uploads' \in Seq(Identity), Len(uploads') <= Uploads,
           ~missed' => ~missed /\ LastUpload' = LastUpload
    PROVE  DeviceInv'
<1>1. CallsInv'
  <2>1. ASSUME NEW u \in Task PROVE Formed(tasks'[u]) /\ \E r : r = tasks'[u] /\ Sound(r)'
    BY CallInv, VersionsSound
  <2> QED
    BY <2>1, CallsNext
<1>2. Types'
  BY DEF DeviceInv, Types
<1>3. Waits' /\ LoadInv'
  BY WaitsKept
<1>4. TabInv' /\ IdentityOpens' /\ UploadInv'
  BY DEF DeviceInv, TabInv, IdentityOpens, UploadInv
<1> QED
  BY <1>1, <1>2, <1>3, <1>4 DEF DeviceInv

LEMMA ArriveUploadStep ==
    ASSUME DeviceInv, NEW i \in DOMAIN uploads, ArriveUpload(i)
    PROVE  DeviceInv'
<1>1. /\ public' = uploads[i] /\ uploads' = WithoutUpload(i) /\ missed' = (missed \/ i > 1)
      /\ UNCHANGED <<stored, wrapping, session, tabs, clearing, cache, requests, tasks, versions, calls, raced>>
  BY DEF ArriveUpload
<1>2. Len(uploads) \in Nat /\ i \in 1..Len(uploads) /\ Len(uploads) <= Uploads /\ Uploads \in Nat
  BY DeviceIsTyped, LenProperties DEF DeviceInv, Types
<1>3. uploads' \in Seq(Identity) /\ Len(uploads') = Len(uploads) - 1 /\ public' \in Identity
  BY <1>1, WithoutUploadTyped
<1>4. Len(uploads') <= Uploads
  BY <1>2, <1>3
<1>5. ASSUME ~missed' PROVE ~missed /\ LastUpload' = LastUpload
  <2>0. ~missed /\ ~(i > 1)
    BY <1>1, <1>5, Zenon
  <2>1. ~missed /\ i = 1
    BY <1>2, <2>0
  <2>2. uploads # <<>>
    BY <1>2, EmptySeq
  <2>3. CASE Len(uploads) = 1
    <3>1. uploads' = <<>>
      BY <1>3, <2>3, EmptySeq
    <3> QED
      BY <1>1, <2>1, <2>2, <2>3, <3>1 DEF LastUpload
  <2>4. CASE Len(uploads) > 1
    <3>1. uploads' # <<>>
      BY <1>2, <1>3, <2>4, EmptySeq
    <3>2. uploads'[Len(uploads')] = uploads[Len(uploads)]
      BY <1>1, <1>3, <2>1, <2>4, WithoutUploadTyped
    <3> QED
      BY <2>1, <2>2, <3>1, <3>2 DEF LastUpload
  <2>5. Len(uploads) = 1 \/ Len(uploads) > 1
    BY <1>2
  <2> QED
    BY <2>3, <2>4, <2>5, Zenon
<1> QED
  BY <1>1, <1>3, <1>4, <1>5, ServerStep DEF DeviceInv, Types

LEMMA LoseUploadStep ==
    ASSUME DeviceInv, NEW i \in DOMAIN uploads, LoseUpload(i)
    PROVE  DeviceInv'
<1>1. /\ uploads' = WithoutUpload(i) /\ missed'
      /\ UNCHANGED <<stored, wrapping, session, tabs, clearing, cache, requests, tasks, public, versions,
                     calls, raced>>
  BY DEF LoseUpload
<1>2. Len(uploads) \in Nat /\ Len(uploads) <= Uploads /\ Uploads \in Nat
  BY DeviceIsTyped, LenProperties DEF DeviceInv, Types
<1>3. uploads' \in Seq(Identity) /\ Len(uploads') = Len(uploads) - 1
  BY <1>1, WithoutUploadTyped
<1>4. Len(uploads') <= Uploads /\ missed' \in BOOLEAN
  BY <1>2, <1>3 DEF LoseUpload
<1> QED
  BY <1>1, <1>3, <1>4, ServerStep DEF DeviceInv, Types

LEMMA PeerAddStep ==
    ASSUME DeviceInv, PeerAdd
    PROVE  DeviceInv'
<1>1. public \in Identity /\ Len(versions) < Versions /\ versions' = Append(versions, public)
  BY DEF PeerAdd, DeviceInv, Types
<1>2. /\ versions' \in Seq(Identity) /\ Len(versions') \in 1..Versions
      /\ \A v \in DOMAIN versions : v \in DOMAIN versions' /\ versions'[v] = versions[v]
  BY <1>1, VersionAdded
<1>3. LastUpload' = LastUpload
  BY DEF PeerAdd, LastUpload
<1> QED
  BY <1>2, <1>3, ServerStep DEF PeerAdd, DeviceInv, Types

-----------------------------------------------------------------------------
(* Sign-out, and tabs that go away.                                        *)

LEMMA SignOutStep ==
    ASSUME DeviceInv, NEW T \in Tab, SignOut(T)
    PROVE  DeviceInv'
<1>1. /\ stored' = Nothing /\ session' = FALSE /\ clearing' = clearing \cup {T}
      /\ tabs' = [U \in Tab |-> IF U = T THEN "out" ELSE IF tabs[U] = "in" THEN "behind" ELSE tabs[U]]
      /\ tasks' = [t \in Task |-> [tasks[t] EXCEPT !.calm = @ /\ tasks[t].pc = "failed"]]
      /\ UNCHANGED <<wrapping, cache, requests, public, versions, uploads, calls, missed, raced>>
  BY DEF SignOut
<1>2. /\ tabs' \in [Tab -> {"fresh", "in", "behind", "out"}]
      /\ \A U \in Tab : tabs'[U] # "in" /\ (tabs'[U] = "fresh" <=> tabs[U] = "fresh")
  BY <1>1 DEF SignOut, SignedIn, DeviceInv, Types
<1>3. ASSUME NEW u \in Task
      PROVE  /\ Formed(tasks'[u])
             /\ tasks'[u].via = tasks[u].via /\ tasks'[u].tab = tasks[u].tab
             /\ tasks'[u].made = tasks[u].made /\ tasks'[u].kind = tasks[u].kind
             /\ \E x : x = tasks'[u] /\ Sound(x)'
  <2>1. PICK r, x : r = tasks[u] /\ x = tasks'[u]
    OBVIOUS
  <2>2. Formed(r) /\ Sound(r) /\ r \in TaskRecord
    BY <2>1, CallInv DEF Formed
  <2>3. PICK b \in BOOLEAN : b <=> r.calm /\ r.pc = "failed"
    OBVIOUS
  <2>4. x = [r EXCEPT !.calm = b]
    <3>1. b = (r.calm /\ r.pc = "failed")
      BY <2>2, <2>3 DEF TaskRecord
    <3> QED
      BY <1>1, <2>1, <3>1
  <2>5. x \in TaskRecord
    BY <2>2, <2>4 DEF TaskRecord
  <2>6. /\ x.kind = r.kind /\ x.pc = r.pc /\ x.tab = r.tab /\ x.via = r.via /\ x.made = r.made
        /\ x.key = r.key /\ x.raw = r.raw /\ x.id = r.id /\ x.version = r.version /\ x.got = r.got
        /\ x.rotating = r.rotating /\ x.calm = b
    BY <2>2, <2>4 DEF TaskRecord
  <2>7. Formed(x)
    BY <2>2, <2>3, <2>5, <2>6 DEF Formed
  <2>8. x.calm => x.pc = "failed"
    BY <2>3, <2>6
  <2>9. FreshCall(x)'
    <3>1. r.tab = NoTab \/ r.tab \in Tab
      BY <2>2 DEF Formed
    <3> QED
      BY <1>2, <2>2, <2>6, <3>1 DEF Sound, Asking, FreshCall
  <2>10. CalmCall(x)' /\ ReadCall(x)'
    BY <2>8 DEF CalmCall, ReadCall, Look
  <2>11. AnsweredCall(x)' /\ OpeningCall(x)'
    BY <1>1, <2>2, <2>6, <2>8 DEF Sound, Asking, AnsweredCall, OpeningCall
  <2>12. KeyedCall(x)'
    BY <1>1, <1>2, <2>2, <2>6 DEF Sound, KeyedCall, Formed, Stage
  <2> QED
    BY <2>1, <2>6, <2>7, <2>9, <2>10, <2>11, <2>12 DEF Sound, Asking
<1>4. CallsInv'
  BY <1>3, CallsNext
<1>5. tasks' \in [Task -> TaskRecord]
  <2>1. tasks' = [u \in Task |-> tasks'[u]]
    BY <1>1
  <2> QED
    BY <1>3, <2>1 DEF Formed
<1>6. Waits' /\ LoadInv'
  BY <1>1, <1>3, WaitsKept
<1>7. Types'
  BY <1>1, <1>2, <1>5 DEF DeviceInv, Types, Sealed, Nothing
<1>8. TabInv' /\ IdentityOpens' /\ UploadInv'
  BY <1>1, <1>2 DEF DeviceInv, TabInv, IdentityOpens, UploadInv
<1> QED
  BY <1>4, <1>6, <1>7, <1>8 DEF DeviceInv

\* While a tab signs out no other is signed in and no call is calm.
LEMMA ClearingTab ==
    ASSUME DeviceInv, clearing # {}
    PROVE  /\ \A T \in Tab : tabs[T] # "in"
           /\ \A t \in Task : tasks[t].calm => tasks[t].pc = "failed"
<1>1. \A t \in Task : Sound(tasks[t])
  BY CallInv
<1> QED
  BY <1>1 DEF DeviceInv, TabInv, Sound, Asking, CalmCall

LEMMA FinishSignOutStep ==
    ASSUME DeviceInv, NEW T \in Tab, FinishSignOut(T)
    PROVE  DeviceInv'
<1>1. /\ clearing # {} /\ clearing' = clearing \ {T} /\ wrapping' = [key |-> NoKey, by |-> NoTab]
      /\ cache' = [cache EXCEPT ![T] = {}]
      /\ raced' = (raced \/ stored # Nothing \/ \E t \in Task : Is(t, "seal"))
      /\ UNCHANGED <<stored, session, tabs, requests, tasks, public, versions, uploads, calls, missed>>
  BY DEF FinishSignOut
<1>2. raced' \in BOOLEAN /\ (~raced' => ~raced /\ stored = Nothing /\ \A t \in Task : ~Is(t, "seal"))
  BY <1>1
<1>3. ASSUME NEW u \in Task PROVE Formed(tasks'[u]) /\ \E r : r = tasks'[u] /\ Sound(r)'
  <2>1. PICK r : r = tasks[u]
    OBVIOUS
  <2>2. Formed(r) /\ Sound(r) /\ (r.calm => r.pc = "failed")
    BY <1>1, <2>1, CallInv, ClearingTab
  <2>3. FreshCall(r)' /\ CalmCall(r)' /\ ReadCall(r)' /\ AnsweredCall(r)'
    BY <1>1, <2>2 DEF Sound, Asking, FreshCall, CalmCall, ReadCall, AnsweredCall
  <2>4. OpeningCall(r)'
    BY <1>2, <2>2 DEF Sound, Asking, OpeningCall
  <2>5. KeyedCall(r)'
    <3>1. r.pc \in Stage => r.tab \in Tab
      BY <2>2 DEF Formed, Stage
    <3>2. r.pc \in Stage => tabs[r.tab] # "in"
      BY <1>1, <3>1, ClearingTab
    <3>3. ~raced' /\ r.via = NoTask => r.pc # "seal"
      BY <1>2, <2>1 DEF Is
    <3> QED
      BY <1>1, <3>2, <3>3 DEF KeyedCall
  <2> QED
    BY <1>1, <2>1, <2>2, <2>3, <2>4, <2>5 DEF Sound, Asking
<1>4. CallsInv'
  BY <1>3, CallsNext
<1>5. Waits' /\ LoadInv'
  BY <1>1 DEF DeviceInv, Waits, LoadInv
<1>6. cache' \in [Tab -> SUBSET [version : 1..Versions, under : Key]] /\ clearing' \subseteq Tab
      /\ \A U \in Tab : cache'[U] = {} \/ cache'[U] = cache[U]
  BY <1>1 DEF DeviceInv, Types
<1>7. Types'
  BY <1>1, <1>2, <1>6 DEF DeviceInv, Types
<1>8. TabInv'
  BY <1>1, <1>6, ClearingTab DEF DeviceInv, TabInv
<1>9. IdentityOpens' /\ UploadInv'
  BY <1>1, <1>2 DEF DeviceInv, IdentityOpens, UploadInv, LastUpload
<1> QED
  BY <1>4, <1>5, <1>7, <1>8, <1>9 DEF DeviceInv

LEMMA ForgetStep ==
    ASSUME DeviceInv, NEW T \in Tab, Forget(T), session' \in BOOLEAN, session => session'
    PROVE  DeviceInv'
<1>1. /\ tabs' = [tabs EXCEPT ![T] = "fresh"] /\ clearing' = clearing \ {T}
      /\ cache' = [cache EXCEPT ![T] = {}] /\ requests' = [requests EXCEPT ![T] = [l \in Look |-> 0]]
      /\ tasks' = [t \in Task |-> IF tasks[t].tab = T THEN Idle ELSE tasks[t]]
      /\ UNCHANGED <<stored, wrapping, public, versions, uploads, calls, missed, raced>>
  BY DEF Forget
<1>2. /\ tabs' \in [Tab -> {"fresh", "in", "behind", "out"}] /\ clearing' \subseteq Tab
      /\ cache' \in [Tab -> SUBSET [version : 1..Versions, under : Key]]
      /\ requests' \in [Tab -> [Look -> 0..Versions]]
      /\ tabs'[T] = "fresh" /\ cache'[T] = {}
      /\ \A U \in Tab : U # T => tabs'[U] = tabs[U] /\ cache'[U] = cache[U] /\ requests'[U] = requests[U]
  <2>1. [l \in Look |-> 0] \in [Look -> 0..Versions]
    BY DeviceIsTyped
  <2> QED
    BY <1>1, <2>1 DEF DeviceInv, Types
<1>3. ASSUME NEW u \in Task
      PROVE  Formed(tasks'[u]) /\ \E x : x = tasks'[u] /\ Sound(x)'
  <2>1. PICK r, x : r = tasks[u] /\ x = tasks'[u]
    OBVIOUS
  <2>2. Formed(r) /\ Sound(r)
    BY <2>1, CallInv
  <2>3. CASE r.tab = T
    <3>1. x = Idle
      BY <1>1, <2>1, <2>3
    <3> QED
      BY <2>1, <3>1, NoCalls, EndedSound
  <2>4. CASE r.tab # T /\ r.pc \in {"idle", "failed"}
    <3>1. x = r /\ (r.pc = "failed" => raced')
      BY <1>1, <2>1, <2>2, <2>4 DEF Sound, Asking, OpeningCall
    <3> QED
      BY <2>1, <2>2, <2>4, <3>1, EndedSound
  <2>5. CASE r.tab # T /\ r.pc \notin {"idle", "failed"}
    <3>1. x = r /\ r.tab \in Tab
      BY <1>1, <2>1, <2>2, <2>5 DEF Formed
    <3>2. tabs'[r.tab] = tabs[r.tab] /\ requests'[r.tab] = requests[r.tab]
      BY <1>2, <2>5, <3>1
    <3>3. FreshCall(r)' /\ CalmCall(r)' /\ OpeningCall(r)'
      BY <1>1, <2>2, <3>2 DEF Sound, Asking, FreshCall, CalmCall, OpeningCall
    <3>4. ReadCall(r)' /\ AnsweredCall(r)' /\ KeyedCall(r)'
      BY <1>1, <2>2, <3>2 DEF Sound, Asking, ReadCall, AnsweredCall, KeyedCall
    <3> QED
      BY <2>1, <2>2, <3>1, <3>3, <3>4 DEF Sound, Asking
  <2> QED
    BY <2>3, <2>4, <2>5
<1>4. CallsInv'
  BY <1>3, CallsNext
<1>5. tasks' \in [Task -> TaskRecord]
  BY <1>1, NoCalls DEF DeviceInv, Types, Formed
<1>6. Waits' /\ LoadInv'
  <2>1. ASSUME NEW u \in Task, NEW o \in Task, tasks[u].via = o, tasks'[u] = tasks[u]
        PROVE  tasks'[o] = tasks[o]
    <3>1. tasks[o].tab = tasks[u].tab
      BY <2>1, DeviceIsTyped DEF DeviceInv, Waits
    <3>2. tasks[u].tab # T
      BY <1>1, <2>1, NoCalls, DeviceIsTyped
    <3> QED
      BY <1>1, <3>1, <3>2
  <2>2. \A u \in Task : tasks'[u] = tasks[u] \/ tasks'[u] = Idle
    BY <1>1
  <2> QED
    BY <1>1, <2>1, <2>2, WaitsDropped
<1>7. Types'
  BY <1>1, <1>2, <1>5 DEF DeviceInv, Types
<1>8. TabInv'
  BY <1>1, <1>2 DEF DeviceInv, TabInv
<1>9. IdentityOpens' /\ UploadInv'
  BY <1>1 DEF DeviceInv, IdentityOpens, UploadInv, LastUpload
<1> QED
  BY <1>4, <1>6, <1>7, <1>8, <1>9 DEF DeviceInv

-----------------------------------------------------------------------------
(* All steps.                                                              *)

LEMMA CallStepInv ==
    ASSUME DeviceInv, NEW t \in Task, CallStep(t)
    PROVE  DeviceInv'
<1>1. CASE FindKey(t) \/ MakeKey(t) \/ PutKey(t)
  BY <1>1, FindKeyStep, MakeKeyStep, PutKeyStep
<1>2. CASE LoadOpened(t) \/ CreateOpened(t) \/ LookupOpened(t) \/ RotationOpened(t) \/ OpenLost(t)
  BY <1>2, LoadOpenedStep, CreateOpenedStep, LookupOpenedStep, RotationOpenedStep, OpenLostStep
<1>3. CASE Seal(t) \/ Peek(t)
  BY <1>3, SealStep, PeekStep
<1>4. CASE TakeVersion(t) \/ LookAgain(t) \/ Rotate(t) \/ GiveUp(t)
  BY <1>4, TakeVersionStep, LookAgainStep, RotateStep, GiveUpStep
<1>5. CASE Post(t) \/ LosePost(t) \/ Keep(t)
  BY <1>5, PostStep, LosePostStep, KeepStep
<1> QED
  BY <1>1, <1>2, <1>3, <1>4, <1>5 DEF CallStep

LEMMA TabStepInv ==
    ASSUME DeviceInv, NEW T \in Tab, TabStep(T)
    PROVE  DeviceInv'
<1>1. CASE \E t \in Task : Load(t, T) \/ Create(t, T) \/ Restore(t, T) \/ Send(t, T)
  BY <1>1, LoadStep, CreateStep, RestoreStep, SendStep
<1>2. CASE \E t \in Task, v \in 1..Versions : Read(t, T, v)
  BY <1>2, ReadStep
<1>3. CASE \E l \in Look : Answer(T, l) \/ LoseRequest(T, l)
  BY <1>3, AnswerStep, LoseRequestStep
<1>4. CASE SignOut(T) \/ FinishSignOut(T)
  BY <1>4, SignOutStep, FinishSignOutStep
<1>5. CASE Reload(T)
  BY <1>5, ForgetStep DEF Reload, DeviceInv, Types
<1>6. CASE SignIn(T)
  BY <1>6, ForgetStep DEF SignIn
<1> QED
  BY <1>1, <1>2, <1>3, <1>4, <1>5, <1>6 DEF TabStep

LEMMA StutterStep ==
    ASSUME DeviceInv, UNCHANGED deviceVars
    PROVE  DeviceInv'
BY ServerStep DEF deviceVars, DeviceInv, Types, LastUpload

LEMMA InvStep == DeviceInv /\ [DeviceNext]_deviceVars => DeviceInv'
<1> SUFFICES ASSUME DeviceInv, [DeviceNext]_deviceVars PROVE DeviceInv'
  OBVIOUS
<1>1. CASE \E t \in Task : CallStep(t)
  BY <1>1, CallStepInv
<1>2. CASE \E T \in Tab : TabStep(T)
  BY <1>2, TabStepInv
<1>3. CASE \E i \in DOMAIN uploads : ArriveUpload(i) \/ LoseUpload(i)
  BY <1>3, ArriveUploadStep, LoseUploadStep
<1>4. CASE PeerAdd
  BY <1>4, PeerAddStep
<1>5. CASE UNCHANGED deviceVars
  BY <1>5, StutterStep
<1> QED
  BY <1>1, <1>2, <1>3, <1>4, <1>5 DEF DeviceNext

LEMMA InvAlways == DeviceSpec => []DeviceInv
BY InvInit, InvStep, PTL DEF DeviceSpec

\* The variables have their types.  Whatever tabs are closed and whatever requests
\* are lost, a call that waits for a storage key waits for one that a call of its
\* own tab is fetching (getStorageKey's promise), and one that waits for versions
\* has them or shares a request that is under way (fetchChatKeyWraps).
THEOREM DeviceTypesCorrect == DeviceSpec => []DeviceTypeOK
BY InvTypes, InvAlways, PTL

\* For any number of tabs and calls, the identity in localStorage is encrypted under
\* the key in IndexedDB, or two tabs have overwritten each other's key or a sign-out
\* has deleted it under a save (saveStoredIdentity, getStorageKey, clearE2EEState).
THEOREM StoredIdentityOpens == DeviceSpec => []IdentityOpens
<1>1. DeviceInv => IdentityOpens
  BY DEF DeviceInv
<1> QED
  BY <1>1, InvAlways, PTL

\* The server has the public key of the identity that this device has, when the
\* uploads that nobody awaits have arrived and since the last sign-in none was lost
\* or overtaken (ensureIdentityKeys, uploadIdentityKey).
THEOREM UploadedKeyIsKnown == DeviceSpec => []KeyIsKnown
<1>1. DeviceInv => KeyIsKnown
  BY DEF DeviceInv, UploadInv, LastUpload, KeyIsKnown
<1> QED
  BY <1>1, InvAlways, PTL

\* A read of a version that is wrapped for this identity and a send find a chat key,
\* however many calls of however many tabs share their requests, unless a request is
\* lost, a sign-out or another tab comes between (ensureChatKey, rotateChatKey).
THEOREM CalmLookupsSucceed == DeviceSpec => []UndisturbedLookupsSucceed
<1>1. ASSUME DeviceInv PROVE UndisturbedLookupsSucceed
  BY <1>1 DEF DeviceInv, CallsInv, Sound, Asking, OpeningCall, UndisturbedLookupsSucceed
<1> QED
  BY <1>1, InvAlways, PTL
=============================================================================
