----------------------------- MODULE DeviceKeys -----------------------------
(***************************************************************************)
(* The keys of one account in one browser: the identity that localStorage  *)
(* holds encrypted under a wrapping key of IndexedDB, the public key that  *)
(* the server hands to other members, and the versions of one chat's key,  *)
(* each wrapped for the identity the account was known by.                 *)
(*                                                                         *)
(* Tabs share the storage; in-flight promises, cached chat keys and the    *)
(* tasks that wait for them are of one tab.  A tab may be closed or        *)
(* reloaded at any moment, a request may be lost.  Cryptography is perfect: *)
(* what is wrapped for an identity opens with that identity only.  Names   *)
(* of identities and keys that nothing refers to any more are used again.  *)
(***************************************************************************)
EXTENDS Naturals, Sequences, FiniteSets

CONSTANTS
    Tab,
    Task,       \* places for the calls under way in all tabs: a bound
    Identities, \* identities besides the one of the backup: a bound
    Keys,       \* wrapping keys: a bound
    Versions,   \* versions of the chat's key: a bound
    Uploads,    \* uploads of a public key under way: a bound
    Calls,      \* calls begun: a bound
    NoTab, NoTask

ASSUME DeviceIsTyped ==
    /\ {Identities, Keys, Versions, Uploads, Calls} \subseteq Nat \ {0}
    /\ NoTab \notin Tab /\ NoTask \notin Task

VARIABLES
    stored,    \* localStorage: the identity and the key it is encrypted under
    wrapping,  \* IndexedDB: the wrapping key, and the tab that made it
    session,   \* localStorage: is there a session?
    tabs,      \* what each tab knows of the session
    clearing,  \* tabs that sign out and have yet to delete the wrapping key
    cache,     \* chatKeyCache of each tab
    requests,  \* fetchChatKeyWraps of each tab: how many versions there were when it was sent
    tasks,     \* the calls of ensureIdentityKeys, ensureChatKey, ...
    public,    \* the server: the account's public key
    versions,  \* the server: the identity that each version is wrapped for
    uploads,   \* requests that PUT a public key
    calls,     \* how many calls have been begun
    missed,    \* an upload was lost, overtaken or of an identity replaced meanwhile, since the
               \* last sign-in whose upload was not; for checking
    raced      \* two tabs have overwritten each other's keys; for checking

deviceVars == <<stored, wrapping, session, tabs, clearing, cache, requests, tasks,
                public, versions, uploads, calls, missed, raced>>

Backup == 0 \* the identity in the user's backup file: that of an older device

NoIdentity == Identities + 1

Identity == 0..Identities

Key == 1..Keys

NoKey == 0

Sealed == [id : Identity \cup {NoIdentity}, under : Key \cup {NoKey}]

Nothing == [id |-> NoIdentity, under |-> NoKey]

\* "first" is the request that lookups of a tab share, "again" the one they
\* share when a version is missing from the answer of the first.
Look == {"first", "again"}

\* Where a call waits for the storage key, or goes on when it has it.
Stage == {"peek", "open", "seal", "keep"}

TaskRecord ==
    [kind : {"none", "load", "create", "restore", "read", "send"},
     pc : {"idle", "post", "failed"} \cup Stage \cup Look,
     tab : Tab \cup {NoTab},
     via : Task \cup {NoTask},      \* whose getStorageKey it waits for
     made : Key \cup {NoKey},       \* the wrapping key that call is storing
     key : Key \cup {NoKey},        \* the storage key it has got
     raw : Sealed,                  \* the envelope it has read
     id : Identity \cup {NoIdentity},
     version : 0..Versions,         \* the version it looks up; of a send, the one it has found
     got : 0..Versions,             \* how many versions its request has answered
     rotating : BOOLEAN,
     calm : BOOLEAN]                \* nothing has come between that may fail it; for checking

Idle == [kind |-> "none", pc |-> "idle", tab |-> NoTab, via |-> NoTask, made |-> NoKey, key |-> NoKey,
         raw |-> Nothing, id |-> NoIdentity, version |-> 0, got |-> 0, rotating |-> FALSE, calm |-> FALSE]

Running(T) == {t \in Task : tasks[t].tab = T}

DeviceInit ==
    /\ stored = Nothing
    /\ wrapping = [key |-> NoKey, by |-> NoTab]
    /\ session = TRUE
    /\ tabs = [T \in Tab |-> "fresh"]
    /\ clearing = {}
    /\ cache = [T \in Tab |-> {}]
    /\ requests = [T \in Tab |-> [l \in Look |-> 0]]
    /\ tasks = [t \in Task |-> Idle]
    /\ public = Backup
    /\ versions = <<Backup>>
    /\ uploads = <<>>
    /\ calls = 0
    /\ missed = FALSE
    /\ raced = FALSE

\* generateIdentityKeyPair and generateWrappingKey: a name not in use.
UsedIdentities ==
    {Backup, stored.id, public} \cup {versions[i] : i \in DOMAIN versions}
        \cup {uploads[i] : i \in DOMAIN uploads}
        \cup UNION {{tasks[t].id, tasks[t].raw.id} : t \in Task}

UsedKeys ==
    {stored.under, wrapping.key} \cup {c.under : c \in UNION {cache[T] : T \in Tab}}
        \cup UNION {{tasks[t].key, tasks[t].made, tasks[t].raw.under} : t \in Task}

NewOf(unused) == {i \in unused : \A j \in unused : i <= j}

NewIdentity == NewOf(Identity \ UsedIdentities)

NewKey == NewOf(Key \ UsedKeys)

-----------------------------------------------------------------------------
(* The storage key (localCrypto.ts).                                       *)

\* Mutant: every caller looks for the key on its own.
AskAlone(t, call) == tasks' = [tasks EXCEPT ![t] = [call EXCEPT !.via = t, !.key = NoKey]]

\* t goes on as call when it has the storage key: that of the getStorageKey
\* pending in its tab, or of a new one.
Ask(t, call) ==
    LET pending == {o \in Running(call.tab) : tasks[o].via = o}
    IN tasks' = [tasks EXCEPT ![t] =
                    [call EXCEPT !.via = IF pending = {} THEN t ELSE CHOOSE o \in pending : TRUE,
                                 !.key = NoKey]]

\* Mutant: only the first caller is told.
GiveToFirst(o, k) == tasks' = [tasks EXCEPT ![o].via = NoTask, ![o].key = k, ![o].made = NoKey]

Give(o, k) ==
    tasks' = [t \in Task |-> IF tasks[t].via = o
                             THEN [tasks[t] EXCEPT !.via = NoTask, !.key = k, !.made = NoKey]
                             ELSE tasks[t]]

storageUnchanged == <<stored, session, tabs, clearing, cache, requests, public, versions, uploads, calls>>

FindKey(o) ==
    /\ tasks[o].via = o /\ tasks[o].made = NoKey /\ wrapping.key # NoKey
    /\ Give(o, wrapping.key)
    /\ UNCHANGED <<wrapping, missed, raced, storageUnchanged>>

MakeKey(o) ==
    /\ tasks[o].via = o /\ tasks[o].made = NoKey /\ wrapping.key = NoKey
    /\ \E k \in NewKey : tasks' = [tasks EXCEPT ![o].made = k]
    /\ UNCHANGED <<wrapping, missed, raced, storageUnchanged>>

\* A key that another tab has stored meanwhile is lost.
PutKey(o) ==
    /\ tasks[o].via = o /\ tasks[o].made # NoKey
    /\ wrapping' = [key |-> tasks[o].made, by |-> tasks[o].tab]
    /\ Give(o, tasks[o].made)
    /\ raced' = (raced \/ (wrapping.key # NoKey /\ wrapping.by # tasks[o].tab))
    /\ UNCHANGED <<missed, storageUnchanged>>

-----------------------------------------------------------------------------
(* Calls of a tab.                                                         *)

Free(t) == tasks[t].pc \in {"idle", "failed"}

Is(t, pc) == tasks[t].pc = pc /\ tasks[t].via = NoTask

\* Only the failure of a lookup that nothing came between is kept, until its
\* place is used again.
Fail(t, call) ==
    tasks' = [tasks EXCEPT ![t] = IF call.calm /\ call.kind \in {"read", "send"}
                                  THEN [Idle EXCEPT !.kind = call.kind, !.pc = "failed", !.calm = TRUE]
                                  ELSE Idle]

Done(t) == tasks' = [tasks EXCEPT ![t] = Idle]

\* A new call, which has read the envelope synchronously.
Call(t, T, kind) == [Idle EXCEPT !.kind = kind, !.tab = T, !.raw = stored]

\* saveStoredIdentity of a new identity.
Generate(t, call) ==
    \E i \in NewIdentity : Ask(t, [call EXCEPT !.pc = "seal", !.id = i, !.raw = Nothing])

\* loadStoredIdentity of a call that makes an identity if there is none.
Ensure(t, call) ==
    IF stored = Nothing THEN Generate(t, call) ELSE Ask(t, [call EXCEPT !.pc = "open"])

sharedVars == <<stored, wrapping, session, tabs, clearing, cache, requests, public, versions, uploads,
                missed, raced>>

allButTasks == <<sharedVars, calls>>

Begun == calls < Calls /\ calls' = calls + 1

Busy(T, kind) == \E t \in Running(T) : tasks[t].kind = kind

Load(t, T) ==
    /\ Free(t) /\ Begun /\ session /\ tabs[T] = "fresh" /\ ~Busy(T, "load")
    /\ Ensure(t, [Call(t, T, "load") EXCEPT !.calm = clearing = {}])
    /\ UNCHANGED sharedVars

SignedIn(T) == tabs[T] \in {"in", "behind"}

\* The new chat itself is in ChatStore.
Create(t, T) ==
    /\ Free(t) /\ Begun /\ SignedIn(T) /\ ~Busy(T, "create")
    /\ Ensure(t, Call(t, T, "create"))
    /\ UNCHANGED sharedVars

\* The user has confirmed that the backup replaces the identity.
Restore(t, T) ==
    /\ Free(t) /\ Begun /\ SignedIn(T) /\ ~Busy(T, "restore")
    /\ Ask(t, [Call(t, T, "restore") EXCEPT !.pc = "seal", !.id = Backup, !.raw = Nothing])
    /\ UNCHANGED sharedVars

Calm(T) == session /\ tabs[T] = "in" /\ clearing = {} /\ ~raced

\* A message names version v; a lookup of v that is under way is joined.
Read(t, T, v) ==
    /\ Free(t) /\ Begun /\ SignedIn(T) /\ v \in DOMAIN versions
    /\ ~\E u \in Running(T) : tasks[u].kind = "read" /\ tasks[u].version = v
    /\ LET hits == {c \in cache[T] : c.version = v}
           call == [Call(t, T, "read") EXCEPT !.version = v,
                                              !.calm = Calm(T) /\ versions[v] = stored.id]
       IN IF hits # {}
          THEN \E c \in hits :
                 Ask(t, [call EXCEPT !.pc = "peek", !.raw = [Nothing EXCEPT !.under = c.under]])
          ELSE IF stored = Nothing THEN Fail(t, call) ELSE Ask(t, [call EXCEPT !.pc = "open"])
    /\ UNCHANGED sharedVars

Send(t, T) ==
    /\ Free(t) /\ Begun /\ SignedIn(T) /\ ~Busy(T, "send")
    /\ LET call == [Call(t, T, "send") EXCEPT !.calm = Calm(T)]
       IN IF stored = Nothing THEN Fail(t, call)
          ELSE Ask(t, [call EXCEPT !.pc = "open"])
    /\ UNCHANGED sharedVars

\* uploadIdentityKey, which nobody awaits; without a session it is refused.
Upload(id) ==
    /\ Len(uploads) < Uploads
    /\ uploads' = IF session THEN Append(uploads, id) ELSE uploads

\* Mutant: only a new identity is uploaded.
NoUpload(id) == UNCHANGED uploads

\* ensureIdentityKeys uploads an identity that it finds as well.
UploadFound(id) == Upload(id)

\* A sign-in's upload makes up for older ones, unless one of them is under way or
\* another tab has replaced the identity since the sign-in read it.
Ensured(id) == missed' = ~(session /\ uploads = <<>> /\ stored'.id = id)

\* setUser; a tab that has loaded during a sign-out does not notice it.
SignedInNow(call) == tabs' = [tabs EXCEPT ![call.tab] = IF call.calm THEN "in" ELSE "behind"]

\* fetchChatKeyWraps: the request of l that is under way in the tab, or a new one.
Share(t, l, call) ==
    LET older == requests[call.tab][l]
    IN /\ requests' = [requests EXCEPT ![call.tab][l] = IF @ = 0 THEN Len(versions) ELSE @]
       /\ tasks' = [tasks EXCEPT ![t] =
                      [call EXCEPT !.pc = l, !.key = NoKey, !.raw = Nothing, !.got = 0,
                                   !.calm = @ /\ ~(l = "again" /\ older \in 1..(call.version - 1))]]

Fetch(t, l, call) ==
    IF session THEN Share(t, l, call) ELSE Fail(t, call) /\ UNCHANGED requests

Opens(t) == tasks[t].raw.under = tasks[t].key

\* The envelope opens.
Opened(t) == Is(t, "open") /\ Opens(t)

LoadOpened(t) ==
    /\ Opened(t) /\ tasks[t].kind = "load"
    /\ UploadFound(tasks[t].raw.id)
    /\ UNCHANGED <<stored, wrapping, session, clearing, cache, requests, public, versions, calls, raced>>
    /\ Ensured(tasks[t].raw.id)
    /\ SignedInNow(tasks[t])
    /\ Done(t)

CreateOpened(t) ==
    /\ Opened(t) /\ tasks[t].kind = "create"
    /\ Done(t)
    /\ UNCHANGED allButTasks

LookupOpened(t) ==
    /\ Opened(t) /\ tasks[t].kind \in {"read", "send"} /\ ~tasks[t].rotating
    /\ Fetch(t, "first", [tasks[t] EXCEPT !.id = tasks[t].raw.id])
    /\ UNCHANGED <<stored, wrapping, session, tabs, clearing, cache, public, versions, uploads, calls,
                   missed, raced>>

RotationOpened(t) ==
    /\ Opened(t) /\ tasks[t].rotating
    /\ tasks' = [tasks EXCEPT ![t] = [tasks[t] EXCEPT !.pc = "post", !.id = tasks[t].raw.id,
                                                      !.raw = Nothing, !.key = NoKey]]
    /\ UNCHANGED allButTasks

\* An envelope that does not open counts as no identity.
OpenLost(t) ==
    /\ Is(t, "open") /\ ~Opens(t)
    /\ IF tasks[t].kind \in {"load", "create"} THEN Generate(t, tasks[t]) ELSE Fail(t, tasks[t])
    /\ UNCHANGED allButTasks

\* saveStoredIdentity, then the upload.
Seal(t) ==
    /\ Is(t, "seal")
    /\ LET call == tasks[t]
       IN /\ stored' = [id |-> call.id, under |-> call.key]
          /\ Upload(call.id)
          /\ IF call.kind = "load"
             THEN SignedInNow(call) /\ Ensured(call.id)
             ELSE UNCHANGED tabs /\ missed' = (missed \/ ~session)
    /\ Done(t)
    /\ UNCHANGED <<wrapping, session, clearing, cache, requests, public, versions, calls, raced>>

\* getCachedChatKey: an entry under a key that is gone fails the lookup.
Peek(t) ==
    /\ Is(t, "peek")
    /\ IF Opens(t) THEN Done(t) ELSE Fail(t, tasks[t])
    /\ UNCHANGED allButTasks

Answered(t) == tasks[t].pc \in Look /\ tasks[t].got # 0

\* The version to open: a read's own, if the answer has it, and a send's newest.
Selected(t) ==
    LET call == tasks[t]
    IN {v \in 1..call.got : v = IF call.kind = "read" THEN call.version ELSE call.got}

Openable(t) == \E v \in Selected(t) : versions[v] = tasks[t].id

TakeVersion(t) ==
    /\ Answered(t) /\ Openable(t)
    /\ \E v \in Selected(t) : Ask(t, [tasks[t] EXCEPT !.pc = "keep", !.version = v, !.got = 0])
    /\ UNCHANGED allButTasks

\* Mutant: a version that the first answer lacks is not looked for again.
GiveUpAtOnce(t) == Fail(t, tasks[t]) /\ UNCHANGED requests

FetchAgain(t) == Fetch(t, "again", tasks[t])

LookAgain(t) ==
    /\ Answered(t) /\ Selected(t) = {} /\ tasks[t].pc = "first"
    /\ FetchAgain(t)
    /\ UNCHANGED <<stored, wrapping, session, tabs, clearing, cache, public, versions, uploads, calls,
                   missed, raced>>

\* A send that cannot open the newest version adds one: rotateChatKey reads the
\* identity again.
Rotate(t) ==
    /\ Answered(t) /\ ~Openable(t) /\ tasks[t].kind = "send" /\ stored # Nothing
    /\ Ask(t, [tasks[t] EXCEPT !.pc = "open", !.raw = stored, !.id = NoIdentity, !.got = 0,
                               !.rotating = TRUE])
    /\ UNCHANGED allButTasks

GiveUp(t) ==
    /\ Answered(t) /\ ~Openable(t)
    /\ IF tasks[t].kind = "send" THEN stored = Nothing ELSE Selected(t) # {} \/ tasks[t].pc = "again"
    /\ Fail(t, tasks[t])
    /\ UNCHANGED allButTasks

\* rotateChatKey has the members and their keys, and adds the version.
Post(t) ==
    /\ Is(t, "post") /\ session /\ Len(versions) < Versions
    /\ versions' = Append(versions, tasks[t].id)
    /\ Ask(t, [tasks[t] EXCEPT !.pc = "keep", !.version = Len(versions) + 1])
    /\ UNCHANGED <<stored, wrapping, session, tabs, clearing, cache, requests, public, uploads, calls,
                   missed, raced>>

\* cacheChatKey.
Keep(t) ==
    /\ Is(t, "keep")
    /\ LET call == tasks[t]
       IN cache' = [cache EXCEPT ![call.tab] =
                      {c \in @ : c.version # call.version}
                          \cup {[version |-> call.version, under |-> call.key]}]
    /\ Done(t)
    /\ UNCHANGED <<stored, wrapping, session, tabs, clearing, requests, public, versions, uploads, calls,
                   missed, raced>>

-----------------------------------------------------------------------------
(* The network, the server and another member.                             *)

\* The answer has the versions of a moment since the request was sent.
Answer(T, l) ==
    /\ requests[T][l] # 0
    /\ \E n \in requests[T][l]..Len(versions) :
         tasks' = [t \in Task |-> IF tasks[t].tab = T /\ tasks[t].pc = l
                                  THEN [tasks[t] EXCEPT !.got = IF @ = 0 THEN n ELSE @] ELSE tasks[t]]
    /\ requests' = [requests EXCEPT ![T][l] = 0]
    /\ UNCHANGED <<stored, wrapping, session, tabs, clearing, cache, public, versions, uploads, calls,
                   missed, raced>>

LoseRequest(T, l) ==
    /\ requests[T][l] # 0
    /\ tasks' = [t \in Task |-> IF tasks[t].tab = T /\ tasks[t].pc = l /\ tasks[t].got = 0 THEN Idle
                                ELSE tasks[t]]
    /\ requests' = [requests EXCEPT ![T][l] = 0]
    /\ UNCHANGED <<stored, wrapping, session, tabs, clearing, cache, public, versions, uploads, calls,
                   missed, raced>>

\* A rotation's request is lost on its way, or its answer.
LosePost(t) ==
    /\ Is(t, "post")
    /\ \/ UNCHANGED versions
       \/ session /\ Len(versions) < Versions /\ versions' = Append(versions, tasks[t].id)
    /\ Done(t)
    /\ UNCHANGED <<stored, wrapping, session, tabs, clearing, cache, requests, public, uploads, calls,
                   missed, raced>>

WithoutUpload(i) == SubSeq(uploads, 1, i - 1) \o SubSeq(uploads, i + 1, Len(uploads))

\* UpsertIdentityKey; the older uploads that it overtakes arrive later.
ArriveUpload(i) ==
    /\ public' = uploads[i]
    /\ uploads' = WithoutUpload(i)
    /\ missed' = (missed \/ i > 1)
    /\ UNCHANGED <<stored, wrapping, session, tabs, clearing, cache, requests, tasks, versions, calls, raced>>

LoseUpload(i) ==
    /\ uploads' = WithoutUpload(i)
    /\ missed' = TRUE
    /\ UNCHANGED <<stored, wrapping, session, tabs, clearing, cache, requests, tasks, public, versions,
                   calls, raced>>

\* Another member adds a version, wrapped for the key that the server has.
\* (One for a key that it had earlier is one added earlier.)
PeerAdd ==
    /\ Len(versions) < Versions
    /\ versions' = Append(versions, public)
    /\ UNCHANGED <<stored, wrapping, session, tabs, clearing, cache, requests, tasks, public, uploads,
                   calls, missed, raced>>

-----------------------------------------------------------------------------
(* Sign-out, and tabs that go away.                                        *)

\* clearE2EEState and clearIdToken; other tabs do not notice.
SignOut(T) ==
    /\ SignedIn(T)
    /\ stored' = Nothing
    /\ session' = FALSE
    /\ tabs' = [U \in Tab |-> IF U = T THEN "out" ELSE IF tabs[U] = "in" THEN "behind" ELSE tabs[U]]
    /\ clearing' = clearing \cup {T}
    /\ tasks' = [t \in Task |-> [tasks[t] EXCEPT !.calm = @ /\ tasks[t].pc = "failed"]]
    /\ UNCHANGED <<wrapping, cache, requests, public, versions, uploads, calls, missed, raced>>

\* The wrapping key is deleted, then the tab's chat keys.  An identity that was
\* encrypted under it since the sign-out began, or is being so, is lost.
FinishSignOut(T) ==
    /\ T \in clearing
    /\ clearing' = clearing \ {T}
    /\ wrapping' = [key |-> NoKey, by |-> NoTab]
    /\ cache' = [cache EXCEPT ![T] = {}]
    /\ raced' = (raced \/ stored # Nothing \/ \E t \in Task : Is(t, "seal"))
    /\ UNCHANGED <<stored, session, tabs, requests, tasks, public, versions, uploads, calls, missed>>

\* What the tab had in memory is gone; requests to the server may arrive or not.
Forget(T) ==
    /\ tabs' = [tabs EXCEPT ![T] = "fresh"]
    /\ clearing' = clearing \ {T}
    /\ cache' = [cache EXCEPT ![T] = {}]
    /\ requests' = [requests EXCEPT ![T] = [l \in Look |-> 0]]
    /\ tasks' = [t \in Task |-> IF tasks[t].tab = T THEN Idle ELSE tasks[t]]
    /\ UNCHANGED <<stored, wrapping, public, versions, uploads, calls, missed, raced>>

Reload(T) == Forget(T) /\ UNCHANGED session

\* A sign-in leaves the page and comes back to it.
SignIn(T) == ~session /\ tabs[T] \in {"fresh", "out"} /\ Forget(T) /\ session' = TRUE

CallStep(t) ==
    \/ FindKey(t) \/ MakeKey(t) \/ PutKey(t)
    \/ LoadOpened(t) \/ CreateOpened(t) \/ LookupOpened(t) \/ RotationOpened(t) \/ OpenLost(t)
    \/ Seal(t) \/ Peek(t)
    \/ TakeVersion(t) \/ LookAgain(t) \/ Rotate(t) \/ GiveUp(t) \/ Post(t) \/ LosePost(t) \/ Keep(t)

TabStep(T) ==
    \/ \E t \in Task : Load(t, T) \/ Create(t, T) \/ Restore(t, T) \/ Send(t, T)
    \/ \E t \in Task, v \in 1..Versions : Read(t, T, v)
    \/ \E l \in Look : Answer(T, l) \/ LoseRequest(T, l)
    \/ SignOut(T) \/ FinishSignOut(T) \/ Reload(T) \/ SignIn(T)

DeviceNext ==
    \/ \E t \in Task : CallStep(t)
    \/ \E T \in Tab : TabStep(T)
    \/ \E i \in DOMAIN uploads : ArriveUpload(i) \/ LoseUpload(i)
    \/ PeerAdd

DeviceSpec == DeviceInit /\ [][DeviceNext]_deviceVars

-----------------------------------------------------------------------------
(* Properties.                                                             *)

\* The variables have their types; a call that waits for a storage key waits for
\* one that a call of its own tab is fetching, and a call that waits for an answer
\* has got it or its request is under way: nothing waits for ever for a promise
\* that is gone.
DeviceTypeOK ==
    /\ stored \in Sealed
    /\ wrapping \in [key : Key \cup {NoKey}, by : Tab \cup {NoTab}]
    /\ session \in BOOLEAN /\ missed \in BOOLEAN /\ raced \in BOOLEAN
    /\ tabs \in [Tab -> {"fresh", "in", "behind", "out"}]
    /\ clearing \subseteq Tab
    /\ cache \in [Tab -> SUBSET [version : 1..Versions, under : Key]]
    /\ requests \in [Tab -> [Look -> 0..Versions]]
    /\ tasks \in [Task -> TaskRecord]
    /\ public \in Identity
    /\ versions \in Seq(Identity) /\ Len(versions) <= Versions
    /\ uploads \in Seq(Identity) /\ Len(uploads) <= Uploads
    /\ calls \in 0..Calls
    /\ \A t \in Task :
         /\ tasks[t].via # NoTask =>
              LET o == tasks[t].via IN tasks[o].via = o /\ tasks[o].tab = tasks[t].tab
         /\ tasks[t].pc \in Look => tasks[t].got # 0 \/ requests[tasks[t].tab][tasks[t].pc] # 0

\* The identity in localStorage opens with the key in IndexedDB, whenever tabs are
\* closed and whatever else a tab does at the same time, unless two tabs overwrite
\* each other's key or a sign-out deletes it under a save (localCrypto.ts:74).
IdentityOpens == stored # Nothing /\ ~raced => stored.under = wrapping.key

\* When no upload is under way and none was lost or overtaken since the last
\* sign-in, other members wrap for the identity that this device has, although
\* no call awaits its upload (session.ts:40).
KeyIsKnown == uploads = <<>> /\ ~missed /\ stored # Nothing => public = stored.id

\* A lookup fails only if a request is lost, a sign-out or another tab comes
\* between: a send adds a version if it cannot open the newest (session.ts:186), and a
\* read of a version that is wrapped for this identity finds it however old the
\* request is that it shares, unless the second request is shared and older, too.
UndisturbedLookupsSucceed == \A t \in Task : tasks[t].pc = "failed" => raced
=============================================================================
