# e2eetext in TLA+

Specifications, model-checking configurations and proofs for the messenger in
this repository: a Go server over PostgreSQL (`src/server`) and a React client
(`src/client`) that encrypts every message end to end.

    tlasany M.tla                          # parse
    tlc -workers 2 -config X.cfg MCM.tla   # model-check
    tlapm MProofs.tla                      # check the proofs

## 1. The system

| Component | State | Operations | Hard behaviour | Modules |
|---|---|---|---|---|
| **Chat store** (`repository/postgres/{chat,e2ee,message}.go`, `service/*`, `handler/*`, migration 9) | tables `user_chats`, `chat_admins`, `chat_key_versions`, `user_chat_key_wraps`, `messages`, `unread_messages` | create chat, add key version, post, mark read, remove member, purge (pg_cron, every minute) | checks outside the transaction; READ COMMITTED interleavings; timestamps from the transaction's start; row locks; cancelled requests | `ChatStore`, `Roster` |
| **Hub** (`ws/hub.go`, `handler/ws.go`) | connections by user, a total, an RWMutex | Register, Unregister, Notify*, heartbeat ack | writes without a deadline under the read lock; several writers per connection | `Hub` |
| **Unread events** (`handler/message.go` 176-206) | none: snapshots of the tables | notifyChatUnread after a post or a read | snapshots sent out of order; cancelled with the request; the purge deletes unread rows and tells nobody | `UnreadEvents` |
| **Rate limiter** (`middleware/ratelimit.go`) | a bucket per key, the last sweep | allow, sweep | time read before the lock; eviction against refill | `RateLimiter` |
| **E2EE session** (`lib/e2ee/session.ts`, `storage.ts`) | stored identity, key cache, in-flight tables | ensureIdentityKeys, ensureChatKey, rotateChatKey, restore, clear | uploads not awaited; shared lookups; sign-out meanwhile | `DeviceKeys` |
| **Local encryption** (`lib/e2ee/localCrypto.ts`) | wrapping key in IndexedDB, a pending promise per tab | encrypt, decrypt, clear | two tabs; deletion during generation | `DeviceKeys` |
| **Chat socket** (`hooks/useChatSocket.ts`) | current socket, retry and heartbeat timers | connect, close, retry, token refresh, unmount | missed events; back-off | partly `UnreadEvents` |
| **Auth session** (`lib/auth.ts`, `hooks/useAuth.tsx`) | tokens, user, sign-in preferences | refresh, sign-in, sign-out | refresh answered after sign-out; failure clears the session | `UserRegistration` |
| **Chats page** (`app/ChatsPage.tsx`, `useMarkMessageReadOnView.ts`) | chats, selected chat, messages, read timers | load, send, events, mark read | answers in any order for a selection that has changed | `ChatsPage` |
| **OAuth login** (`service/auth.go`) with the **mock provider** (`mockoidc`) | state and nonce cookies; codes | login, callback, verification of bearer tokens | concurrent logins in one browser | `OAuthLogin` |
| **Users** (`service/user.go`, `lib/users.ts`) | `users` | register, rename, search | concurrent registration of one subject | `UserRegistration` |
| Node registry, request origin, configuration, HTTP plumbing, metrics | constants | parsing, wiring | sequential | none |

The client reads a chat's wraps or members from the store, encrypts, and posts;
the store's handlers notify the other members through the hub; the client's
socket turns the events into reloads of the page. The purge runs inside the
database, and the only thing that ties it to clients is the key id that a
message carries in its envelope. A login ends with tokens in localStorage, from
which every page finds or creates its row of `users` and then sees to it that
there is an identity key, whose public half other members wrap chat keys for.

What makes the store correct: members and admins change only by the rules of
removal; every member can open every key version; the purge deletes neither a
chat's newest version nor one that a kept message needs; requests end; what has
expired goes away. For the others: registry and count agree and a slow client
does not stop the rest (hub); the last event sent tells the last count (unread
events); no key gets more than its burst and rate (limiter); the stored identity
opens, the server knows it, and sends and reads find a key (session, local
encryption); what is shown belongs to the selected chat, all of it, and a chat
one was removed from stays away (page); a code gives one session and a token is
of the row it came from (login); an account has one row, with its user's own
name (users).

The hazards, each at its line, are listed in `PROJECT.json`.

## 2. Plan

Done, in this order: `ChatStore` with `Roster`, `RateLimiter`, `Hub`, each with
its proofs; `OAuthLogin` with the mock provider; `UserRegistration`, which joins
the auth session and the table of users; `UnreadEvents`, which joins the store
and the hub as one user sees them; `ChatsPage`; `DeviceKeys`, which composes the
E2EE session with local encryption, since each makes sense only with the other.
Then proofs for the last three and for what a login promises a user: every
invariant and action property that a passing run checks is a theorem.

Left, in this order:

1. Abstract specifications of the unread counts and of the registration, as
   `Roster` is for the store, with their refinements checked and proved.
2. The chat socket's retry timer, its back-off and the token refresh before a
   connection, of which `UnreadEvents` has only that connections come and go.
3. Pure functions as operators, each against a reference definition: scoped ids,
   the client address behind trusted proxies, the checks of the configuration.

## 3. Modules

### ChatStore

One variable per table, one set of records per kind of request in flight, one
record for the purge's transaction.

| TLA+ | Code |
|---|---|
| `members`, `admins`, `versions`, `wraps`, `messages`, `unread` | `user_chats`, `chat_admins`, `chat_key_versions`, `user_chat_key_wraps`, `messages`, `unread_messages` |
| `expired` | the messages with `created_at < NOW() - ttl` |
| `rotations` / `posts` / `removals` / `reads` | goroutines in `E2EEHandler.AddKeyVersion` / `MessageHandler.Create` / `ChatHandler.RemoveMember` / `MessageHandler.Update` |
| `purge` | the transaction of `purge_expired_messages()` |
| `at`, `now` | `created_at`, which defaults to `NOW()`, the transaction's start |
| `CreateChat` | `POST /chat`: one transaction that reads nothing, hence one step |
| `StartRotation`, `StartPost` | the client's `rotateChatKey` and `resolveChatKey`: what it read and which key it took |
| `Authorize*`, `CheckWraps` | the service's checks, outside any transaction |
| `BeginRotation`, `InsertMessage`, `DeleteMembership`, `DeleteUnread`, `DeleteWraps` | the statements of a transaction whose result later steps depend on |
| `Commit*`, `Refuse*`, `Abort` | COMMIT; the error answers; a cancelled context, with the deferred `Rollback` |
| `ScanPurge`, `CommitPurge`, `RollbackPurge` | the purge's DELETEs with the snapshot they ran on; COMMIT with the cascades; a failed run |

What a transaction has written stays in its record until COMMIT, because READ
COMMITTED shows it to nobody else. The record keeps what its statements saw.
Statements are merged only where nothing can come between them that matters:
the comment on the action says why. A deadlock that PostgreSQL resolves by
cancelling a transaction (removal against purge) is an `Abort` or a
`RollbackPurge`. `purge.kept` is the snapshot of messages the purge's second
DELETE ran on; it is read by `StaysReadable` only.

Definitions introduced as mutants are not part of the specification. Each is a
plausible bug, put in the place of the definition that follows it to see that
the property named in `PROJECT.json` notices.

### Roster

The abstract specification of membership: a chat is founded with all its
members and its founder as admin, then members leave one by one. A member goes
only if somebody else asked for it (`asked`) who was an admin when asking and
still is one. `ChatStore!FollowsRoster` says that the store implements it: the
tables are the mapping, and `asked` is the set of removals in flight with their
bookkeeping left out (`Asked`).

### RateLimiter

| TLA+ | Code |
|---|---|
| `buckets`, `lastSweep` | the fields of `rateLimiter` |
| `requests` | goroutines in `allow` between `now := l.now()` and `l.mu.Lock()` |
| `Arrive` | `middleware` calls `allow`, which reads the time |
| `Admit`, `Refuse` | what `allow` does under the mutex: `sweepLocked` (`Kept`, `Sweeps`, `Ttl`), the bucket found or made (`Lookup`), the refill (`Level`, `Refilled`), then a token taken, or 429 with Retry-After |
| `Tick` | time passes |
| `spent`, `promises` | not in the code: an exact meter for each key, and the answers that have told it when to come back |

A bucket earns one unit per tick and a request costs `Cost` of them; how long a
tick lasts is open, so no rate is excluded but those whose token takes a
fraction of every tick. Tokens are exact: what floats round off is not
modelled, nor that Retry-After is rounded up to whole seconds. `Lag` bounds the
time a goroutine spends between the clock and the mutex, in which others with
later times may overtake it. `Cost` and `Cap` are one limiter's; the classes
of routes have limiters of their own that share nothing.

### Hub

| TLA+ | Code |
|---|---|
| `conns`, `total` | the fields of `Hub` |
| `writer`, and `Readers` of `notifiers` | its RWMutex |
| `pc`, `owner` | the goroutine in `serveConn` of each connection, and its user |
| `Connect` | `WSHandler.ServeHTTP` from the upgrade to `go serveConn` |
| `AnnounceLock`, `Register`, `Unregister` | `Lock`, in two steps as `sync.RWMutex` takes it, and the body |
| `ReadHeartbeat`, `ReadError`, `BeginAck`, `EndAck`, `Close` | the loop of `serveConn` and its deferred calls |
| `Notify` ... `RUnlock` | `Hub.notify`: `RLock`, a write to each connection, `RUnlock` |
| `Stall`, `Resume`, `Leave` | the peer: it stops reading until the buffers are full, reads on, goes away |
| `isWriting`, `PanicInSend`, `CrashInAck` | gorilla/websocket's mark of a writer and its panic on a second one |

gorilla/websocket sets and clears `isWriting` without a lock, so whether a
second writer is noticed is a race: both outcomes are allowed. net/http
recovers from the panic in a handler's goroutine, where `notify` runs; the
heartbeat ack is written in a goroutine that `ServeHTTP` started, where nothing
recovers and the process ends (`CrashInAck` resets everything). What two
unnoticed writers do to each other's bytes, and a writer's early return after
an earlier error, are left out. A user without connections is the empty set
here and no entry in the code.

### OAuthLogin

A login is one trip to a provider; its name stands for the random state, nonce
and code as well.

| TLA+ | Code |
|---|---|
| `cookies` | the browser's `state` and `nonce` cookies, and the one by which mockoidc's Apple knows a browser again |
| `logins` | where each login is: begun, at the provider, on its way back |
| `callbacks` | the requests of the callback URL; `<<l, i>>` is the `i`-th of login `l`, since a user may reload it |
| `codes`, `seen` | mockoidc's codes, and the subjects it has given the name of |
| `sessions` | the tokens that the callback's redirect hands to the client |
| `BeginLogin`, `FollowLogin` | `AuthHandler.Login` and the redirect with its cookies, which take effect when it arrives |
| `Authorize`, `AppleAuthorize`, `Decline` | the provider's page |
| `SendCallback`, `Reload` | GET, or POST of another site, with the cookies it may carry (`CarriesCookies`) |
| `RefuseCallback`, `Exchange`, `FailCallback`, `LoseExchange` | `CompleteLogin`: cookies checked, then the exchange, then the nonce of the id token |
| `Land` | the answer with its cleared cookies arrives |
| `ProviderOf`, `VerifyIDToken`, `VerifyAccessToken`, `Authenticate` | the row that a bearer token is taken to be of |

### UserRegistration

| TLA+ | Code |
|---|---|
| `users` | the table; a page's name is the id of the row that it creates |
| `session`, `skipProfile`, `pendingName` | localStorage |
| `pages` | `loadAuthState` of each page: `GET /user`, `POST /user`, and after a 409 `GET /user` again |
| `refreshing` | a refresh of the tokens that is under way |
| `signins`, `given` | the way through the provider, which gives a name away once |
| `ServeList`, `ServeCreate` | the server's side; a lost answer leaves the row (`Leave`) |
| `Hear*`, `Throw` | `ensureUserRegistered` with the answers; whatever fails, the session is removed |
| `StartRefresh`, `EndRefresh`, `DropRefresh` | `performTokenRefresh`, whose answer is stored whatever has happened meanwhile |
| `FailRefresh` | `loadAuthState` ends before it loads, since the refresh throws or leaves no usable session: the session is removed |
| `Rename`, `SignOut` | the page's menu |

A page reads the claims once, but each call sends the bearer that is stored by
then; so a page may ask for one account and create another's row.

### UnreadEvents

| TLA+ | Code |
|---|---|
| `rows`, `member` | `messages` with `unread_messages`, and `user_chats`, as far as they are one viewer's; a purged message is `"lapsed"` if he had not read it and `"gone"` if he had, which is one to the code |
| `notes` | the calls of `notifyChatUnread`, named for the message and the handler |
| `socket` | the connection in the hub, with what has been written to it |
| `heard` | the counts that `useChatSocket` has handed to the page |
| `Post`, `Read`, `Remove` | COMMIT of the handlers' transactions |
| `Purge` | a run of `purge_expired_messages` that deletes any of the messages in `Expiring`, the unread rows by cascade |
| `ReadMembers`, `ReadCounts`, `SendCounts` | the two queries and the write |
| `Skip` | a query that fails, or is cancelled with the request |
| `Connect`, `Drop`, `Deliver` | the connection comes, goes with what is in it, and brings an event |

### ChatsPage

| TLA+ | Code |
|---|---|
| `list`, `selected`, `shown`, `marked` | `chats` with `unread_count`, `selectedChatId`, `messages`, `markedRef` |
| `chatLoad`, `msgLoads`, `patches`, `sends` | calls of `loadChats`, `loadMessages`, `markMessageRead`, `createMessage` that have not come back |
| `chats`, `rows`, `due`, `events` | the server: membership, messages with unread rows, notifications to come, the socket |
| `Show` | `setSelectedChatId` with the effects it triggers, part of the callback that calls it |
| `Serve*`, `Hear*`, `Lose*` | the server answers; the answer is applied; it is lost |
| `Mark`, `ServePatch`, `FailPatch` | a read timer fires; its call; what its failure, or its refusal once the message is purged, loads anew |
| `Purge`, `Tick` | the purge on the server; the panel's timer, which drops what has expired |
| `HearUnread`, `HearAdded`, `HearRemoved` | the handlers of the three events |

The server is a shadow of `ChatStore` with one viewer; another member's read is
not told apart from the notification that it causes.

### DeviceKeys

| TLA+ | Code |
|---|---|
| `stored`, `session` | localStorage: the encrypted identity, the tokens |
| `wrapping` | IndexedDB: the wrapping key |
| `tabs`, `clearing` | is the tab signed in, and does it know; sign-outs that have yet to delete the wrapping key |
| `cache` | `chatKeyCache`: versions, each encrypted under the key of its time |
| `requests` | the in-flight tables of `session.ts`: `"first"` for lookups, `"again"` for the second look |
| `tasks` | the calls of `ensureIdentityKeys`, `restoreIdentityKeys`, `ensureChatKey` and `rotateChatKey` |
| `public`, `versions`, `uploads` | the server's identity key of the account, the versions of one chat, `PUT`s on their way |
| `Ask`, `Give`, `FindKey`, `MakeKey`, `PutKey` | `getStorageKey` and the promise that calls of a tab share |
| `Load`, `Create`, `Restore`, `Read`, `Send` | calls begin: the envelope is read synchronously |
| `*Opened`, `OpenLost`, `Seal`, `Upload` | `loadStoredIdentity`, `saveStoredIdentity`, the upload nobody awaits |
| `Share`, `LookAgain`, `TakeVersion`, `Rotate`, `Post`, `Keep`, `Peek` | the lookup of a version, the rotation when the newest does not open, the cache |
| `SignOut`, `FinishSignOut`, `Reload`, `SignIn` | `clearE2EEState` in two steps, a tab that goes away, a sign-in |

An identity is a name: what was wrapped for one opens with no other. The
backup is the identity the account had on an older device. Identities and keys
that nothing refers to any more are used again, so neither bound limits the
history; `Calls` does.

### Variables for checking

`disturbed`, `quiet`, `expected`, `switched`, `crossed`, `latest`, `stale`,
`mishaps`, `missed`, `raced` and the field `calm` are not in the code. They
remember that something came between which the code does not promise to
survive; no guard reads them, but for the bound of one loss per behaviour in
`ChatsPage` and for the part of `calm` that says whether a tab noticed a sign-out
while it loaded. What they leave out is listed in section 5.

### Proof modules

`ChatStoreProofs`, `RateLimiterProofs`, `HubProofs`, `OAuthLoginProofs`,
`UserRegistrationProofs`, `UnreadEventsProofs`, `ChatsPageProofs`,
`DeviceKeysProofs`: see section 6.

## 4. Runs

| Run | Checks | Bounds | States |
|---|---|---|---|
| `store_safety` | `StoreInv`, `MemberHoldsEveryKey`, `StaysReadable`, `PurgeSparesNewest`, `FollowsRoster` | 3 users, 1 chat, 3 keys, 1 message, 2 requests, 2 start times | 2.3 M |
| `store_liveness` | `RequestsEnd`, `ExpiredMessagesGo`, `IdleVersionsGo` | 2 users, 1 chat, 2 keys, 1 message, 2 requests, 2 start times | 80 k |
| `claim_removal`, `claim_readable` | `NothingForStrangers`, `MessagesAreReadable`, each violated | 3 users, 2 keys, 2 messages, 3 requests | stop at the first violation |
| `limiter` | `LimiterInv`, `WithinBurst`, `RefusesOnlyTheSpent`, `RetryAfterIsHonest` | 2 keys, 2 requests, 2 ticks a token, burst 2, lag 1, clock to 12 | 2.6 M |
| `hub` | `HubInv`, `WritesToRegistered`, `NotificationsEnd`, `GoneAreClosed` | 1 user, 2 connections, 2 notifications | 63 k |
| `claim_event` | `EventReachesAll`, violated | 2 users, 3 connections, 2 notifications | stops at the first violation |
| `login` | `LoginTypeOK`, `UndisturbedLoginSucceeds`, `OneTokenPerLogin`, `TokensResolve` | 2 logins, each callback requested twice, 5 rows of 3 issuers | 1.2 M |
| `registration` | `UsersTypeOK`, `PagesAgree`, `FailuresAreSwitches`, `NamesAreOwn`, `ProfileAsChosen`, `PageLoadsEnd` | 2 pages, 2 sign-ins, 3 accounts, one of them named in its token | 0.9 M |
| `events` | `EventTypeOK`, `CountsCatchUp`, `CountsArrive` | 2 chats with a message each, 2 events in the connection, 1 message that may be purged | 1.1 M |
| `page` | `PageTypeOK`, `PanelIsOfOpenChat`, `RemovedStaysOut`, `OpenChatIsComplete` | 2 chats, two messages of others in one and the viewer's in the other, 1 event in the connection, 2 calls of loadMessages, 1 of loadChats, 1 message that may be purged, 1 mishap | 6.8 M |
| `keys` | `DeviceTypeOK`, `IdentityOpens`, `KeyIsKnown`, `UndisturbedLookupsSucceed` | 2 tabs, 2 calls at once and 4 in all, 2 identities and the backup, 2 wrapping keys, 2 versions, 2 uploads | 3.5 M |

In the store the constants bound the instance: `Req` the requests in flight at
once, `Key` and `Msg` the rows that exist at once (ids of deleted rows are used
again, so histories are not bounded), `MaxTime` the distinct start times. Two requests
and the purge are three concurrent actors; every hazard of the store is a race
of two of them, and the theorems of section 6 cover any number.
Three versions are the fewest that let the purge delete one, keep one and have
another appear meanwhile. Versions of one time are ordered by their ids, which
are not symmetric. A rotation keeps its message, of which there is one, so two
rotations do not overlap in the run, and versions become visible out of order
only by the ids of versions of one time. That suffices for a purge that mistakes the order to be
noticed; `NewestSpared` (section 6) covers rotations that overlap. Users, messages and request slots are
symmetric; no liveness property is checked under symmetry.

The limiter's clock runs to 12: a burst takes 4 ticks to refill, a bucket is
dropped after 6, and a sweep comes every 2, so that a key can spend its burst,
be dropped and spend it again. Two requests are enough for one to overtake the
other. The limiter run satisfies `EvictionIsLate` (section 6) with equality.
A burst refills in less than the minimum idle time there, so the run does not
reach the other case of the age at which a bucket is dropped, a refill longer than that;
`InOrderBound` (section 6) covers it for requests served in the order of their times.

In the hub, two connections of one user let a notification meet two writers
while a third goroutine asks for the write lock. Connections and
notifications start over when they end, so histories are not bounded.

Two logins overlap in every way, and a callback that is requested twice meets
its own code again. The rows are those of the e2e suite and Google, two of them
with one issuer, and one that is set up wrongly for its issuer. `Https` is TRUE,
as in every deployment with Apple. Two pages race for one row, and the second
sign-in changes the session under them; of the accounts, one has its name in the
token, the others are given theirs once. Two messages make four notifications,
so that three may be between their queries when the fourth sends.
One of the two, `Expiring`, may be purged at any time.

In `page`, a second answer of loadMessages is what another can overtake, and
one mishap shows that what one property allows leaves the others in force. The
second message of others lets a count that was meant for the first hide it; the
first may be purged. By
`MCBound`, a constraint, what has gone wrong twice is not followed, the second
message comes after the first and where nothing has gone wrong and the viewer has
sent nothing, and the first is purged where the viewer has sent nothing, is still in
the other chat, and nothing has gone wrong but another chat opened. In `keys`, the
fourth call may be a read after a send after a load in one tab with the other
tab signing out. `OnlyUntilRaced`, a constraint, cuts behaviours once two tabs
have overwritten each other's keys: of these nothing is claimed. Tabs and
places for calls are symmetric.

`CHECK_DEADLOCK FALSE` is said of `login`, `registration`, `events` and `page`: their
logins, pages and messages are used up, after which the system may stop.

## 5. What the runs show

A removal that was checked against the admin row and commits several
statements later never leaves a chat without its admin, and membership follows
the roster. No interleaving leaves a member without a wrap of a stored version.
The purge never deletes the newest version, although versions commit between
its scan and its COMMIT.

The limiter never grants a key more than its burst, its rate and the lag
allow, although times arrive out of order and buckets are dropped and made
again; it refuses only who has spent the burst, and who waits as long as
Retry-After says is admitted. The hub's registry and count follow the
connections exactly, and no notification writes to a connection that has been
unregistered. Nobody waits for ever for the hub's lock as long as no peer stays
stalled for ever: that condition is all there is between one client that does
not read and the whole hub, since no write has a deadline.

A login that no other login of the browser overlaps with succeeds, also by a
POST from another site; a code gives one token however often its callback is
requested; a bearer token is taken as of the row it was obtained from although
two rows share an issuer. However pages race to register, an account has one
row, and losing the race is no failure. A user's name is his own, and a name
that Apple gives away once reaches the row. The last unread counts a viewer is
given are the server's, for all his chats, but for messages that were purged unread
since, and he gets them again and again. The
panel ends up with the messages of the open chat, all that are stored. The stored
identity opens, the server hands out its public key, and a send or a read that
nothing comes between finds a key that opens.

Three sets of statements of the docs are not kept:

- `claim_removal`: a rotation whose member list was read before a removal and
  whose commit comes after it leaves a wrap for the removed user
  (`service/e2ee.go` 212; `README.md` 209, `repository/chat.go` 39). The removed
  user cannot fetch it: `ListKeyWraps` checks membership. Likewise
  a message whose recipients were read before a removal and
  whose commit comes after it leaves an unread row (`message.go` 82;
  `README.md` 217). `ListUnreadChatsForUser` counts it without a look at the
  membership, and `MarkRead` refuses to delete it; it goes with the message.
- `claim_readable`: the purge deletes a superseded version no stored message
  names while a message that names it is on its way, for instance the older of
  two concurrent rotations (migration 9, line 21; `README.md` 271). `StaysReadable`
  is what does hold: a message the purge saw and kept keeps its version.
- `claim_event`: `notify` holds the read lock, which notifications share, and
  the heartbeat ack holds none, so two of them may write to one connection at
  once. When gorilla/websocket notices, the notification ends before it has
  reached the user's other connections (`hub.go` 85; `README.md` 217), or, if it
  was the ack, the process does.

### What is only promised undisturbed

The properties of the client and of logins have hypotheses, and each hypothesis
is there because TLC finds a behaviour without it. No doc says that these are
excluded, so no run claims a violation:

- Two logins in one browser share the cookies; the second one's redirect makes
  the first one's callback fail (`disturbed`).
- A refresh that is answered after a sign-out brings the session back (`crossed`),
  and a session that changes under a page makes it fail, or register the other
  account (`switched`).
- A notification whose counts are older may be sent last, and a query that was
  cancelled sends nothing (`stale`): the counts stay wrong until the next event.
- The purge deletes unread rows with their messages and tells nobody (migration 9,
  lines 12-18; migration 4, line 2): the counts a client was given stay too high until the next
  event. `CountsCatchUp` says that they are too high by those messages and by
  nothing else (`UpToPurges`), and exact if nothing was purged since they were
  counted.
- An answer of loadMessages or createMessage fills the panel whatever chat is
  open by then (`ChatsPage.tsx` 90, 260; `"switched"`); one that overtakes another
  leaves out a message or brings back an unread mark that was already read
  (`ChatsPage.tsx` 90, 167; `"unseen"`); a loadChats answer from before a removal
  puts the chat back (`"outdated"`).
- An event has the open chat loaded again only if its count is not the list's
  (`ChatsPage.tsx` 167). If the viewer reads a message, leaves the chat and
  returns while the list still counts that message, the next message in it makes
  the event's count the same as the list's, and is not shown until something else
  has the chat loaded (`Overcounted`, part of `"unseen"`). It takes two messages of
  others; the proof of `OpenChatFills` led to it. A purge does the same: if the list
  counts an unread message of the open chat that is purged, the next message's count may
  be equal to it (`Counted`, part of `"unseen"`). A purge of other messages hides nothing.
- Two tabs that create the first wrapping key at once, or a sign-out that deletes
  it under a save, lose the identity, because the pending promise is one tab's
  (`localCrypto.ts` 74-99; `raced`).
- An upload that is lost or overtaken is not repeated until the next sign-in, and
  a page that loads while another tab restores a backup uploads the older key
  (`session.ts` 50; `missed`). A comment there (47-49) names the creation of a chat as the
  next attempt, but that uploads only an identity it has just made.
- A chat key cached under a wrapping key that is gone fails the reads of a tab
  whose session another tab has ended (`storage.ts` 157).
- The second look for a version may itself be shared with an older one
  (`session.ts` 161): a read needs two rotations under it to fail.

### Fairness

`WF` of each request's steps: its goroutine runs and its statements return.
`SF` of a removal's steps: it may wait for a row lock that others take in
between, and PostgreSQL serves the waiters in turn. `WF` of `Expire`: time
passes. `WF` of `ScanPurge`: pg_cron starts the job every minute. `SF` of
`CommitPurge`: a run may fail, not every run. Nothing makes a client send a
request, and nothing forces a cancellation, so `RequestsEnd` does not rest on
`Abort`. `ExpiredMessagesGo` and `IdleVersionsGo` hold although posts and
rotations may go on forever.

In the hub, `SF` of a connection's and of a notification's steps: goroutines
run, a goroutine that asks for the lock gets it though others keep asking
(`sync.Mutex` serves a waiter of a millisecond first, and an announced writer
keeps new readers out), and a write completes if the peer reads time and
again. `WF` of `ReadError` once the peer is gone: the read fails. `WF` of
`Resume` or `Leave` for a stalled peer: no code sees to it, TCP does after
minutes or hours; without it both properties fail at the first stalled peer.
No peer is made to connect, send or leave.

In `UserFairSpec`, `WF` of the server's answers and of what a page does with
them. In `EventFairSpec`, `WF` of `Connect` (the socket's retry timer), of `Deliver`
and of the two queries; `SendCounts` gets `SF` because of the bound `InFlight`, which
the code does not have. Nobody is made to post, to read or to sign in. The
other modules state no liveness: what should end there ends with an answer, and
an answer may be lost.

## 6. Proofs

`ChatStoreProofs` proves for all constants that satisfy the two assumptions
(`KeysAreOrdered`: key ids are naturals, since UUIDs are ordered;
`TimeIsBounded`):

| Theorem | States |
|---|---|
| `StoreInvariant` | `Spec => []StoreInv` |
| `TypeCorrect` | `Spec => []TypeOK` |
| `MembersHoldKeys` | `Spec => []MemberHoldsEveryKey` |
| `NewestSpared` | `Spec => PurgeSparesNewest` |
| `KeptReadable` | `Spec => StaysReadable` |
| `RosterRefinement` | `Spec => FollowsRoster` |

None of the properties is inductive. `StoreInv` adds what they rest on:

- `VersionsInv`: ids are unique, versions are finitely many, a version's chat
  exists, the purge holds only versions that are stored. Without unique ids a
  purge of one version could take another's wraps.
- `RotationsInv`: past its check, a rotation's wraps cover the members now,
  because members only leave.
- `RemovalsInv`: a chat has one admin, a member; a removal is made by that
  admin for another user, at most one removal per member is past its first
  DELETE, and what it will delete is the target's.
- `PurgeInv`: each version the purge is to delete leaves a newer one that stays,
  and no message it keeps names any of them. The step that establishes it,
  `ScanPurge`, needs that finitely many versions have a newest above each
  superseded one (`NewestAbove`, from the well-foundedness of strict inclusion
  on finite sets).

`KeyTableWriters` and `RemovalWriters` sort the steps: four actions write the
tables that the invariants are about, so most lemmas have five cases instead of
twenty-five.

`RateLimiterProofs` proves, for every rate, burst, lag and set of keys that
satisfy `LimitIsEnabled` and `TimesAreNatural`, and under the hypothesis
`EvictionIsLate`:

| Theorem | States |
|---|---|
| `LimiterInvariant` | `Spec => []LimiterInv` |
| `BurstBound` | `Spec => []WithinBurst` |
| `InOrderBound` | if `Lag = 0`, instead of the hypothesis, `Spec => []WithinBurst` |
| `RefusalsAreEarned` | `Spec => RefusesOnlyTheSpent` |
| `RetryHonest` | `Spec => RetryAfterIsHonest` |

`EvictionIsLate` (`Cap + 2 * Lag <= Ttl + 1`) asks that a bucket can refill in the
ttl with two lags to spare; it holds of every limit whose burst is earned in
well under ten minutes. Where the refill takes longer than ten minutes, the ttl is the refill itself, and
the hypothesis says `Lag = 0`: a request that another overtakes could find its bucket
dropped, and made anew, up to two lags before it was full. `InOrderBound` is
what is left then. `LimiterInv` adds to the types that the tokens a bucket
lacks by now and the exact meter differ by at most `Lag` (`MeterInv`), which
needs that a dropped bucket's meter is empty (`DroppedIsEmpty`), and that the
bucket as it stands keeps every promise (`PromisesInv`).

`HubProofs` proves, for all users, connections (finitely many open at once) and
notifications:

| Theorem | States |
|---|---|
| `HubInvariant` | `Spec => []HubInv` |
| `WritesAreRegistered` | `Spec => []WritesToRegistered` |

`RegistryIsExact` ties the registry and the count to where the goroutines are;
it holds only together with the shape of the lock (`LockInv`), since the
registry is changed by the holder of the write lock alone (`RegistryWriters`).
`WritesToRegistered` then follows because that holder waits for the readers,
and readers that waited for it start from what it leaves.

`OAuthLoginProofs` proves, for any logins, number of times a callback URL is
requested (`Sends`) and rows that satisfy `RowsAreTyped`,
`ClientIDsDiffer` and `GoogleIsOneRow`:

| Theorem | States |
|---|---|
| `LoginTypesCorrect` | `LoginSpec => []LoginTypeOK` |
| `OneTokenEach` | `LoginSpec => []OneTokenPerLogin` |
| `TokensResolveToTheirRow` | `LoginSpec => []TokensResolve` |
| `LoginsSucceed` | if every configured row that fits its issuer brings its cookies along, `LoginSpec => []UndisturbedLoginSucceeds` |

`LoginInv` adds where a token can come from. While a code is stored nobody has
a token for it, and the exchange removes it (`CodesInv`); hence a token is the
only one of its login, with the subject granted to it and issuer and audience of
the row that the login began with (`TokensInv`), and so is every session
(`SessionsInv`). The cookie plays no part: one token per login holds whatever
the browser does. That tokens resolve needs `ClientIDsDiffer`, because rows may
share an issuer (`ProviderOfOwn`), and `GoogleIsOneRow` for access tokens that
only Google's userinfo endpoint can vouch for.

`LoginsSucceed` is about the cookies, and rests on `FlowInv`: the two cookies are
set, sent and cleared together, and an answer clears those of its own login only
(`CookiesInv`); of the requests of one callback URL the last is heard
(`RequestsInv`); a login whose answer may still clear cookies is not over, and one
that is over has left none that a later request of its callback could bring along
(`StaleInv`); an undisturbed login has the cookies to itself while it is under way,
its code until it has its token, and a session in the end (`UndisturbedInv`).
The theorem's hypothesis holds of every set of rows on https. On plain http a
browser keeps the cookies from the POST of another site, so a row with `form_post`
at such a site signs nobody in there. `NoTokenIsNone` says that no token is the
mark for the lack of one.

`UserRegistrationProofs` proves, for any accounts, pages and sign-ins that satisfy
`AccountsAreTyped`:

| Theorem | States |
|---|---|
| `UsersTypesCorrect` | `UserSpec => []UsersTypeOK` |
| `RegistrationIsUnique` | `UserSpec => []PagesAgree` |
| `OnlySwitchedPagesFail` | `UserSpec => []FailuresAreSwitches` |
| `NamesAreNotMixed` | `UserSpec => []NamesAreOwn` |
| `ProfileIsTheChosenOne` | `UserSpec => ProfileAsChosen` |

`UsersInv` has one part per place where an account's data wait: the storage
(`StashInv`: the stored name is of the stored session, unless a refresh crossed),
a page that loads (`LoadInv`: the session is the one it loaded, unless it was
switched), the row it has found or been beaten to (`RowInv`) and the name it will
send (`PageNameInv`). That a page fails only if it was switched rests on the last
but one: after a 409 the row is there, rows never change hands (`RowsStay`), and
so the one retry finds it. The proof follows the pages: a step moves one page and
may switch the others (`KeptPages`, `OtherPages`).

`UnreadEventsProofs` proves, for any chats, finitely many messages and any number
of events in the connection (`MessagesAreTyped`):

| Theorem | States |
|---|---|
| `EventTypesCorrect` | `EventSpec => []EventTypeOK` |
| `CountsDoCatchUp` | `EventSpec => []CountsCatchUp` |

`CountsCatchUp` says nothing while a notification is under way, so `EventsInv`
says what is due to whom: counts that know of `k` changes are right up to
messages that were purged unread since, but for
chats that will be counted again (`Recounted`), and this is kept by the counts that
a handler holds (`CountedInv`) and by the last ones in the connection (`LastInv`).
Counts that know of every change are the tables' own (`Snapshot`), which is what
makes the last of several overlapping notifications the right one.

`ChatsPageProofs` proves, for any chats, finitely many messages and any number of
events and calls under way (`PageIsTyped`):

| Theorem | States |
|---|---|
| `PageTypesCorrect` | `Spec => []PageTypeOK` |
| `PanelFollowsOpenChat` | `Spec => []PanelIsOfOpenChat` |
| `RemovedChatsStayOut` | `Spec => []RemovedStaysOut` |
| `OpenChatFills` | `Spec => []OpenChatIsComplete` |

The first two parts of `PageInv` say of every call what they need of its answer
(`LoadsInv`, `PanelInv`); the third that a chat is neither in the list nor in an
answer of loadChats once the page has heard that it is gone (`RemovedInv`).
`OpenChatFills` needs an argument of its own, `CompleteInv`. Take as in view what
the panel will have when the last call of loadMessages is heard. Then the list
counts no message of the open chat that is not in view, and every message that is still stored and
not in view is unread with counts still to come, or the viewer's own with
its answer still to come (`InStep`). When the last counts arrive, they count at
least what is unread (`CountsInv`) and, if they are no news, at most what is in
view, and so nothing is missing (`NoNewsInStep`). A purge takes messages out of
view; the list then counts too many only if it counted one of them, which is
excused (`Counted`, `OpenPurge`).
`StoredInv` says that nothing is shown that was never stored.

`DeviceKeysProofs` proves, for any number of tabs, calls, identities, keys and
versions (`DeviceIsTyped`):

| Theorem | States |
|---|---|
| `DeviceTypesCorrect` | `DeviceSpec => []DeviceTypeOK` |
| `StoredIdentityOpens` | `DeviceSpec => []IdentityOpens` |
| `UploadedKeyIsKnown` | `DeviceSpec => []KeyIsKnown` |
| `CalmLookupsSucceed` | `DeviceSpec => []UndisturbedLookupsSucceed` |

`DeviceInv` says of each call by itself what it has at its stage (`Formed`), of each
call and what it runs on what holds while nothing has come between (`Sound`), and
of calls with each other that a tab has one promise of the storage key (`Waits`)
and loads its identity once (`LoadInv`). A call that has its storage key has the
one in IndexedDB until tabs have overwritten each other's (`KeyedCall`), and a
tab's cached chat keys are under it (`TabInv`); that gives `IdentityOpens` when a
save ends and `OpeningCall`, from which the lookups follow. Uploads arrive in
order, so the last one under way decides what the server will have (`UploadInv`).

Each of these invariants was checked by TLC before it was proved. `TypeCorrect` of
the store follows from `StoreInvariant`; no run checks it apart from that.

Left to TLC: liveness and `ENABLED`, which this prover does not do, and the claims
of the runs that expect a violation.

## 7. Not modelled

- In the store: chat names, `updated_at` and the list queries (no property
  depends on them), `ChatService.Create` with `ChatRepository.Create` (no handler
  calls it), the deletion of accounts (no handler does it), and the contents of
  envelopes beyond the key id. Wrong input that the services refuse before any
  check of state is left out.
- Of the chat socket: the retry and heartbeat timers, the back-off and the
  unmount. The rest of the client sees a connection that comes and goes.
- Of the auth session: expiry times and the timer of the refresh loop; a token
  that has expired is a refused, hence lost, call.
- Of the chats page: chats created on it, clicks on notifications, browser
  notifications, the order of the list, and decryption. A message expires when it
  is purged: in the code it is kept for up to a minute more, in which the server
  still answers and counts it and the panel may already have dropped it.
- Of bearer tokens: an answer of Google's tokeninfo that names another issuer, which
  `VerifyAccessToken` would take to be of a row named "oidc" (`service/auth.go` 364-367);
  Google's endpoint gives no such answer.
- Of the device's keys: a second chat (lookups of different chats share nothing
  but the storage key), the restore dialog's prompt about a conflict, and the steps
  within `createWrappedChatKey`, which sees the members and posts in one step of the
  model; `ChatStore` has these steps.
- Of users: search and `GET /user/{id}`, which change nothing.
- Scoped ids, request origin, client address, configuration: sequential parsing
  of strings, which unit tests cover and a model would transliterate.
- HTTP plumbing, metrics, cryptographic primitives, rendering, maintenance
  scripts and Terraform: nothing in them keeps state that others share.
