---------------------------- MODULE RateLimiter ----------------------------
(***************************************************************************)
(* The rate limiter: one token bucket per key, under one mutex.            *)
(*                                                                         *)
(* allow reads the time first and takes the mutex afterwards, so requests  *)
(* are served out of the order of their times.  What happens under the     *)
(* mutex, the sweep included, is one step.                                 *)
(*                                                                         *)
(* A bucket earns one unit in one tick of the clock and a request costs    *)
(* Cost units: the tick is as short as one likes, Cost / tick is the       *)
(* configured rate.  Tokens are exact where the code has floats.           *)
(***************************************************************************)
EXTENDS Integers

CONSTANTS
    Key,            \* who is limited: a client address or a user
    Req,            \* slots for requests between time.Now() and the mutex
    Cost,           \* ticks that earn one token: 60 s / RequestsPerMinute
    Cap,            \* ticks that earn a full bucket: Burst tokens
    MinIdle,        \* rateLimitMinIdleTTL
    SweepInterval,  \* rateLimitSweepInterval
    Lag,            \* bound on the ticks from time.Now() to the mutex
    MaxClock        \* bound on the clock

\* enabled(): both limits are positive, or there is no limiter; Burst >= 1.
ASSUME LimitIsEnabled == Cost \in Nat \ {0} /\ Cap \in Nat /\ Cap >= Cost
ASSUME TimesAreNatural ==
    MinIdle \in Nat /\ SweepInterval \in Nat \ {0} /\ Lag \in Nat /\ MaxClock \in Nat

VARIABLES
    clock,      \* time.Now()
    requests,   \* requests that have read the time and wait for the mutex
    buckets,    \* the map of buckets: a function on the keys that have one
    lastSweep,
    spent,      \* not in the code: what an exact meter shows, which gains Cost
                \* with each admitted request and loses one unit in each tick
    promises    \* not in the code: the Retry-After answers since the key's last
                \* admitted request, as the instants they stand for

vars == <<clock, requests, buckets, lastSweep, spent, promises>>

Request == [id : Req, key : Key, at : Nat]
Bucket  == [tokens : 0 .. Cap, updated : Nat, lastSeen : Nat]
Promise == [key : Key, at : Nat]

-----------------------------------------------------------------------------
Init ==
    /\ clock = 0
    /\ requests = {}
    /\ buckets = [k \in {} |-> {}]
    /\ lastSweep = 0
    /\ spent = [k \in Key |-> 0]
    /\ promises = {}

\* A goroutine is not held up for longer than Lag.
Tick ==
    /\ clock < MaxClock
    /\ \A q \in requests : clock - q.at < Lag
    /\ clock' = clock + 1
    /\ spent' = [k \in Key |-> IF spent[k] > 0 THEN spent[k] - 1 ELSE 0]
    /\ UNCHANGED <<requests, buckets, lastSweep, promises>>

Arrive(r, k) ==
    /\ \A q \in requests : q.id # r
    /\ requests' = requests \cup {[id |-> r, key |-> k, at |-> clock]}
    /\ UNCHANGED <<clock, buckets, lastSweep, spent, promises>>

-----------------------------------------------------------------------------
(* allow, under the mutex, for a request that read the time n.             *)

\* The time a bucket must be idle before it is dropped.
Ttl == IF Cap > MinIdle THEN Cap ELSE MinIdle

Sweeps(n) == n - lastSweep >= SweepInterval

\* The keys whose buckets the sweep leaves.
Kept(n) ==
    {k \in DOMAIN buckets : Sweeps(n) => n - buckets[k].lastSeen <= Ttl}

\* The key's bucket after the sweep, a full one if there is none.
Lookup(q) ==
    IF q.key \in Kept(q.at)
    THEN buckets[q.key]
    ELSE [tokens |-> Cap, updated |-> q.at, lastSeen |-> q.at]

\* Mutant: min(burst, ...) is missing.
LevelUncapped(b, n) ==
    IF n > b.updated THEN b.tokens + n - b.updated ELSE b.tokens

\* Mutant: only whole tokens are earned, and the rest of the time is forgotten.
LevelInWholeTokens(b, n) ==
    LET earned == Cost * ((n - b.updated) \div Cost)
    IN  IF n > b.updated
        THEN IF b.tokens + earned < Cap THEN b.tokens + earned ELSE Cap
        ELSE b.tokens

\* The bucket's tokens at time n; a time before its last refill earns nothing.
Level(b, n) ==
    LET earned == b.tokens + n - b.updated
    IN  IF n <= b.updated THEN b.tokens ELSE IF earned < Cap THEN earned ELSE Cap

\* Mutant: the bucket takes over the request's time also when it goes back.
RequestTime(b, n) == n

Refilled(b, n) == IF n > b.updated THEN n ELSE b.updated

\* The sweep, and the key's bucket with what is left in it.
Store(q, tokens) ==
    /\ buckets' = [k \in Kept(q.at) \cup {q.key} |->
           IF k = q.key
           THEN [tokens |-> tokens, updated |-> Refilled(Lookup(q), q.at), lastSeen |-> q.at]
           ELSE buckets[k]]
    /\ lastSweep' = IF Sweeps(q.at) THEN q.at ELSE lastSweep
    /\ requests' = requests \ {q}
    /\ UNCHANGED clock

Admit(q) ==
    LET level == Level(Lookup(q), q.at)
    IN  /\ level >= Cost
        /\ Store(q, level - Cost)
        /\ spent' = [spent EXCEPT ![q.key] = @ + Cost]
        /\ promises' = {p \in promises : p.key # q.key}

\* 429 with Retry-After: the time in which the missing part of a token is earned.
Refuse(q) ==
    LET level == Level(Lookup(q), q.at)
    IN  /\ level < Cost
        /\ Store(q, level)
        /\ promises' = promises \cup {[key |-> q.key, at |-> clock + Cost - level]}
        /\ UNCHANGED spent

Next ==
    \/ Tick
    \/ \E r \in Req, k \in Key : Arrive(r, k)
    \/ \E q \in requests : Admit(q) \/ Refuse(q)

Spec == Init /\ [][Next]_vars

-----------------------------------------------------------------------------
(* Properties.                                                             *)

\* Buckets hold between none and Burst tokens, no time lies in the future, and a
\* request in flight has read the time at most Lag ago.
TypeOK ==
    /\ clock \in Nat
    /\ requests \subseteq Request
    /\ DOMAIN buckets \subseteq Key
    /\ buckets \in [DOMAIN buckets -> Bucket]
    /\ lastSweep \in Nat
    /\ spent \in [Key -> Nat]
    /\ promises \subseteq Promise
    /\ \A q \in requests : q.at <= clock /\ clock <= q.at + Lag
    /\ \A k \in DOMAIN buckets :
         /\ buckets[k].updated <= clock
         /\ buckets[k].lastSeen <= buckets[k].updated
         /\ buckets[k].updated <= buckets[k].lastSeen + Lag

\* In any stretch of time a key is granted no more than Burst tokens, what is
\* earned in that time and what is earned in Lag: requests that read the time
\* before others and are served after them, and buckets that are dropped and
\* made again, gain a key nothing else.
WithinBurst == \A k \in Key : spent[k] <= Cap + Lag

\* A key is refused only if it has spent its burst but for what Lag can hide:
\* stale times and dropped buckets cost nobody a token.
RefusesOnlyTheSpent ==
    [][\A q \in requests : Refuse(q) => spent[q.key] + Cost > Cap - Lag]_vars

\* Retry-After is honest: a request made that much later, or later still, is
\* admitted unless another of the key's requests was admitted in between.
RetryAfterIsHonest ==
    [][\A q \in requests, p \in promises :
          Refuse(q) /\ p.key = q.key => q.at < p.at]_vars

-----------------------------------------------------------------------------
(* What the properties rest on.                                            *)

\* The time that dropping a bucket leaves for the meter to run empty.  It holds of
\* every limit whose bucket fills in less than MinIdle by two lags.  Without it a
\* bucket may be dropped that is not full yet, because lastSeen may lie before the
\* last refill, by as much as the request that set it was late.
EvictionIsLate == Cap + 2 * Lag <= Ttl + 1

\* The bucket and the meter tell the same, up to Lag, and the meter is empty when
\* there is no bucket.
MeterInv ==
    /\ \A k \in DOMAIN buckets :
         LET missing == Cap - buckets[k].tokens - (clock - buckets[k].updated)
         IN  /\ missing <= spent[k]
             /\ spent[k] <= missing + Lag \/ spent[k] = 0
    /\ \A k \in Key \ DOMAIN buckets : spent[k] = 0

\* Every promise is kept by the bucket as it stands.
PromisesInv ==
    \A p \in promises : p.key \in DOMAIN buckets =>
        LET b == buckets[p.key]
        IN  b.tokens >= Cost \/ b.tokens + p.at - b.updated >= Cost

\* The inductive invariant of the proofs.
LimiterInv == TypeOK /\ MeterInv /\ PromisesInv

=============================================================================
