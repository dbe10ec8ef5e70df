------------------------- MODULE RateLimiterProofs -------------------------
(***************************************************************************)
(* Proofs about RateLimiter, for every rate, burst, lag and set of keys    *)
(* for which buckets are dropped late enough (EvictionIsLate).             *)
(***************************************************************************)
EXTENDS RateLimiter, TLAPS

\* What a bucket holds when a request that read the time n is served.
LEMMA LevelFacts ==
    ASSUME NEW b \in Bucket, NEW n \in Nat
    PROVE  /\ Level(b, n) \in 0 .. Cap
           /\ Refilled(b, n) \in Nat /\ n <= Refilled(b, n) /\ b.updated <= Refilled(b, n)
           /\ Refilled(b, n) \in {n, b.updated}
           /\ \/ Level(b, n) - Refilled(b, n) = b.tokens - b.updated
              \/ /\ Level(b, n) = Cap /\ Refilled(b, n) = n
                 /\ b.tokens + n - b.updated >= Cap
BY LimitIsEnabled DEF Bucket, Level, Refilled

\* A bucket that the sweep drops belongs to a key whose meter is empty.
LEMMA DroppedIsEmpty ==
    ASSUME LimiterInv, EvictionIsLate, NEW q \in requests,
           NEW k \in DOMAIN buckets, k \notin Kept(q.at)
    PROVE  spent[k] = 0
<1>1. /\ q.at \in Nat /\ q.at <= clock /\ clock \in Nat /\ Lag \in Nat /\ Cap \in Nat
      /\ Ttl \in Nat /\ k \in Key /\ spent[k] \in Nat
  BY LimitIsEnabled, TimesAreNatural DEF LimiterInv, TypeOK, Request, Ttl
<1>2. /\ buckets[k].tokens \in 0 .. Cap /\ buckets[k].updated \in Nat
      /\ buckets[k].lastSeen \in Nat /\ buckets[k].updated <= buckets[k].lastSeen + Lag
  BY DEF LimiterInv, TypeOK, Bucket
<1>3. q.at - buckets[k].lastSeen > Ttl
  BY <1>1, <1>2 DEF Kept
<1>4. \/ spent[k] <= Cap - buckets[k].tokens - (clock - buckets[k].updated) + Lag
      \/ spent[k] = 0
  BY DEF LimiterInv, MeterInv
<1>5. clock - buckets[k].updated >= Cap + Lag
  BY <1>1, <1>2, <1>3, EvictionIsLate DEF EvictionIsLate
<1>6. PICK m \in Int : m = Cap - buckets[k].tokens - (clock - buckets[k].updated) + Lag
  BY <1>1, <1>2
<1>7. m <= 0
  BY <1>1, <1>2, <1>5, <1>6
<1>8. spent[k] \in Nat /\ (spent[k] <= m \/ spent[k] = 0)
  BY <1>1, <1>4, <1>6
<1> QED
  BY <1>7, <1>8

\* The bucket that a request finds, or gets, agrees with the meter of its key.
LEMMA LookupFacts ==
    ASSUME LimiterInv, EvictionIsLate, NEW q \in requests, NEW b, b = Lookup(q)
    PROVE  /\ b \in Bucket /\ b.updated <= clock
           /\ Cap - b.tokens - (clock - b.updated) <= spent[q.key]
           /\ \/ spent[q.key] <= Cap - b.tokens - (clock - b.updated) + Lag
              \/ spent[q.key] = 0
           /\ \A p \in promises : p.key = q.key =>
                b.tokens >= Cost \/ b.tokens + p.at - b.updated >= Cost
<1>1. /\ q.key \in Key /\ q.at \in Nat /\ q.at <= clock /\ clock \in Nat
      /\ clock <= q.at + Lag /\ spent[q.key] \in Nat
  BY DEF LimiterInv, TypeOK, Request
<1>2. CASE q.key \in Kept(q.at)
  <2>1. b = buckets[q.key] /\ q.key \in DOMAIN buckets
    BY <1>2 DEF Lookup, Kept
  <2> QED
    BY <2>1 DEF LimiterInv, TypeOK, MeterInv, PromisesInv
<1>3. CASE q.key \notin Kept(q.at)
  <2>1. b.tokens = Cap /\ b.updated = q.at /\ b.lastSeen = q.at /\ b \in Bucket
    BY <1>1, <1>3, LimitIsEnabled DEF Lookup, Bucket
  <2>2. spent[q.key] = 0
    BY <1>1, <1>3, DroppedIsEmpty DEF LimiterInv, MeterInv
  <2>3. \A p \in promises : p.at \in Nat
    BY DEF LimiterInv, TypeOK, Promise
  <2> QED
    BY <1>1, <2>1, <2>2, <2>3, LimitIsEnabled, TimesAreNatural
<1> QED
  BY <1>2, <1>3

-----------------------------------------------------------------------------
\* The initial state satisfies the inductive invariant.
LEMMA InitInv == Init => LimiterInv
BY TimesAreNatural DEF Init, LimiterInv, TypeOK, MeterInv, PromisesInv

\* Time passes for the buckets and the meter alike.
LEMMA TickInv == LimiterInv /\ Tick => LimiterInv'
<1> SUFFICES ASSUME LimiterInv, Tick PROVE LimiterInv'
  OBVIOUS
<1> USE LimitIsEnabled, TimesAreNatural
<1>1. TypeOK'
  BY DEF LimiterInv, TypeOK, Tick, Request, Bucket
<1>2. MeterInv'
  <2>1. /\ clock \in Nat /\ clock' = clock + 1 /\ buckets' = buckets
        /\ spent' = [k \in Key |-> IF spent[k] > 0 THEN spent[k] - 1 ELSE 0]
    BY DEF Tick, LimiterInv, TypeOK
  <2>2. ASSUME NEW k \in DOMAIN buckets
        PROVE  LET missing == Cap - buckets[k].tokens - (clock' - buckets[k].updated)
               IN  missing <= spent'[k] /\ (spent'[k] <= missing + Lag \/ spent'[k] = 0)
    <3>1. /\ k \in Key /\ spent[k] \in Nat /\ buckets[k].tokens \in Nat
          /\ buckets[k].updated \in Nat /\ buckets[k].tokens <= Cap
          /\ buckets[k].updated <= clock
      BY DEF LimiterInv, TypeOK, Bucket
    <3>2. LET missing == Cap - buckets[k].tokens - (clock - buckets[k].updated)
          IN  missing <= spent[k] /\ (spent[k] <= missing + Lag \/ spent[k] = 0)
      BY DEF LimiterInv, MeterInv
    <3> QED
      BY <2>1, <3>1, <3>2
  <2>3. \A k \in Key \ DOMAIN buckets : spent'[k] = 0
    BY <2>1 DEF LimiterInv, MeterInv
  <2> QED
    BY <2>1, <2>2, <2>3 DEF MeterInv
<1>3. PromisesInv'
  BY DEF LimiterInv, PromisesInv, Tick
<1> QED
  BY <1>1, <1>2, <1>3 DEF LimiterInv

\* A request that has read the time has changed nothing yet.
LEMMA ArriveInv ==
    ASSUME LimiterInv, NEW r \in Req, NEW k \in Key, Arrive(r, k)
    PROVE  LimiterInv'
BY TimesAreNatural DEF LimiterInv, TypeOK, MeterInv, PromisesInv, Arrive, Request

-----------------------------------------------------------------------------
\* Storing a bucket keeps the types.
LEMMA StoreType ==
    ASSUME LimiterInv, EvictionIsLate, NEW q \in requests,
           NEW tokens \in 0 .. Cap, Store(q, tokens),
           spent' \in [Key -> Nat], promises' \subseteq Promise
    PROVE  TypeOK'
<1>1. /\ q.key \in Key /\ q.at \in Nat /\ q.at <= clock /\ clock \in Nat /\ clock <= q.at + Lag
  BY DEF LimiterInv, TypeOK, Request
<1>2. PICK b : b = Lookup(q)
  OBVIOUS
<1> DEFINE updated == Refilled(b, q.at)
           new == [tokens |-> tokens, updated |-> updated, lastSeen |-> q.at]
<1>3. b \in Bucket /\ b.updated \in Nat /\ b.updated <= clock
  BY <1>2, LookupFacts DEF Bucket
<1>4. updated \in Nat /\ updated <= clock /\ q.at <= updated /\ updated <= q.at + Lag
  <2>1. updated \in Nat /\ q.at <= updated /\ updated \in {q.at, b.updated}
    BY <1>1, <1>3, LevelFacts
  <2> QED
    BY <1>1, <1>3, <2>1, TimesAreNatural
<1>5. /\ new \in Bucket /\ new.updated = updated /\ new.lastSeen = q.at
  BY <1>1, <1>4 DEF Bucket
<1>6. /\ buckets' = [k \in Kept(q.at) \cup {q.key} |-> IF k = q.key THEN new ELSE buckets[k]]
      /\ requests' \subseteq requests /\ clock' = clock
      /\ lastSweep' \in {lastSweep, q.at}
  BY <1>2 DEF Store
<1> HIDE DEF new, updated
<1>7. Kept(q.at) \subseteq DOMAIN buckets /\ DOMAIN buckets \subseteq Key
  BY DEF Kept, LimiterInv, TypeOK
<1>8. \A k \in DOMAIN buckets' :
          /\ buckets'[k] \in Bucket /\ buckets'[k].updated <= clock
          /\ buckets'[k].lastSeen <= buckets'[k].updated
          /\ buckets'[k].updated <= buckets'[k].lastSeen + Lag
  <2>1. \A k \in DOMAIN buckets :
          /\ buckets[k] \in Bucket /\ buckets[k].updated <= clock
          /\ buckets[k].lastSeen <= buckets[k].updated
          /\ buckets[k].updated <= buckets[k].lastSeen + Lag
    BY DEF LimiterInv, TypeOK
  <2> QED
    BY <1>4, <1>5, <1>6, <1>7, <2>1
<1>9. DOMAIN buckets' \subseteq Key /\ buckets' \in [DOMAIN buckets' -> Bucket]
  BY <1>1, <1>6, <1>7, <1>8
<1> QED
  BY <1>1, <1>6, <1>8, <1>9 DEF TypeOK, LimiterInv

\* What Store leaves: the sweep's keys and the bucket of the request.
LEMMA StoreBuckets ==
    ASSUME NEW q, NEW tokens, NEW b, b = Lookup(q), Store(q, tokens)
    PROVE  /\ clock' = clock
           /\ DOMAIN buckets' = Kept(q.at) \cup {q.key}
           /\ buckets'[q.key].tokens = tokens
           /\ buckets'[q.key].updated = Refilled(b, q.at)
           /\ \A k \in Kept(q.at) \ {q.key} : buckets'[k] = buckets[k]
BY DEF Store

\* The keys of other buckets keep them, or lose them with an empty meter.
LEMMA OthersMeter ==
    ASSUME LimiterInv, EvictionIsLate, NEW q \in requests, NEW tokens, Store(q, tokens),
           \A k \in Key \ {q.key} : spent'[k] = spent[k],
           LET missing == Cap - buckets'[q.key].tokens - (clock - buckets'[q.key].updated)
           IN  /\ missing <= spent'[q.key]
               /\ spent'[q.key] <= missing + Lag \/ spent'[q.key] = 0
    PROVE  MeterInv'
<1>1. /\ clock' = clock /\ DOMAIN buckets' = Kept(q.at) \cup {q.key}
      /\ \A k \in Kept(q.at) \ {q.key} : buckets'[k] = buckets[k]
  BY StoreBuckets
<1>2. Kept(q.at) \subseteq DOMAIN buckets /\ DOMAIN buckets \subseteq Key /\ q.key \in Key
  BY DEF Kept, LimiterInv, TypeOK, Request
<1>3. ASSUME NEW k \in Kept(q.at) \ {q.key}
      PROVE  LET missing == Cap - buckets'[k].tokens - (clock - buckets'[k].updated)
             IN  missing <= spent'[k] /\ (spent'[k] <= missing + Lag \/ spent'[k] = 0)
  <2>1. LET missing == Cap - buckets[k].tokens - (clock - buckets[k].updated)
        IN  missing <= spent[k] /\ (spent[k] <= missing + Lag \/ spent[k] = 0)
    BY <1>2 DEF LimiterInv, MeterInv
  <2> QED
    BY <1>1, <1>2, <2>1
<1>4. \A k \in Key \ DOMAIN buckets' : spent'[k] = 0
  <2>1. \A k \in Key \ DOMAIN buckets : spent[k] = 0
    BY DEF LimiterInv, MeterInv
  <2>2. \A k \in DOMAIN buckets \ Kept(q.at) : spent[k] = 0
    BY DroppedIsEmpty
  <2> QED
    BY <1>1, <1>2, <2>1, <2>2
<1> QED
  BY <1>1, <1>3, <1>4 DEF MeterInv

\* Promises to other keys rest on buckets that do not change.
LEMMA OthersPromises ==
    ASSUME LimiterInv, NEW q \in requests, NEW tokens, Store(q, tokens),
           \A p \in promises' : p.key # q.key => p \in promises,
           \A p \in promises' : p.key = q.key =>
               LET b == buckets'[q.key]
               IN  b.tokens >= Cost \/ b.tokens + p.at - b.updated >= Cost
    PROVE  PromisesInv'
<1>1. /\ DOMAIN buckets' = Kept(q.at) \cup {q.key}
      /\ \A k \in Kept(q.at) \ {q.key} : buckets'[k] = buckets[k]
  BY StoreBuckets
<1>2. Kept(q.at) \subseteq DOMAIN buckets
  BY DEF Kept
<1>3. ASSUME NEW p \in promises', p.key \in DOMAIN buckets', p.key # q.key
      PROVE  LET b == buckets'[p.key]
             IN  b.tokens >= Cost \/ b.tokens + p.at - b.updated >= Cost
  <2>1. p \in promises /\ p.key \in Kept(q.at) \ {q.key} /\ p.key \in DOMAIN buckets
    BY <1>1, <1>2, <1>3
  <2>2. LET b == buckets[p.key]
        IN  b.tokens >= Cost \/ b.tokens + p.at - b.updated >= Cost
    BY <2>1 DEF LimiterInv, PromisesInv
  <2> QED
    BY <1>1, <2>1, <2>2
<1> QED
  BY <1>3 DEF PromisesInv

-----------------------------------------------------------------------------
\* An admitted request takes Cost from the bucket and adds it to the meter.
LEMMA AdmitInv ==
    ASSUME LimiterInv, EvictionIsLate, NEW q \in requests, Admit(q)
    PROVE  LimiterInv'
<1> USE LimitIsEnabled, TimesAreNatural
<1>1. PICK b : b = Lookup(q)
  OBVIOUS
<1> DEFINE level == Level(b, q.at)
           updated == Refilled(b, q.at)
<1>2. /\ level >= Cost /\ Store(q, level - Cost)
      /\ spent' = [spent EXCEPT ![q.key] = @ + Cost]
      /\ promises' = {p \in promises : p.key # q.key}
  BY <1>1 DEF Admit
<1>3. /\ q.key \in Key /\ q.at \in Nat /\ q.at <= clock /\ clock \in Nat /\ clock <= q.at + Lag
      /\ spent \in [Key -> Nat]
  BY DEF LimiterInv, TypeOK, Request
<1>4. /\ b \in Bucket /\ b.tokens \in 0 .. Cap /\ b.updated \in Nat /\ b.updated <= clock
      /\ Cap - b.tokens - (clock - b.updated) <= spent[q.key]
      /\ \/ spent[q.key] <= Cap - b.tokens - (clock - b.updated) + Lag
         \/ spent[q.key] = 0
  BY <1>1, LookupFacts DEF Bucket
<1>5. /\ level \in 0 .. Cap /\ updated \in Nat /\ q.at <= updated
      /\ updated \in {q.at, b.updated}
      /\ \/ level - updated = b.tokens - b.updated
         \/ level = Cap /\ updated = q.at /\ b.tokens + q.at - b.updated >= Cap
  BY <1>3, <1>4, LevelFacts
<1> HIDE DEF level, updated
<1>6. buckets'[q.key].tokens = level - Cost /\ buckets'[q.key].updated = updated
  BY <1>1, <1>2, StoreBuckets DEF updated
<1>7. TypeOK'
  <2>1. spent' \in [Key -> Nat] /\ promises' \subseteq Promise
    BY <1>2, <1>3 DEF LimiterInv, TypeOK
  <2>2. level - Cost \in 0 .. Cap
    BY <1>2, <1>5
  <2> QED
    BY <1>2, <2>1, <2>2, StoreType
<1>8. MeterInv'
  <2>1. spent'[q.key] = spent[q.key] + Cost /\ spent[q.key] \in Nat
        /\ \A k \in Key \ {q.key} : spent'[k] = spent[k]
    BY <1>2, <1>3
  <2>2. Cap - (level - Cost) - (clock - updated) <= spent[q.key] + Cost
    BY <1>3, <1>4, <1>5, <2>1
  <2>3. spent[q.key] + Cost <= Cap - (level - Cost) - (clock - updated) + Lag
    BY <1>3, <1>4, <1>5, <2>1
  <2> QED
    BY <1>2, <1>6, <2>1, <2>2, <2>3, OthersMeter
<1>9. PromisesInv'
  BY <1>2, OthersPromises
<1> QED
  BY <1>7, <1>8, <1>9 DEF LimiterInv

\* A refused request refills the bucket and promises a token.
LEMMA RefuseInv ==
    ASSUME LimiterInv, EvictionIsLate, NEW q \in requests, Refuse(q)
    PROVE  LimiterInv'
<1> USE LimitIsEnabled, TimesAreNatural
<1>1. PICK b : b = Lookup(q)
  OBVIOUS
<1> DEFINE level == Level(b, q.at)
           updated == Refilled(b, q.at)
           promise == [key |-> q.key, at |-> clock + Cost - level]
<1>2. /\ level < Cost /\ Store(q, level) /\ spent' = spent
      /\ promises' = promises \cup {promise}
  BY <1>1 DEF Refuse
<1>3. /\ q.key \in Key /\ q.at \in Nat /\ q.at <= clock /\ clock \in Nat /\ clock <= q.at + Lag
      /\ spent \in [Key -> Nat] /\ spent[q.key] \in Nat
  BY DEF LimiterInv, TypeOK, Request
<1>4. /\ b \in Bucket /\ b.tokens \in 0 .. Cap /\ b.updated \in Nat /\ b.updated <= clock
      /\ Cap - b.tokens - (clock - b.updated) <= spent[q.key]
      /\ \/ spent[q.key] <= Cap - b.tokens - (clock - b.updated) + Lag
         \/ spent[q.key] = 0
      /\ \A p \in promises : p.key = q.key =>
           b.tokens >= Cost \/ b.tokens + p.at - b.updated >= Cost
  BY <1>1, LookupFacts DEF Bucket
<1>5. /\ level \in 0 .. Cap /\ updated \in Nat /\ updated <= clock
      /\ level - updated = b.tokens - b.updated /\ b.updated <= updated
  <2>1. /\ level \in 0 .. Cap /\ updated \in Nat /\ b.updated <= updated
        /\ updated \in {q.at, b.updated}
        /\ level - updated = b.tokens - b.updated \/ level = Cap
    BY <1>3, <1>4, LevelFacts
  <2> QED
    BY <1>2, <1>3, <1>4, <2>1
<1>6. promise.key = q.key /\ promise.at = clock + Cost - level /\ promise \in Promise
  BY <1>2, <1>3, <1>5 DEF Promise
<1> HIDE DEF level, updated, promise
<1>7. buckets'[q.key].tokens = level /\ buckets'[q.key].updated = updated
  BY <1>1, <1>2, StoreBuckets DEF updated
<1>8. TypeOK'
  <2>1. promises' \subseteq Promise
    BY <1>2, <1>6 DEF LimiterInv, TypeOK
  <2> QED
    BY <1>2, <1>3, <1>5, <2>1, StoreType
<1>9. MeterInv'
  <2>1. Cap - level - (clock - updated) = Cap - b.tokens - (clock - b.updated)
    BY <1>3, <1>4, <1>5
  <2> QED
    BY <1>2, <1>4, <1>7, <2>1, OthersMeter
<1>10. PromisesInv'
  <2>1. ASSUME NEW p \in promises', p.key = q.key
        PROVE  level >= Cost \/ level + p.at - updated >= Cost
    <3>1. CASE p = promise
      BY <1>3, <1>5, <1>6, <3>1
    <3>2. CASE p \in promises
      <4>1. p.at \in Nat
        BY <3>2 DEF LimiterInv, TypeOK, Promise
      <4>2. b.tokens >= Cost \/ b.tokens + p.at - b.updated >= Cost
        BY <1>4, <2>1, <3>2
      <4> QED
        BY <1>4, <1>5, <4>1, <4>2
    <3> QED
      BY <1>2, <3>1, <3>2
  <2>2. \A p \in promises' : p.key # q.key => p \in promises
    BY <1>2, <1>6
  <2> QED
    BY <1>2, <1>7, <2>1, <2>2, OthersPromises
<1> QED
  BY <1>8, <1>9, <1>10 DEF LimiterInv

\* LimiterInv is inductive.
LEMMA StepInv ==
    ASSUME EvictionIsLate
    PROVE  LimiterInv /\ [Next]_vars => LimiterInv'
<1>1. LimiterInv /\ UNCHANGED vars => LimiterInv'
  BY DEF LimiterInv, TypeOK, MeterInv, PromisesInv, vars
<1> QED
  BY <1>1, TickInv, ArriveInv, AdmitInv, RefuseInv DEF Next

-----------------------------------------------------------------------------
\* Buckets, meter and promises agree for every number of keys and requests.
THEOREM LimiterInvariant == ASSUME EvictionIsLate PROVE Spec => []LimiterInv
<1>1. Init => LimiterInv
  BY InitInv
<1>2. LimiterInv /\ [Next]_vars => LimiterInv'
  BY StepInv
<1> QED
  BY <1>1, <1>2, PTL DEF Spec

\* No key is granted more than its burst, its rate and what Lag can hide.
THEOREM BurstBound == ASSUME EvictionIsLate PROVE Spec => []WithinBurst
<1>1. LimiterInv => WithinBurst
  <2> SUFFICES ASSUME LimiterInv, NEW k \in Key PROVE spent[k] <= Cap + Lag
    BY DEF WithinBurst
  <2>1. spent[k] \in Nat /\ clock \in Nat
    BY DEF LimiterInv, TypeOK
  <2>2. CASE k \in DOMAIN buckets
    <3>1. /\ buckets[k].tokens \in 0 .. Cap /\ buckets[k].updated \in Nat
          /\ buckets[k].updated <= clock
      BY <2>2 DEF LimiterInv, TypeOK, Bucket
    <3>2. \/ spent[k] <= Cap - buckets[k].tokens - (clock - buckets[k].updated) + Lag
          \/ spent[k] = 0
      BY <2>2 DEF LimiterInv, MeterInv
    <3> QED
      BY <2>1, <3>1, <3>2, LimitIsEnabled, TimesAreNatural
  <2>3. CASE k \notin DOMAIN buckets
    BY <2>3, LimitIsEnabled, TimesAreNatural DEF LimiterInv, MeterInv
  <2> QED
    BY <2>2, <2>3
<1> QED
  BY <1>1, LimiterInvariant, PTL

\* A limit whose requests are served in the order of their times is never exceeded,
\* however long its buckets take to fill: the age at which one is dropped covers
\* both that time and the minimum.
THEOREM InOrderBound == ASSUME Lag = 0 PROVE Spec => []WithinBurst
<1>1. EvictionIsLate
  BY LimitIsEnabled, TimesAreNatural DEF EvictionIsLate, Ttl
<1> QED
  BY <1>1, BurstBound

\* No key is refused that has not spent its burst, but for what Lag can hide.
THEOREM RefusalsAreEarned == ASSUME EvictionIsLate PROVE Spec => RefusesOnlyTheSpent
<1>1. ASSUME LimiterInv, NEW q \in requests, Refuse(q)
      PROVE  spent[q.key] + Cost > Cap - Lag
  <2>1. PICK b : b = Lookup(q)
    OBVIOUS
  <2>2. /\ q.at \in Nat /\ q.at <= clock /\ clock \in Nat /\ clock <= q.at + Lag
        /\ spent[q.key] \in Nat
    BY <1>1 DEF LimiterInv, TypeOK, Request
  <2>3. /\ b \in Bucket /\ b.tokens \in 0 .. Cap /\ b.updated \in Nat
        /\ Cap - b.tokens - (clock - b.updated) <= spent[q.key]
    BY <1>1, <2>1, LookupFacts DEF Bucket
  <2>4. Level(b, q.at) < Cost
    BY <1>1, <2>1 DEF Refuse
  <2> QED
    BY <2>2, <2>3, <2>4, LimitIsEnabled, TimesAreNatural DEF Level
<1>2. LimiterInv => [\A q \in requests : Refuse(q) => spent[q.key] + Cost > Cap - Lag]_vars
  BY <1>1
<1> QED
  BY <1>2, LimiterInvariant, PTL DEF RefusesOnlyTheSpent

\* A client that waits for the Retry-After time is not refused again.
THEOREM RetryHonest == ASSUME EvictionIsLate PROVE Spec => RetryAfterIsHonest
<1>1. ASSUME LimiterInv, NEW q \in requests, NEW p \in promises, Refuse(q), p.key = q.key
      PROVE  q.at < p.at
  <2>1. PICK b : b = Lookup(q)
    OBVIOUS
  <2>2. q.at \in Nat /\ p.at \in Nat
    BY <1>1 DEF LimiterInv, TypeOK, Request, Promise
  <2>3. /\ b \in Bucket /\ b.tokens \in 0 .. Cap /\ b.updated \in Nat
        /\ b.tokens >= Cost \/ b.tokens + p.at - b.updated >= Cost
    BY <1>1, <2>1, LookupFacts DEF Bucket
  <2>4. Level(b, q.at) < Cost
    BY <1>1, <2>1 DEF Refuse
  <2> QED
    BY <2>2, <2>3, <2>4, LimitIsEnabled DEF Level
<1>2. LimiterInv => [\A q \in requests, p \in promises :
                         Refuse(q) /\ p.key = q.key => q.at < p.at]_vars
  BY <1>1
<1> QED
  BY <1>2, LimiterInvariant, PTL DEF RetryAfterIsHonest

=============================================================================
