----------------------------- MODULE QueryCache -----------------------------
(***************************************************************************)
(* POST /api/data/ask and its cache of answers.  The cache is a bounded    *)
(* map with an expiry in the memory of the process, or Redis with that map *)
(* behind it: the first call to Redis that fails puts the process on the   *)
(* map for good.  An ask is suspended while Redis answers and while it     *)
(* searches; on the map it looks up and stores without being suspended.    *)
(***************************************************************************)
EXTENDS Integers, FiniteSets

CONSTANTS
    Asks,     \* requests
    Keys,     \* cache keys: a hash of the query, top_k and doc_type
    MaxSize,  \* maxsize of MemoryCache
    TTL,      \* QUERY_CACHE_TTL
    MaxTime,  \* bound: the clock stops there
    None

VARIABLES
    now,
    degraded, \* the map is in use: no Redis was configured, or it failed once
    store,    \* the map: when the answer under a key was put there
    expires,  \* _expires
    older,    \* the order of the OrderedDict, as pairs of an older and a newer key
    redis,    \* external: what Redis holds
    ask,      \* stage, key and answer of each request
    since     \* history: the keys used since a key was last used, for each key

vars == <<now, degraded, store, expires, older, redis, ask, since>>
memory == <<store, expires, older, since>>

ASSUME QueryCacheAssumption ==
    /\ MaxSize \in Nat \ {0} /\ TTL \in Nat \ {0} /\ MaxTime \in Nat
    /\ None \notin Int \cup Keys
    /\ None \notin [put : Nat, expires : Nat] \cup [at : Nat, put : Nat]

Times == 0..MaxTime
Stages == {"new", "getting", "searching", "setting", "done", "failed"}
Stored == {k \in Keys : store[k] # None}

\* The order is the order of an OrderedDict with these keys.
IsOrder(order, S) ==
    /\ order \subseteq S \X S
    /\ \A j \in S : <<j, j>> \notin order
    /\ \A j, k \in S : j # k => (<<j, k>> \in order <=> <<k, j>> \notin order)
    /\ \A i, j, k \in S : <<i, j>> \in order /\ <<j, k>> \in order => <<i, k>> \in order

\* The map holds at most MaxSize answers, keeps an expiry of each and of no
\* other key, and its order is one of these keys.
TypeOK ==
    /\ now \in Times
    /\ degraded \in BOOLEAN
    /\ store \in [Keys -> Times \cup {None}]
    /\ expires \in [Keys -> Nat \cup {None}]
    /\ \A k \in Keys : store[k] = None <=> expires[k] = None
    /\ IsFiniteSet(Stored) /\ Cardinality(Stored) <= MaxSize
    /\ IsOrder(older, Stored)
    /\ redis \in [Keys -> [put : Times, expires : Nat] \cup {None}]
    /\ ask \in [Asks -> [stage : Stages, key : Keys \cup {None},
                         answer : [at : Times, put : Times] \cup {None}]]
    /\ since \in [Keys -> SUBSET Keys]

Request(stage, key, answer) == [stage |-> stage, key |-> key, answer |-> answer]

Init ==
    /\ now = 0
    /\ degraded \in BOOLEAN
    /\ store = [k \in Keys |-> None]
    /\ expires = [k \in Keys |-> None]
    /\ older = {}
    /\ redis = [k \in Keys |-> None]
    /\ ask = [a \in Asks |-> Request("new", None, None)]
    /\ since = [k \in Keys |-> {}]

-----------------------------------------------------------------------------
(* MemoryCache *)

Live(k) == store[k] # None /\ expires[k] > now

MovedToEnd(k, S) ==
    {p \in older : p[1] # k /\ p[2] # k} \cup ((S \ {k}) \X {k})

UsedNow(k) == since' = [j \in Keys |-> IF j = k THEN {} ELSE since[j] \cup {k}]

\* Mutants of MemoryHit: a hit renews the expiry; a hit leaves the order alone.
MemoryHitRenews(k) ==
    /\ Live(k)
    /\ older' = MovedToEnd(k, Stored)
    /\ expires' = [expires EXCEPT ![k] = now + TTL]
    /\ UsedNow(k)
    /\ UNCHANGED store
MemoryHitInPlace(k) == Live(k) /\ UsedNow(k) /\ UNCHANGED <<store, expires, older>>

\* get, when it finds an answer.
MemoryHit(k) ==
    /\ Live(k)
    /\ older' = MovedToEnd(k, Stored)
    /\ UsedNow(k)
    /\ UNCHANGED <<store, expires>>

\* Mutant of MemoryMiss: the expiry of an expired answer is left behind.
MemoryMissLeaves(k) ==
    /\ ~Live(k)
    /\ store' = [store EXCEPT ![k] = None]
    /\ older' = {p \in older : p[1] # k /\ p[2] # k}
    /\ UNCHANGED <<expires, since>>

\* get, when it finds none, or one that has expired.
MemoryMiss(k) ==
    /\ ~Live(k)
    /\ store' = [store EXCEPT ![k] = None]
    /\ expires' = [expires EXCEPT ![k] = None]
    /\ older' = {p \in older : p[1] # k /\ p[2] # k}
    /\ UNCHANGED since

\* set: the loop that evicts runs at most once, since TypeOK held before.
MemorySet(k) ==
    LET S == Stored \cup {k}
        order == MovedToEnd(k, S)
        Evicted == IF Cardinality(S) > MaxSize
                   THEN {j \in S : \A i \in S : <<i, j>> \notin order}
                   ELSE {}
    IN /\ store' = [j \in Keys |-> IF j \in Evicted THEN None
                                   ELSE IF j = k THEN now ELSE store[j]]
       /\ expires' = [j \in Keys |-> IF j \in Evicted THEN None
                                     ELSE IF j = k THEN now + TTL ELSE expires[j]]
       /\ older' = {p \in order : p[1] \notin Evicted}
       /\ UsedNow(k)

-----------------------------------------------------------------------------
(* QueryService.ask *)

\* The answer an ask takes from the cache, and the search it begins without one.
Answered(a, k, put) ==
    ask' = [ask EXCEPT ![a] = Request("done", k, [at |-> now, put |-> put])]
Searching(a, k) == ask' = [ask EXCEPT ![a] = Request("searching", k, None)]

MemoryGet(a, k) ==
    \/ MemoryHit(k) /\ Answered(a, k, store[k])
    \/ MemoryMiss(k) /\ Searching(a, k)

\* The request arrives: its key is computed and looked up.
Arrive(a, k) ==
    /\ ask[a].stage = "new"
    /\ \/ degraded /\ MemoryGet(a, k)
       \/ /\ ~degraded
          /\ ask' = [ask EXCEPT ![a] = Request("getting", k, None)]
          /\ UNCHANGED memory
    /\ UNCHANGED <<now, degraded, redis>>

RedisHolds(k) == redis[k] # None /\ redis[k].expires > now

\* RedisCache.get returns: Redis drops what has expired.
RedisAnswers(a) ==
    LET k == ask[a].key
    IN /\ ask[a].stage = "getting"
       /\ \/ RedisHolds(k) /\ Answered(a, k, redis[k].put)
          \/ ~RedisHolds(k) /\ Searching(a, k)
       /\ UNCHANGED <<now, degraded, redis, memory>>

RedisGetFails(a) ==
    /\ ask[a].stage = "getting"
    /\ degraded' = TRUE
    /\ MemoryGet(a, ask[a].key)
    /\ UNCHANGED <<now, redis>>

\* Encoding, search and ranking are over: the answer goes to the cache.  It is
\* the result of the request, whether or not it was kept.
Computed(a, stage) == ask' = [ask EXCEPT ![a] = Request(stage, ask[a].key, None)]

Search(a) ==
    /\ ask[a].stage = "searching"
    /\ \/ degraded /\ MemorySet(ask[a].key) /\ Computed(a, "done")
       \/ ~degraded /\ Computed(a, "setting") /\ UNCHANGED memory
    /\ UNCHANGED <<now, degraded, redis>>

SearchFails(a) ==
    /\ ask[a].stage = "searching"
    /\ Computed(a, "failed")
    /\ UNCHANGED <<now, degraded, redis, memory>>

\* Redis carries out SET key ex=TTL, and forgets the entry at its expiry.
RedisPut(k) == redis' = [redis EXCEPT ![k] = [put |-> now, expires |-> now + TTL]]

RedisStores(a) ==
    /\ ask[a].stage = "setting"
    /\ RedisPut(ask[a].key)
    /\ Computed(a, "done")
    /\ UNCHANGED <<now, degraded, memory>>

\* RedisCache.set fails, before or after Redis carried it out.
RedisSetFails(a) ==
    /\ ask[a].stage = "setting"
    /\ degraded' = TRUE
    /\ MemorySet(ask[a].key)
    /\ Computed(a, "done")
    /\ RedisPut(ask[a].key) \/ UNCHANGED redis
    /\ UNCHANGED now

Tick ==
    /\ now < MaxTime
    /\ now' = now + 1
    /\ UNCHANGED <<degraded, store, expires, older, redis, ask, since>>

Next ==
    \/ Tick
    \/ \E a \in Asks :
        \/ \E k \in Keys : Arrive(a, k)
        \/ RedisAnswers(a) \/ RedisGetFails(a)
        \/ Search(a) \/ SearchFails(a)
        \/ RedisStores(a) \/ RedisSetFails(a)

Spec == Init /\ [][Next]_vars

-----------------------------------------------------------------------------
(* Properties *)

\* An answer taken from the cache was put there less than TTL ago: through
\* evictions and later puts, after Redis failed, and however often it was hit.
AgeWithinTTL ==
    \A a \in Asks : ask[a].answer # None => ask[a].answer.at - ask[a].answer.put < TTL

\* The map gives up an answer that has not expired only for its size, and then
\* the one that MaxSize other keys have been used since.
EvictsLeastUsed ==
    [][\A k \in Keys : Live(k) /\ store'[k] = None =>
          Cardinality(since'[k]) >= MaxSize]_vars

=============================================================================
