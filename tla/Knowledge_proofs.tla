--------------------------- MODULE Knowledge_proofs ---------------------------
(***************************************************************************)
(* Proofs about what surrounds question answering: the cache of answers,   *)
(* for any number of requests, keys, places and seconds; the deletions of  *)
(* the RAG inspector, for any number of overlapping calls and documents;   *)
(* the embedding models with their collections, for any number of          *)
(* processes, environments and ingests; the indexes of the RAG agent, for  *)
(* any documents; the analysis agent, for any questions and tables; and    *)
(* the splitters, for any text, table and sizes.                           *)
(***************************************************************************)
EXTENDS QueryCache, Inspector, Embedding, Rag, Analysis, Texts, Filters_proofs

-----------------------------------------------------------------------------
(* The cache of answers: an expiry is its put plus TTL, on the map and in   *)
(* Redis, and the order of the map is the order of use.                     *)

ExpiriesFollowPuts ==
    /\ \A k \in Keys : store[k] # None => expires[k] = store[k] + TTL
    /\ \A k \in Keys : redis[k] # None => redis[k].expires = redis[k].put + TTL

OrderIsUse ==
    /\ \A k \in Keys : IsFiniteSet(since[k])
    /\ \A j, k \in Stored : j # k => (<<j, k>> \in older <=> k \in since[j])

\* What IInv says of the map.
MapInv ==
    /\ store \in [Keys -> Times \cup {None}]
    /\ expires \in [Keys -> Nat \cup {None}]
    /\ \A k \in Keys : store[k] = None <=> expires[k] = None
    /\ IsFiniteSet(Stored) /\ Cardinality(Stored) <= MaxSize
    /\ IsOrder(older, Stored)
    /\ since \in [Keys -> SUBSET Keys]
    /\ \A k \in Keys : store[k] # None => expires[k] = store[k] + TTL
    /\ OrderIsUse

IInv == TypeOK /\ ExpiriesFollowPuts /\ OrderIsUse /\ AgeWithinTTL

\* A finite ordered set that is not empty has a first element.
LEMMA FirstExists ==
  ASSUME NEW order, NEW S, IsFiniteSet(S), S # {}, IsOrder(order, S)
  PROVE  \E k \in S : \A i \in S : <<i, k>> \notin order
<1> DEFINE Below(k) == {i \in S : <<i, k>> \in order}
           T == {Below(k) : k \in S}
           R == StrictSubsetOrdering(S)
<1>1. T \subseteq FiniteSubsetsOf(S)
  BY FS_Subset DEF FiniteSubsetsOf
<1>2. PICK x \in T : \A y \in T : <<y, x>> \notin R
  <2>1. IsWellFoundedOn(R, FiniteSubsetsOf(S))
    BY FS_StrictSubsetOrderingWellFounded
  <2>2. T # {}
    OBVIOUS
  <2> HIDE DEF T, R
  <2> QED  BY <1>1, <2>1, <2>2, WFMin
<1>3. PICK k \in S : x = Below(k)
  OBVIOUS
<1>4. ASSUME NEW i \in S, <<i, k>> \in order
      PROVE  FALSE
  <2>1. Below(i) \subseteq Below(k)
    BY <1>4 DEF IsOrder
  <2>2. i \in Below(k) /\ i \notin Below(i)
    BY <1>4 DEF IsOrder
  <2>3. <<Below(i), Below(k)>> \in R
    BY <2>1, <2>2 DEF StrictSubsetOrdering
  <2> QED  BY <1>2, <1>3, <2>3
<1> QED  BY <1>4

\* Moving a key to the end of an order gives an order, with the key in it.
LEMMA MovedIsOrder ==
  ASSUME NEW S, IsOrder(older, S), NEW k
  PROVE  IsOrder(MovedToEnd(k, S \cup {k}), S \cup {k})
<1> DEFINE U == S \cup {k}
           o == MovedToEnd(k, U)
<1>1. \A i, j : <<i, j>> \in o <=> \/ i # k /\ j # k /\ <<i, j>> \in older
                                   \/ i \in U /\ i # k /\ j = k
  <2>1. older \subseteq S \X S
    BY DEF IsOrder
  <2> QED  BY <2>1 DEF MovedToEnd
<1>2. o \subseteq U \X U
  BY DEF MovedToEnd, IsOrder
<1> HIDE DEF o
<1>3. \A j \in U : <<j, j>> \notin o
  BY <1>1 DEF IsOrder
<1>4. \A i, j \in U : i # j => (<<i, j>> \in o <=> <<j, i>> \notin o)
  BY <1>1 DEF IsOrder
<1>5. \A h, i, j \in U : <<h, i>> \in o /\ <<i, j>> \in o => <<h, j>> \in o
  BY <1>1 DEF IsOrder
<1> QED  BY <1>2, <1>3, <1>4, <1>5 DEF IsOrder, o

\* A hit keeps the map in order.
LEMMA HitKeeps ==
  ASSUME MapInv, NEW k \in Keys, MemoryHit(k)
  PROVE  MapInv'
<1>1. k \in Stored /\ Stored \cup {k} = Stored
  BY DEF MemoryHit, Live, Stored
<1>2. store' = store /\ expires' = expires /\ Stored' = Stored
  BY DEF MemoryHit, Stored
<1>3. IsOrder(older', Stored)
  BY <1>1, MovedIsOrder DEF MapInv, MemoryHit
<1>4. since' = [j \in Keys |-> IF j = k THEN {} ELSE since[j] \cup {k}]
  BY DEF MemoryHit, UsedNow
<1>5. \A j \in Keys : IsFiniteSet(since'[j]) /\ since'[j] \in SUBSET Keys
  <2>1. \A j \in Keys : IsFiniteSet(since[j] \cup {k}) /\ IsFiniteSet({})
    BY FS_EmptySet, FS_AddElement DEF MapInv, OrderIsUse
  <2>2. \A j \in Keys : since[j] \in SUBSET Keys
    BY DEF MapInv
  <2> QED  BY <1>4, <2>1, <2>2
<1>6. \A i, j \in Stored : i # j => (<<i, j>> \in older' <=> j \in since'[i])
  BY <1>1, <1>4 DEF MapInv, OrderIsUse, MemoryHit, MovedToEnd, Stored
<1> QED  BY <1>2, <1>3, <1>4, <1>5, <1>6 DEF MapInv, OrderIsUse

\* So does a miss, which may drop an answer that has expired.
LEMMA MissKeeps ==
  ASSUME MapInv, NEW k \in Keys, MemoryMiss(k)
  PROVE  MapInv'
<1>1. Stored' = Stored \ {k}
  BY DEF MemoryMiss, Stored, MapInv
<1>2. IsFiniteSet(Stored') /\ Cardinality(Stored') <= MaxSize
  <2>1. IsFiniteSet(Stored) /\ Cardinality(Stored) <= MaxSize /\ MaxSize \in Nat
    BY QueryCacheAssumption DEF MapInv
  <2>2. IsFiniteSet(Stored \ {k}) /\ Cardinality(Stored \ {k}) <= Cardinality(Stored)
    BY <2>1, FS_Subset, Stored \ {k} \in SUBSET Stored
  <2>3. Cardinality(Stored) \in Nat /\ Cardinality(Stored \ {k}) \in Nat
    BY <2>1, <2>2, FS_CardinalityType
  <2> QED  BY <1>1, <2>1, <2>2, <2>3
<1>3. IsOrder(older', Stored')
  BY <1>1 DEF MapInv, MemoryMiss, IsOrder
<1>4. /\ store' \in [Keys -> Times \cup {None}]
      /\ expires' \in [Keys -> Nat \cup {None}]
      /\ \A j \in Keys : store'[j] = None <=> expires'[j] = None
      /\ \A j \in Keys : store'[j] # None => expires'[j] = store'[j] + TTL
  BY DEF MapInv, MemoryMiss
<1>5. OrderIsUse'
  BY <1>1 DEF MapInv, MemoryMiss, OrderIsUse, Stored
<1> QED  BY <1>2, <1>3, <1>4, <1>5 DEF MapInv, MemoryMiss

\* A put keeps the map in order and within its size, and what it evicts is the
\* key that every other one has been used since.
LEMMA SetKeeps ==
  ASSUME MapInv, now \in Times, NEW k \in Keys, MemorySet(k)
  PROVE  /\ MapInv'
         /\ \A j \in Keys : store[j] # None /\ store'[j] = None =>
               Cardinality(since'[j]) >= MaxSize
<1> DEFINE S == Stored \cup {k}
           order == MovedToEnd(k, S)
           Evicted == IF Cardinality(S) > MaxSize
                      THEN {j \in S : \A i \in S : <<i, j>> \notin order}
                      ELSE {}
<1> USE QueryCacheAssumption
<1>1. IsOrder(order, S)
  BY MovedIsOrder DEF MapInv
<1>2. /\ \A j \in Keys : store'[j] = IF j \in Evicted THEN None
                                     ELSE IF j = k THEN now ELSE store[j]
      /\ \A j \in Keys : expires'[j] = IF j \in Evicted THEN None
                                       ELSE IF j = k THEN now + TTL ELSE expires[j]
      /\ older' = {p \in order : p[1] \notin Evicted}
      /\ since' = [j \in Keys |-> IF j = k THEN {} ELSE since[j] \cup {k}]
      /\ store' = [j \in Keys |-> store'[j]] /\ expires' = [j \in Keys |-> expires'[j]]
  BY DEF MemorySet, UsedNow
<1>3. /\ S \subseteq Keys /\ k \in S
      /\ IsFiniteSet(S) /\ Cardinality(S) \in Nat /\ Cardinality(S) <= MaxSize + 1
  <2>1. IsFiniteSet(Stored) /\ Cardinality(Stored) \in Nat /\ Cardinality(Stored) <= MaxSize
    BY FS_CardinalityType DEF MapInv
  <2>2. /\ IsFiniteSet(S)
        /\ Cardinality(S) = IF k \in Stored THEN Cardinality(Stored) ELSE Cardinality(Stored) + 1
    BY <2>1, FS_AddElement
  <2>3. S \subseteq Keys /\ k \in S
    BY DEF Stored
  <2> HIDE DEF S
  <2> QED  BY <2>1, <2>2, <2>3
<1>4. now # None /\ now \in Nat /\ \A t \in Times : t \in Nat /\ t # None
  BY DEF Times
<1>5. Stored' = S \ Evicted
  BY <1>2, <1>3, <1>4 DEF Stored
<1>6. \A i, j \in Evicted : i = j
  <2> HIDE DEF order, S
  <2> QED  BY <1>1 DEF IsOrder
<1>7. IsFiniteSet(Stored') /\ Cardinality(Stored') <= MaxSize
  <2>1. CASE Cardinality(S) > MaxSize
    <3>1. S # {}
      BY <1>3
    <3>2. PICK j \in S : \A i \in S : <<i, j>> \notin order
      <4> HIDE DEF order, S
      <4> QED  BY <3>1, <1>1, <1>3, FirstExists
    <3>3. Stored' = S \ {j}
      BY <1>5, <1>6, <2>1, <3>2
    <3>4. IsFiniteSet(S \ {j}) /\ Cardinality(S \ {j}) = Cardinality(S) - 1
      <4> HIDE DEF S
      <4> QED  BY <1>3, <3>2, FS_RemoveElement
    <3> HIDE DEF S
    <3> QED  BY <3>3, <3>4, <1>3
  <2>2. CASE ~(Cardinality(S) > MaxSize)
    BY <1>3, <1>5, <2>2
  <2> QED  BY <2>1, <2>2
<1>8. IsOrder(older', Stored')
  <2> HIDE DEF order, S, Evicted
  <2>1. \A p \in older' : p[1] \in S \ Evicted /\ p[2] \in S \ Evicted /\ p = <<p[1], p[2]>>
    BY <1>1, <1>2 DEF IsOrder, Evicted
  <2> QED  BY <1>1, <1>2, <1>5, <2>1 DEF IsOrder
<1>9. \A j \in Keys : IsFiniteSet(since'[j]) /\ since'[j] \in SUBSET Keys
  <2>1. \A j \in Keys : IsFiniteSet(since[j] \cup {k}) /\ IsFiniteSet({})
    BY FS_EmptySet, FS_AddElement DEF MapInv, OrderIsUse
  <2>2. \A j \in Keys : since[j] \in SUBSET Keys
    BY DEF MapInv
  <2> QED  BY <1>2, <2>1, <2>2
<1>10. \A i, j \in S : i # j => (<<i, j>> \in order <=> j \in since'[i])
  BY <1>2, <1>3 DEF MapInv, OrderIsUse, MovedToEnd, Stored, IsOrder
<1>11. OrderIsUse'
  <2> HIDE DEF order, S, Evicted
  <2>1. \A i, j \in Stored' : i # j => (<<i, j>> \in older' <=> j \in since'[i])
    BY <1>2, <1>5, <1>10
  <2> QED  BY <1>9, <2>1 DEF OrderIsUse
<1>12. /\ store' \in [Keys -> Times \cup {None}]
       /\ expires' \in [Keys -> Nat \cup {None}]
       /\ \A j \in Keys : store'[j] = None <=> expires'[j] = None
       /\ \A j \in Keys : store'[j] # None => expires'[j] = store'[j] + TTL
       /\ since' \in [Keys -> SUBSET Keys]
  <2> HIDE DEF order, S, Evicted
  <2> QED  BY <1>2, <1>4, <1>9 DEF MapInv, Times
<1>13. ASSUME NEW j \in Keys, store[j] # None, store'[j] = None
       PROVE  Cardinality(since'[j]) >= MaxSize
  <2>1. j \in Evicted
    BY <1>2, <1>4, <1>13
  <2>2. Cardinality(S) > MaxSize /\ j \in S /\ \A i \in S : <<i, j>> \notin order
    BY <2>1
  <2>3. S \ {j} \subseteq since'[j]
    <3> HIDE DEF order, S
    <3> QED  BY <1>1, <1>10, <2>2 DEF IsOrder
  <2>4. IsFiniteSet(S \ {j}) /\ Cardinality(S \ {j}) = Cardinality(S) - 1
    <3> HIDE DEF S
    <3> QED  BY <2>2, <1>3, FS_RemoveElement
  <2>5. Cardinality(S \ {j}) <= Cardinality(since'[j]) /\ Cardinality(since'[j]) \in Nat
    BY <1>9, <2>3, FS_Subset, FS_CardinalityType
  <2> HIDE DEF S
  <2> QED  BY <2>2, <2>4, <2>5, <1>3
<1> QED  BY <1>7, <1>8, <1>11, <1>12, <1>13 DEF MapInv

\* What a request may be.
Answer == [at : Times, put : Times]
Requests == [stage : Stages, key : Keys \cup {None}, answer : Answer \cup {None}]

\* A request that changes to one without an answer, or with one less than TTL
\* old, leaves the requests typed and their answers young.
LEMMA RequestsKept ==
  ASSUME TypeOK, AgeWithinTTL, NEW a \in Asks, NEW r \in Requests,
         r.answer # None => r.answer.at - r.answer.put < TTL,
         ask' = [ask EXCEPT ![a] = r]
  PROVE  ask' \in [Asks -> Requests] /\ AgeWithinTTL'
<1>1. ask \in [Asks -> Requests]
  BY DEF TypeOK, Requests, Answer
<1>2. \A b \in Asks : ask'[b] = IF b = a THEN r ELSE ask[b]
  BY <1>1
<1> QED  BY <1>1, <1>2 DEF AgeWithinTTL

\* A lookup on the map, whatever becomes of the request.
LEMMA GetKeeps ==
  ASSUME TypeOK, ExpiriesFollowPuts, AgeWithinTTL, MapInv,
         NEW a \in Asks, NEW k \in Keys, MemoryGet(a, k)
  PROVE  MapInv' /\ ask' \in [Asks -> Requests] /\ AgeWithinTTL'
<1>1. CASE MemoryHit(k) /\ Answered(a, k, store[k])
  <2> DEFINE r == Request("done", k, [at |-> now, put |-> store[k]])
  <2>1. store[k] \in Times /\ store[k] \in Nat /\ now \in Times /\ now \in Nat
    BY <1>1 DEF MemoryHit, Live, MapInv, TypeOK, Times
  <2>2. now - store[k] < TTL
    BY <1>1, <2>1, QueryCacheAssumption DEF MemoryHit, Live, MapInv
  <2>3. r \in Requests /\ r.answer.at - r.answer.put < TTL
    BY <2>1, <2>2 DEF Request, Requests, Answer, Stages
  <2> HIDE DEF r
  <2>4. ask' \in [Asks -> Requests] /\ AgeWithinTTL'
    BY <1>1, <2>3, RequestsKept DEF Answered, r
  <2> QED  BY <1>1, <2>4, HitKeeps
<1>2. CASE MemoryMiss(k) /\ Searching(a, k)
  <2>1. Request("searching", k, None) \in Requests /\ Request("searching", k, None).answer = None
    BY DEF Request, Requests, Stages
  <2>2. ask' \in [Asks -> Requests] /\ AgeWithinTTL'
    BY <1>2, <2>1, RequestsKept DEF Searching
  <2> QED  BY <1>2, <2>2, MissKeeps
<1> QED  BY <1>1, <1>2 DEF MemoryGet

\* A request that ends or goes on without an answer from the cache.
LEMMA ComputedKeeps ==
  ASSUME TypeOK, AgeWithinTTL, NEW a \in Asks, NEW stage \in Stages, Computed(a, stage)
  PROVE  ask' \in [Asks -> Requests] /\ AgeWithinTTL'
<1>1. ask[a].key \in Keys \cup {None}
  BY DEF TypeOK
<1>2. Request(stage, ask[a].key, None) \in Requests /\ Request(stage, ask[a].key, None).answer = None
  BY <1>1 DEF Request, Requests
<1> QED  BY <1>2, RequestsKept DEF Computed

\* Requests that use the cache have a key.
HaveKeys == \A a \in Asks : ask[a].stage \in {"getting", "searching", "setting"} => ask[a].key \in Keys

LEMMA HaveKeysStep ==
  ASSUME TypeOK, HaveKeys, [Next]_vars
  PROVE  HaveKeys'
<1> USE DEF TypeOK, HaveKeys, Request
<1>1. CASE UNCHANGED vars \/ Tick
  BY <1>1 DEF vars, Tick
<1>2. ASSUME NEW a \in Asks, NEW k \in Keys, Arrive(a, k)
      PROVE  HaveKeys'
  BY <1>2 DEF Arrive, MemoryGet, Answered, Searching
<1>3. ASSUME NEW a \in Asks, RedisAnswers(a)
      PROVE  HaveKeys'
  BY <1>3 DEF RedisAnswers, Answered, Searching
<1>4. ASSUME NEW a \in Asks, RedisGetFails(a)
      PROVE  HaveKeys'
  BY <1>4 DEF RedisGetFails, MemoryGet, Answered, Searching
<1>5. ASSUME NEW a \in Asks, Search(a) \/ SearchFails(a) \/ RedisStores(a) \/ RedisSetFails(a)
      PROVE  HaveKeys'
  BY <1>5 DEF Search, SearchFails, RedisStores, RedisSetFails, Computed
<1> QED  BY <1>1, <1>2, <1>3, <1>4, <1>5 DEF Next

\* Redis keeps its entries typed and their expiries at put plus TTL.
RedisInv ==
    /\ redis \in [Keys -> [put : Times, expires : Nat] \cup {None}]
    /\ \A k \in Keys : redis[k] # None => redis[k].expires = redis[k].put + TTL

LEMMA PutKeeps ==
  ASSUME RedisInv, now \in Times, NEW k \in Keys, RedisPut(k)
  PROVE  RedisInv'
<1> DEFINE e == [put |-> now, expires |-> now + TTL]
<1>1. e \in [put : Times, expires : Nat] /\ e.expires = e.put + TTL
  BY QueryCacheAssumption DEF Times
<1>2. redis' = [redis EXCEPT ![k] = e]
  BY DEF RedisPut
<1> HIDE DEF e
<1> QED  BY <1>1, <1>2 DEF RedisInv

\* IInv in the parts the lemmas speak of.
LEMMA Parts ==
  IInv <=> /\ now \in Times /\ degraded \in BOOLEAN
           /\ MapInv /\ RedisInv
           /\ ask \in [Asks -> Requests] /\ AgeWithinTTL
  BY DEF IInv, TypeOK, ExpiriesFollowPuts, MapInv, RedisInv, Requests, Answer

LEMMA PartsNext ==
  IInv' <=> /\ now' \in Times /\ degraded' \in BOOLEAN
            /\ MapInv' /\ RedisInv'
            /\ ask' \in [Asks -> Requests] /\ AgeWithinTTL'
  BY DEF IInv, TypeOK, ExpiriesFollowPuts, MapInv, RedisInv, Requests, Answer

\* The invariant holds at the start.
LEMMA IInvInit == Init => IInv /\ HaveKeys
<1> SUFFICES ASSUME Init PROVE IInv /\ HaveKeys
  OBVIOUS
<1>1. Stored = {}
  BY DEF Init, Stored
<1>2. IsFiniteSet(Stored) /\ Cardinality(Stored) <= MaxSize
  BY <1>1, FS_EmptySet, QueryCacheAssumption
<1>3. IsOrder(older, Stored)
  BY <1>1 DEF Init, IsOrder
<1>4. \A k \in Keys : IsFiniteSet(since[k])
  BY FS_EmptySet DEF Init
<1>5. ask \in [Asks -> Requests] /\ AgeWithinTTL
  BY DEF Init, Request, Requests, Stages, AgeWithinTTL
<1>6. MapInv
  BY <1>1, <1>2, <1>3, <1>4 DEF MapInv, Init, OrderIsUse
<1>7. HaveKeys
  BY DEF Init, HaveKeys, Request
<1> QED  BY <1>5, <1>6, <1>7, Parts, QueryCacheAssumption DEF Init, RedisInv, Times

\* Every step keeps it.
LEMMA IInvStep ==
  ASSUME IInv, HaveKeys, [Next]_vars
  PROVE  IInv'
<1>1. /\ now \in Times /\ degraded \in BOOLEAN /\ MapInv /\ RedisInv
      /\ ask \in [Asks -> Requests] /\ AgeWithinTTL
      /\ TypeOK /\ ExpiriesFollowPuts
  BY Parts DEF IInv
<1>2. ASSUME UNCHANGED memory
      PROVE  MapInv'
  BY <1>1, <1>2 DEF memory, MapInv, OrderIsUse, Stored
<1>3. ASSUME UNCHANGED redis
      PROVE  RedisInv'
  BY <1>1, <1>3 DEF RedisInv
<1>4. CASE UNCHANGED vars
  BY <1>1, <1>2, <1>3, <1>4, PartsNext DEF vars, memory, AgeWithinTTL
<1>5. CASE Tick
  <2>1. now' \in Times
    BY <1>1, <1>5, QueryCacheAssumption DEF Tick, Times
  <2> QED  BY <1>1, <1>2, <1>3, <1>5, <2>1, PartsNext DEF Tick, memory, AgeWithinTTL
<1>6. ASSUME NEW a \in Asks, NEW k \in Keys, Arrive(a, k)
      PROVE  IInv'
  <2>1. CASE degraded /\ MemoryGet(a, k)
    BY <1>1, <1>3, <1>6, <2>1, GetKeeps, PartsNext DEF Arrive
  <2>2. CASE ask' = [ask EXCEPT ![a] = Request("getting", k, None)] /\ UNCHANGED memory
    <3>1. Request("getting", k, None) \in Requests /\ Request("getting", k, None).answer = None
      BY DEF Request, Requests, Stages
    <3> QED  BY <1>1, <1>2, <1>3, <1>6, <2>2, <3>1, RequestsKept, PartsNext DEF Arrive
  <2> QED  BY <1>6, <2>1, <2>2 DEF Arrive
<1>7. ASSUME NEW a \in Asks, RedisAnswers(a)
      PROVE  IInv'
  <2> DEFINE k == ask[a].key
  <2>0. k \in Keys
    BY <1>7 DEF HaveKeys, RedisAnswers
  <2>1. CASE RedisHolds(k) /\ Answered(a, k, redis[k].put)
    <3> DEFINE r == Request("done", k, [at |-> now, put |-> redis[k].put])
    <3>1. redis[k] \in [put : Times, expires : Nat] /\ redis[k].expires > now
      BY <1>1, <2>0, <2>1 DEF RedisHolds, RedisInv
    <3>2. redis[k].put \in Times /\ redis[k].put \in Nat /\ now \in Nat /\ redis[k].expires = redis[k].put + TTL
      BY <1>1, <2>0, <2>1, <3>1 DEF RedisHolds, RedisInv, Times
    <3>3. r \in Requests /\ r.answer.at - r.answer.put < TTL
      BY <1>1, <2>0, <3>1, <3>2, QueryCacheAssumption DEF Request, Requests, Answer, Stages
    <3> HIDE DEF r
    <3>4. ask' \in [Asks -> Requests] /\ AgeWithinTTL'
      BY <1>1, <2>1, <3>3, RequestsKept DEF Answered, r
    <3> QED  BY <1>1, <1>2, <1>3, <1>7, <3>4, PartsNext DEF RedisAnswers
  <2>2. CASE Searching(a, k)
    <3>1. Request("searching", k, None) \in Requests /\ Request("searching", k, None).answer = None
      BY <2>0 DEF Request, Requests, Stages
    <3> QED  BY <1>1, <1>2, <1>3, <1>7, <2>2, <3>1, RequestsKept, PartsNext DEF RedisAnswers, Searching
  <2> QED  BY <1>7, <2>1, <2>2 DEF RedisAnswers
<1>8. ASSUME NEW a \in Asks, RedisGetFails(a)
      PROVE  IInv'
  <2>1. ask[a].key \in Keys
    BY <1>8 DEF HaveKeys, RedisGetFails
  <2> QED  BY <1>1, <1>3, <1>8, <2>1, GetKeeps, PartsNext DEF RedisGetFails
<1>9. ASSUME NEW a \in Asks, Search(a)
      PROVE  IInv'
  <2>1. ask[a].key \in Keys
    BY <1>9 DEF HaveKeys, Search
  <2>2. MapInv'
    BY <1>1, <1>2, <1>9, <2>1, SetKeeps DEF Search
  <2>3. ask' \in [Asks -> Requests] /\ AgeWithinTTL'
    BY <1>1, <1>9, ComputedKeeps DEF Search, Stages
  <2> QED  BY <1>1, <1>3, <1>9, <2>2, <2>3, PartsNext DEF Search
<1>10. ASSUME NEW a \in Asks, SearchFails(a)
       PROVE  IInv'
  <2>1. ask' \in [Asks -> Requests] /\ AgeWithinTTL'
    BY <1>1, <1>10, ComputedKeeps DEF SearchFails, Stages
  <2> QED  BY <1>1, <1>2, <1>3, <1>10, <2>1, PartsNext DEF SearchFails
<1>11. ASSUME NEW a \in Asks, RedisStores(a)
       PROVE  IInv'
  <2>1. ask[a].key \in Keys
    BY <1>11 DEF HaveKeys, RedisStores
  <2>2. ask' \in [Asks -> Requests] /\ AgeWithinTTL'
    BY <1>1, <1>11, ComputedKeeps DEF RedisStores, Stages
  <2>3. RedisInv'
    BY <1>1, <1>11, <2>1, PutKeeps DEF RedisStores
  <2> QED  BY <1>1, <1>2, <1>11, <2>2, <2>3, PartsNext DEF RedisStores
<1>12. ASSUME NEW a \in Asks, RedisSetFails(a)
       PROVE  IInv'
  <2>1. ask[a].key \in Keys
    BY <1>12 DEF HaveKeys, RedisSetFails
  <2>2. ask' \in [Asks -> Requests] /\ AgeWithinTTL'
    BY <1>1, <1>12, ComputedKeeps DEF RedisSetFails, Stages
  <2>3. RedisInv'
    BY <1>1, <1>3, <1>12, <2>1, PutKeeps DEF RedisSetFails
  <2>4. MapInv'
    BY <1>1, <1>12, <2>1, SetKeeps DEF RedisSetFails
  <2> QED  BY <1>1, <1>12, <2>2, <2>3, <2>4, PartsNext DEF RedisSetFails
<1> QED  BY <1>4, <1>5, <1>6, <1>7, <1>8, <1>9, <1>10, <1>11, <1>12 DEF Next

\* Only a put gives up an answer that has not expired.
LEMMA EvictsStep ==
  ASSUME IInv, HaveKeys, [Next]_vars, NEW k \in Keys, Live(k), store'[k] = None
  PROVE  Cardinality(since'[k]) >= MaxSize
<1>1. MapInv /\ now \in Times /\ store[k] # None
  BY Parts DEF Live
<1>2. \A a \in Asks : ask[a].stage \in {"getting", "searching", "setting"} => ask[a].key \in Keys
  BY DEF HaveKeys
<1>3. ASSUME NEW j \in Keys, MemoryHit(j) \/ MemoryMiss(j)
      PROVE  FALSE
  BY <1>1, <1>3 DEF MemoryHit, MemoryMiss, MapInv, Live
<1>4. ASSUME NEW j \in Keys, MemorySet(j)
      PROVE  Cardinality(since'[k]) >= MaxSize
  BY <1>1, <1>4, SetKeeps
<1>5. store' # store
  BY <1>1
<1>6. \/ \E j \in Keys : MemoryHit(j) \/ MemoryMiss(j) \/ MemorySet(j)
      \/ store' = store
  <2>1. CASE UNCHANGED vars \/ Tick
    BY <2>1 DEF vars, Tick
  <2>2. ASSUME NEW a \in Asks, NEW j \in Keys, Arrive(a, j)
        PROVE  <1>6!1 \/ <1>6!2
    BY <2>2 DEF Arrive, MemoryGet, memory
  <2>3. ASSUME NEW a \in Asks, RedisAnswers(a) \/ SearchFails(a) \/ RedisStores(a)
        PROVE  store' = store
    BY <2>3 DEF RedisAnswers, SearchFails, RedisStores, memory
  <2>4. ASSUME NEW a \in Asks, RedisGetFails(a)
        PROVE  <1>6!1 \/ <1>6!2
    BY <1>2, <2>4 DEF RedisGetFails, MemoryGet
  <2>5. ASSUME NEW a \in Asks, Search(a) \/ RedisSetFails(a)
        PROVE  <1>6!1 \/ <1>6!2
    BY <1>2, <2>5 DEF Search, RedisSetFails, memory
  <2> QED  BY <2>1, <2>2, <2>3, <2>4, <2>5 DEF Next
<1> QED  BY <1>3, <1>4, <1>5, <1>6

-----------------------------------------------------------------------------

\* The map never holds more than its size, its expiries belong to what it holds,
\* and every request and entry has its type.
THEOREM CacheTypeCorrect == Spec => []TypeOK
<1>1. Init => IInv /\ HaveKeys
  BY IInvInit
<1>2. IInv /\ HaveKeys /\ [Next]_vars => (IInv /\ HaveKeys)'
  BY IInvStep, HaveKeysStep DEF IInv
<1>3. IInv => TypeOK
  BY DEF IInv
<1> QED  BY <1>1, <1>2, <1>3, PTL DEF Spec

\* No answer taken from the cache is TTL old or older, whether it came from the
\* map or from Redis.
THEOREM AnswersAreYoung == Spec => []AgeWithinTTL
<1>1. Init => IInv /\ HaveKeys
  BY IInvInit
<1>2. IInv /\ HaveKeys /\ [Next]_vars => (IInv /\ HaveKeys)'
  BY IInvStep, HaveKeysStep DEF IInv
<1>3. IInv => AgeWithinTTL
  BY DEF IInv
<1> QED  BY <1>1, <1>2, <1>3, PTL DEF Spec

\* An answer that has not expired is only given up after MaxSize other keys have
\* been used since it was.
THEOREM EvictionIsByUse == Spec => EvictsLeastUsed
<1>1. Init => IInv /\ HaveKeys
  BY IInvInit
<1>2. IInv /\ HaveKeys /\ [Next]_vars => (IInv /\ HaveKeys)'
  BY IInvStep, HaveKeysStep DEF IInv
<1>3. IInv /\ HaveKeys /\ [Next]_vars =>
        [\A k \in Keys : Live(k) /\ store'[k] = None => Cardinality(since'[k]) >= MaxSize]_vars
  BY EvictsStep
<1> QED  BY <1>1, <1>2, <1>3, PTL DEF Spec, EvictsLeastUsed

-----------------------------------------------------------------------------
(* The inspector: what a call remembers is tied to the two stores.         *)

AllChunks == Docs \X (0..ChunksPer)
CallStage == {"new", "points", "rows", "ok", "failed", "lost"}
Call == [pc : CallStage, doc : Docs \union {NoDoc}, seen : SUBSET AllChunks, taken : SUBSET AllChunks]

InspectorTypeOK ==
    /\ exists \subseteq Docs /\ rows \subseteq AllChunks /\ held \subseteq AllChunks
    /\ uploads \in [Docs -> {"none", "rows", "done", "failed"}]
    /\ calls \in [Calls -> Call]

\* What is in the stores was put there by an upload.
StoresOK ==
    /\ \A r \in rows : r \in ChunksOf(r[1]) /\ uploads[r[1]] # "none"
    /\ \A p \in held : uploads[p[1]] \in {"done", "failed"} /\ (p[1] \in Sheets => p[2] = 0)
    /\ \A d \in Sheets : uploads[d] = "done" => <<d, 0>> \in held

CallOK(c) ==
    /\ calls[c].taken \subseteq calls[c].seen
    /\ \A r \in calls[c].seen : r[1] = calls[c].doc /\ r[2] # 0
    /\ \A r \in calls[c].taken : r \notin held /\ uploads[r[1]] \in {"done", "failed"}
    /\ calls[c].pc # "new" => calls[c].doc \in Docs /\ uploads[calls[c].doc] # "none"
    /\ calls[c].pc \in {"new", "points"} => calls[c].taken = {}
    /\ calls[c].pc \in {"points", "rows"} => RowsOf(calls[c].doc) \subseteq calls[c].seen
    /\ calls[c].pc = "ok" => calls[c].doc \notin exists /\ RowsOf(calls[c].doc) = {}

\* A chunk that is no longer there was seen by the deletion that removed it.
MissingWereSeen ==
    \A d \in Docs : \A r \in ChunksOf(d) :
        uploads[d] # "none" /\ r \notin rows =>
            \E c \in Calls : calls[c].pc \in {"ok", "failed"} /\ r \in calls[c].seen

InspectorInv ==
    /\ InspectorTypeOK /\ StoresOK /\ (\A c \in Calls : CallOK(c))
    /\ MissingWereSeen /\ RowsHavePoints /\ OrphansWereSeen

USE InspectorAssumption DEF CallStage

\* A chunk is one of its document, and not numbered 0.
LEMMA ChunksAre ==
    ASSUME NEW d \in Docs, NEW r \in ChunksOf(d)
    PROVE  /\ r \in AllChunks /\ r[1] = d /\ r[2] # 0
           /\ PointOf(r) \in AllChunks /\ PointOf(r)[1] = d
           /\ d \in Sheets => r = <<d, 1>> /\ PointOf(r) = <<d, 0>>
           /\ d \notin Sheets => PointOf(r) = r
  <1> DEFINE last == IF d \in Sheets THEN 1 ELSE ChunksPer
  <1>1. last \in 1..ChunksPer /\ (d \in Sheets => last = 1)
    OBVIOUS
  <1>2. PICK k \in 1..last : r = <<d, k>>
    BY DEF ChunksOf
  <1> HIDE DEF last
  <1>3. k \in 1..ChunksPer /\ (d \in Sheets => k = 1)
    BY <1>1
  <1> QED BY <1>2, <1>3 DEF AllChunks, PointOf

\* The point of a document that is no row is its chunk.
LEMMA OwnPoints ==
    ASSUME StoresOK, NEW p, p[1] \notin Sheets
    PROVE  p \in {PointOf(r) : r \in rows} <=> p \in rows
  <1>1. ASSUME NEW r \in rows, p = PointOf(r) PROVE p \in rows
    <2>1. r[1] \notin Sheets
      BY <1>1 DEF PointOf
    <2> QED BY <1>1, <2>1 DEF PointOf
  <1>2. ASSUME p \in rows PROVE p = PointOf(p)
    BY DEF PointOf
  <1> QED BY <1>1, <1>2

\* OrphansWereSeen, told of the rows themselves.
Orphans == {p \in held : p[1] \notin Sheets /\ p \notin rows}
LEMMA OrphansAre ==
    ASSUME StoresOK
    PROVE  OrphansWereSeen <=>
              \A p \in Orphans : \E c \in Calls :
                  calls[c].pc \in {"ok", "failed"} /\ p \in calls[c].seen \ calls[c].taken
  BY OwnPoints DEF OrphansWereSeen, Orphans

\* The same of the next state.
LEMMA OrphansAreNext ==
    ASSUME StoresOK'
    PROVE  OrphansWereSeen' <=>
              \A p \in Orphans' : \E c \in Calls :
                  calls'[c].pc \in {"ok", "failed"} /\ p \in calls'[c].seen \ calls'[c].taken
  <1>1. ASSUME NEW p, p[1] \notin Sheets
        PROVE  p \in {PointOf(r) : r \in rows'} <=> p \in rows'
    <2>1. ASSUME NEW r \in rows', p = PointOf(r) PROVE p \in rows'
      <3>1. r[1] \notin Sheets
        BY <1>1, <2>1 DEF PointOf
      <3> QED BY <2>1, <3>1 DEF PointOf
    <2>2. ASSUME p \in rows' PROVE p = PointOf(p)
      BY <1>1 DEF PointOf
    <2> QED BY <2>1, <2>2
  <1> QED BY <1>1 DEF OrphansWereSeen, Orphans, PointOf

\* The inductive invariant is enough.
LEMMA InspectorInvEnough == InspectorInv => DeletionsSound
  BY DEF InspectorInv, StoresOK, CallOK, DeletionsSound

\* In the beginning the stores are empty and no call remembers anything.
LEMMA InitGivesInspectorInv == InspectorInit => InspectorInv
  BY DEF InspectorInit, InspectorInv, InspectorTypeOK, StoresOK, CallOK, NewCall, Call, MissingWereSeen,
         RowsHavePoints, OrphansWereSeen, RowsOf

\* A step that leaves the stores alone, fails uploads, and lets a call begin or
\* end otherwise than well, changes nothing else.
LEMMA QuietKeeps ==
    ASSUME InspectorInv, UNCHANGED <<exists, rows, held>>,
           uploads' \in [Docs -> {"none", "rows", "done", "failed"}],
           \A d \in Docs : uploads'[d] = uploads[d] \/ (uploads[d] = "rows" /\ uploads'[d] = "failed"),
           calls' \in [Calls -> Call],
           \A c \in Calls :
              \/ calls'[c] = calls[c]
              \/ /\ calls[c].pc \in {"points", "rows"} /\ calls'[c].pc \in {"failed", "lost"}
                 /\ calls'[c].doc = calls[c].doc
                 /\ calls'[c].seen = calls[c].seen /\ calls'[c].taken = calls[c].taken
              \/ /\ calls[c].pc = "new" /\ calls'[c].taken = {}
                 /\ calls'[c].pc \in {"points", "failed"}
                 /\ calls'[c].doc \in Docs /\ uploads[calls'[c].doc] # "none"
                 /\ \A r \in calls'[c].seen : r[1] = calls'[c].doc /\ r[2] # 0
                 /\ calls'[c].pc = "points" => RowsOf(calls'[c].doc) \subseteq calls'[c].seen
    PROVE  InspectorInv'
  <1>0. /\ InspectorTypeOK /\ StoresOK /\ MissingWereSeen /\ RowsHavePoints /\ OrphansWereSeen
        /\ \A c \in Calls : CallOK(c)
    BY DEF InspectorInv
  <1>1. InspectorTypeOK'
    BY <1>0 DEF InspectorTypeOK
  <1>2. \A d \in Docs : /\ uploads[d] \in {"done", "failed"} => uploads'[d] \in {"done", "failed"}
                        /\ uploads[d] = "none" <=> uploads'[d] = "none"
                        /\ uploads'[d] = "done" => uploads[d] = "done"
                        /\ uploads[d] \in {"rows", "failed"} => uploads'[d] \in {"rows", "failed"}
    BY <1>0 DEF InspectorTypeOK
  <1>3. \A r \in AllChunks : r[1] \in Docs
    BY DEF AllChunks
  <1>4. StoresOK'
    BY <1>0, <1>2, <1>3 DEF StoresOK, InspectorTypeOK, ChunksOf
  <1>5. \A c \in Calls : CallOK(c)'
    <2> SUFFICES ASSUME NEW c \in Calls PROVE CallOK(c)'
      OBVIOUS
    <2>1. CallOK(c) /\ calls[c] \in Call
      BY <1>0 DEF InspectorTypeOK
    <2>2. CASE calls'[c] = calls[c]
      <3>1. \A r \in calls[c].taken : r[1] \in Docs
        BY <1>3, <2>1 DEF Call
      <3> QED BY <1>2, <2>1, <2>2, <3>1 DEF CallOK, RowsOf
    <2>3. CASE /\ calls[c].pc \in {"points", "rows"} /\ calls'[c].pc \in {"failed", "lost"}
               /\ calls'[c].doc = calls[c].doc
               /\ calls'[c].seen = calls[c].seen /\ calls'[c].taken = calls[c].taken
      <3>1. \A r \in calls[c].taken : r[1] \in Docs
        BY <1>3, <2>1 DEF Call
      <3> QED BY <1>2, <2>1, <2>3, <3>1 DEF CallOK, RowsOf
    <2>4. CASE /\ calls[c].pc = "new" /\ calls'[c].taken = {}
               /\ calls'[c].pc \in {"points", "failed"}
               /\ calls'[c].doc \in Docs /\ uploads[calls'[c].doc] # "none"
               /\ \A r \in calls'[c].seen : r[1] = calls'[c].doc /\ r[2] # 0
               /\ calls'[c].pc = "points" => RowsOf(calls'[c].doc) \subseteq calls'[c].seen
      BY <1>2, <2>4 DEF CallOK, RowsOf
    <2> QED BY <2>2, <2>3, <2>4
  <1>6. \A c \in Calls : calls[c].pc \in {"ok", "failed"} => calls'[c] = calls[c]
    OBVIOUS
  <1>7. MissingWereSeen'
    BY <1>0, <1>2, <1>6 DEF MissingWereSeen, ChunksOf
  <1>8. RowsHavePoints'
    <2> SUFFICES ASSUME NEW r \in rows, PointOf(r) \notin held, uploads'[r[1]] \notin {"rows", "failed"}
                 PROVE  \E c \in Calls : calls'[c].pc # "ok" /\ r \in calls'[c].taken
      BY DEF RowsHavePoints, PointOf
    <2>1. uploads[r[1]] \notin {"rows", "failed"}
      BY <1>0, <1>2, <1>3 DEF InspectorTypeOK
    <2>2. PICK c \in Calls : calls[c].pc # "ok" /\ r \in calls[c].taken
      BY <1>0, <2>1 DEF RowsHavePoints
    <2>3. calls[c].pc # "new"
      BY <1>0, <2>2 DEF CallOK
    <2> QED BY <2>2, <2>3
  <1>9. OrphansWereSeen'
    BY <1>0, <1>6 DEF OrphansWereSeen, PointOf
  <1> QED BY <1>1, <1>4, <1>5, <1>7, <1>8, <1>9 DEF InspectorInv

\* An upload commits its rows, of which nothing is known yet.
LEMMA CommitKeeps ==
    ASSUME InspectorInv, NEW d \in Docs, CommitRows(d)
    PROVE  InspectorInv'
  <1>0. /\ InspectorTypeOK /\ StoresOK /\ MissingWereSeen /\ RowsHavePoints /\ OrphansWereSeen
        /\ \A c \in Calls : CallOK(c)
    BY DEF InspectorInv
  <1>1. /\ uploads[d] = "none" /\ exists' = exists \union {d} /\ rows' = rows \union ChunksOf(d)
        /\ UNCHANGED <<held, calls>>
    BY DEF CommitRows
  <1>2. PICK to \in {"rows", "failed"} : uploads' = [uploads EXCEPT ![d] = to]
    BY DEF CommitRows
  <1>3. uploads'[d] = to /\ \A e \in Docs : e # d => uploads'[e] = uploads[e]
    BY <1>0, <1>2 DEF InspectorTypeOK
  <1>4. \A r \in ChunksOf(d) : r \in AllChunks /\ r[1] = d /\ PointOf(r)[1] = d
    BY ChunksAre
  <1>5. InspectorTypeOK'
    BY <1>0, <1>1, <1>2, <1>4 DEF InspectorTypeOK
  <1>6. \A r \in AllChunks : r[1] \in Docs
    BY DEF AllChunks
  <1>7. \A p \in held : p[1] # d /\ p[1] \in Docs
    BY <1>0, <1>1, <1>6 DEF StoresOK, InspectorTypeOK
  <1>8. StoresOK'
    <2>1. \A r \in rows' : r \in ChunksOf(r[1]) /\ uploads'[r[1]] # "none"
      BY <1>0, <1>1, <1>3, <1>4, <1>6 DEF StoresOK, InspectorTypeOK
    <2>2. \A p \in held' : uploads'[p[1]] \in {"done", "failed"} /\ (p[1] \in Sheets => p[2] = 0)
      BY <1>0, <1>1, <1>3, <1>7 DEF StoresOK
    <2>3. \A e \in Sheets : uploads'[e] = "done" => <<e, 0>> \in held'
      BY <1>0, <1>1, <1>3 DEF StoresOK
    <2> QED BY <2>1, <2>2, <2>3 DEF StoresOK, ChunksOf
  <1>9. \A c \in Calls : CallOK(c)'
    <2> SUFFICES ASSUME NEW c \in Calls PROVE CallOK(c)'
      OBVIOUS
    <2>1. CallOK(c) /\ calls[c] \in Call
      BY <1>0 DEF InspectorTypeOK
    <2>2. calls[c].pc # "new" => calls[c].doc \in Docs /\ calls[c].doc # d
      BY <1>1, <2>1 DEF CallOK
    <2>3. calls[c].pc # "new" => RowsOf(calls[c].doc)' = RowsOf(calls[c].doc)
      BY <1>1, <1>4, <2>2 DEF RowsOf
    <2>4. \A r \in calls[c].taken : r[1] \in Docs /\ r[1] # d
      BY <1>1, <1>6, <2>1 DEF CallOK, Call
    <2> QED BY <1>1, <1>3, <2>1, <2>2, <2>3, <2>4 DEF CallOK
  <1>10. MissingWereSeen'
    BY <1>0, <1>1, <1>3 DEF MissingWereSeen, ChunksOf
  <1>11. RowsHavePoints'
    <2> SUFFICES ASSUME NEW r \in rows', PointOf(r) \notin held, uploads'[r[1]] \notin {"rows", "failed"}
                 PROVE  \E c \in Calls : calls[c].pc # "ok" /\ r \in calls[c].taken
      BY <1>1 DEF RowsHavePoints, PointOf
    <2>1. r[1] # d /\ r \in rows
      BY <1>1, <1>3, <1>4
    <2>2. uploads[r[1]] \notin {"rows", "failed"}
      BY <1>0, <1>3, <1>6, <2>1 DEF InspectorTypeOK
    <2> QED BY <1>0, <2>1, <2>2 DEF RowsHavePoints
  <1>12. OrphansWereSeen'
    <2>1. Orphans' \subseteq Orphans
      BY <1>1 DEF Orphans
    <2>2. \A p \in Orphans : \E c \in Calls :
             calls[c].pc \in {"ok", "failed"} /\ p \in calls[c].seen \ calls[c].taken
      BY <1>0, OrphansAre
    <2>3. OrphansWereSeen' <=> \A p \in Orphans' : \E c \in Calls :
             calls'[c].pc \in {"ok", "failed"} /\ p \in calls'[c].seen \ calls'[c].taken
      BY <1>8, OrphansAreNext
    <2> QED BY <1>1, <2>1, <2>2, <2>3
  <1> QED BY <1>5, <1>8, <1>9, <1>10, <1>11, <1>12 DEF InspectorInv

\* Points come to rows that may have gone meanwhile: a deletion saw those.
LEMMA UpsertKeeps ==
    ASSUME InspectorInv, NEW d \in Docs, UpsertPoints(d)
    PROVE  InspectorInv'
  <1>0. /\ InspectorTypeOK /\ StoresOK /\ MissingWereSeen /\ RowsHavePoints /\ OrphansWereSeen
        /\ \A c \in Calls : CallOK(c)
    BY DEF InspectorInv
  <1> DEFINE put == {PointOf(r) : r \in ChunksOf(d)}
  <1>1. CASE uploads' = [uploads EXCEPT ![d] = "failed"] /\ UNCHANGED held
    <2>1. uploads[d] = "rows" /\ UNCHANGED <<exists, rows, calls>>
      BY DEF UpsertPoints
    <2>2. uploads' \in [Docs -> {"none", "rows", "done", "failed"}] /\ calls' \in [Calls -> Call]
      BY <1>0, <1>1, <2>1 DEF InspectorTypeOK
    <2>3. \A e \in Docs : uploads'[e] = uploads[e] \/ (uploads[e] = "rows" /\ uploads'[e] = "failed")
      BY <1>0, <1>1, <2>1 DEF InspectorTypeOK
    <2> QED BY <1>1, <2>1, <2>2, <2>3, QuietKeeps
  <1>2. ASSUME NEW to \in {"done", "failed"}, held' = held \union put, uploads' = [uploads EXCEPT ![d] = to]
        PROVE  InspectorInv'
    <2>1. uploads[d] = "rows" /\ UNCHANGED <<exists, rows, calls>>
      BY DEF UpsertPoints
    <2>2. uploads'[d] = to /\ \A e \in Docs : e # d => uploads'[e] = uploads[e]
      BY <1>0, <1>2 DEF InspectorTypeOK
    <2>3. \A p \in put : /\ p \in AllChunks /\ p[1] = d
                         /\ d \in Sheets => p = <<d, 0>>
                         /\ d \notin Sheets => p \in ChunksOf(d)
      BY ChunksAre
    <2>4. \A r \in AllChunks : r[1] \in Docs
      BY DEF AllChunks
    <2>5. d \in Sheets => <<d, 0>> \in put
      <3>1. d \in Sheets => <<d, 1>> \in ChunksOf(d)
        BY DEF ChunksOf
      <3> QED BY <3>1, ChunksAre
    <2>6. \A r \in rows : r[1] = d => PointOf(r) \in put
      BY <1>0 DEF StoresOK
    <2> HIDE DEF put
    <2>7. InspectorTypeOK'
      BY <1>0, <1>2, <2>1, <2>3 DEF InspectorTypeOK
    <2>8. StoresOK'
      <3>1. \A r \in rows' : r \in ChunksOf(r[1]) /\ uploads'[r[1]] # "none"
        BY <1>0, <2>1, <2>2, <2>4 DEF StoresOK, InspectorTypeOK
      <3>2. \A p \in held' : uploads'[p[1]] \in {"done", "failed"} /\ (p[1] \in Sheets => p[2] = 0)
        BY <1>0, <1>2, <2>2, <2>3, <2>4 DEF StoresOK, InspectorTypeOK
      <3>3. \A e \in Sheets : uploads'[e] = "done" => <<e, 0>> \in held'
        BY <1>0, <1>2, <2>2, <2>5 DEF StoresOK
      <3> QED BY <3>1, <3>2, <3>3 DEF StoresOK, ChunksOf
    <2>9. \A c \in Calls : \A r \in calls[c].taken : r[1] \in Docs /\ r[1] # d
      BY <1>0, <2>1, <2>4 DEF CallOK, InspectorTypeOK, Call
    <2>10. \A c \in Calls : CallOK(c)'
      BY <1>0, <1>2, <2>1, <2>2, <2>3, <2>9 DEF CallOK, RowsOf
    <2>11. MissingWereSeen'
      BY <1>0, <2>1, <2>2 DEF MissingWereSeen, ChunksOf
    <2>12. RowsHavePoints'
      <3> SUFFICES ASSUME NEW r \in rows, PointOf(r) \notin held', uploads'[r[1]] \notin {"rows", "failed"}
                   PROVE  \E c \in Calls : calls[c].pc # "ok" /\ r \in calls[c].taken
        BY <2>1 DEF RowsHavePoints, PointOf
      <3>1. r[1] # d /\ r[1] \in Docs /\ PointOf(r) \notin held
        BY <1>0, <1>2, <2>4, <2>6 DEF InspectorTypeOK
      <3> QED BY <1>0, <2>2, <3>1 DEF RowsHavePoints
    <2>13. OrphansWereSeen'
      <3>1. ASSUME NEW p \in Orphans'
            PROVE  \E c \in Calls : calls[c].pc \in {"ok", "failed"} /\ p \in calls[c].seen \ calls[c].taken
        <4>1. CASE p \in held
          BY <1>0, <2>1, <4>1, OrphansAre DEF Orphans
        <4>2. CASE p \in put
          <5>1. p \in ChunksOf(d) /\ p \notin rows
            BY <2>1, <2>3, <4>2 DEF Orphans
          <5>2. PICK c \in Calls : calls[c].pc \in {"ok", "failed"} /\ p \in calls[c].seen
            BY <1>0, <2>1, <5>1 DEF MissingWereSeen
          <5>3. p \notin calls[c].taken
            BY <2>3, <2>9, <4>2
          <5> QED BY <5>2, <5>3
        <4> QED BY <1>2, <4>1, <4>2 DEF Orphans
      <3> QED BY <2>1, <2>8, <3>1, OrphansAreNext
    <2> QED BY <2>7, <2>8, <2>10, <2>11, <2>12, <2>13 DEF InspectorInv
  <1> QED BY <1>1, <1>2 DEF UpsertPoints

\* The points a call takes are those of rows it will delete.
LEMMA PointsKeep ==
    ASSUME InspectorInv, NEW c \in Calls, DeletePoints(c)
    PROVE  InspectorInv'
  <1>0. /\ InspectorTypeOK /\ StoresOK /\ MissingWereSeen /\ RowsHavePoints /\ OrphansWereSeen
        /\ \A b \in Calls : CallOK(b)
    BY DEF InspectorInv
  <1>1. PICK gone \in {{}, calls[c].seen \intersect held} :
           /\ held' = held \ gone
           /\ calls' = [calls EXCEPT ![c].pc = "rows", ![c].taken = gone]
    BY DEF DeletePoints
  <1>2. calls[c].pc = "points" /\ UNCHANGED <<exists, rows, uploads>> /\ calls[c].taken = {}
    BY <1>0 DEF DeletePoints, CallOK
  <1>3. /\ calls'[c].pc = "rows" /\ calls'[c].doc = calls[c].doc
        /\ calls'[c].seen = calls[c].seen /\ calls'[c].taken = gone
        /\ \A b \in Calls : b # c => calls'[b] = calls[b]
    BY <1>0, <1>1 DEF InspectorTypeOK, Call
  <1>4. gone \subseteq calls[c].seen /\ gone \subseteq held /\ \A r \in gone : r[2] # 0
    BY <1>0, <1>1 DEF CallOK
  <1>5. InspectorTypeOK'
    <2>1. gone \in SUBSET AllChunks /\ held' \subseteq AllChunks
      BY <1>0, <1>1, <1>4 DEF InspectorTypeOK
    <2>2. calls[c] \in Call /\ "rows" \in CallStage
      BY <1>0 DEF InspectorTypeOK, CallStage
    <2>3. [calls[c] EXCEPT !.pc = "rows", !.taken = gone] \in Call
      BY <2>1, <2>2 DEF Call
    <2>4. calls' \in [Calls -> Call]
      BY <1>0, <1>1, <2>3 DEF InspectorTypeOK
    <2> QED BY <1>0, <1>2, <2>1, <2>4 DEF InspectorTypeOK
  <1>6. \A d \in Docs : <<d, 0>> \notin gone
    BY <1>4
  <1>7. StoresOK'
    BY <1>0, <1>1, <1>2, <1>6 DEF StoresOK, ChunksOf
  <1>8. \A b \in Calls : CallOK(b)'
    <2> SUFFICES ASSUME NEW b \in Calls PROVE CallOK(b)'
      OBVIOUS
    <2>1. CallOK(b) /\ held' \subseteq held
      BY <1>0, <1>1
    <2>2. CASE b = c
      <3>1. \A r \in gone : r \notin held' /\ uploads[r[1]] \in {"done", "failed"}
        BY <1>0, <1>1, <1>4 DEF StoresOK
      <3> QED BY <1>2, <1>3, <1>4, <2>1, <2>2, <3>1 DEF CallOK, RowsOf
    <2>3. CASE b # c
      BY <1>2, <1>3, <2>1, <2>3 DEF CallOK, RowsOf
    <2> QED BY <2>2, <2>3
  <1>9. \A b \in Calls : calls[b].pc \in {"ok", "failed"} => calls'[b] = calls[b]
    BY <1>2, <1>3
  <1>10. MissingWereSeen'
    BY <1>0, <1>2, <1>9 DEF MissingWereSeen, ChunksOf
  <1>11. RowsHavePoints'
    <2> SUFFICES ASSUME NEW r \in rows, PointOf(r) \notin held', uploads[r[1]] \notin {"rows", "failed"}
                 PROVE  \E b \in Calls : calls'[b].pc # "ok" /\ r \in calls'[b].taken
      BY <1>2 DEF RowsHavePoints, PointOf
    <2>1. CASE PointOf(r) \in gone
      <3>1. r \in gone
        <4>1. r \in ChunksOf(r[1]) /\ r[1] \in Docs
          BY <1>0 DEF StoresOK, InspectorTypeOK, AllChunks
        <4> QED BY <1>6, <2>1, <4>1, ChunksAre
      <3> QED BY <1>3, <3>1
    <2>2. CASE PointOf(r) \notin held
      <3>1. PICK b \in Calls : calls[b].pc # "ok" /\ r \in calls[b].taken
        BY <1>0, <2>2 DEF RowsHavePoints
      <3> QED BY <1>2, <1>3, <3>1
    <2> QED BY <1>1, <2>1, <2>2
  <1>12. OrphansWereSeen'
    <2>1. Orphans' \subseteq Orphans
      BY <1>1, <1>2 DEF Orphans
    <2> QED BY <1>0, <1>7, <1>9, <2>1, OrphansAre, OrphansAreNext
  <1> QED BY <1>5, <1>7, <1>8, <1>10, <1>11, <1>12 DEF InspectorInv

\* The rows of a document go with the last call to take their points; a point
\* that stays behind is one this call saw and left.
LEMMA RowsKeep ==
    ASSUME InspectorInv, NEW c \in Calls, DeleteRows(c)
    PROVE  InspectorInv'
  <1>0. /\ InspectorTypeOK /\ StoresOK /\ MissingWereSeen /\ RowsHavePoints /\ OrphansWereSeen
        /\ \A b \in Calls : CallOK(b)
    BY DEF InspectorInv
  <1>1. /\ calls[c].pc = "rows" /\ UNCHANGED <<held, uploads>>
        /\ rows' = rows \ RowsOf(calls[c].doc)
        /\ exists' = exists \ {calls[c].doc}
    BY DEF DeleteRows
  <1>2. PICK to \in {"ok", "failed"} : calls' = [calls EXCEPT ![c].pc = to]
    BY DEF DeleteRows
  <1>3. /\ calls'[c].pc = to /\ calls'[c].doc = calls[c].doc
        /\ calls'[c].seen = calls[c].seen /\ calls'[c].taken = calls[c].taken
        /\ \A b \in Calls : b # c => calls'[b] = calls[b]
    BY <1>0, <1>2 DEF InspectorTypeOK, Call
  <1>4. RowsOf(calls[c].doc) \subseteq calls[c].seen
    BY <1>0, <1>1 DEF CallOK
  <1>5. InspectorTypeOK'
    BY <1>0, <1>1, <1>2 DEF InspectorTypeOK, Call
  <1>6. StoresOK'
    BY <1>0, <1>1 DEF StoresOK, ChunksOf
  <1>7. \A b \in Calls : CallOK(b)'
    BY <1>0, <1>1, <1>3 DEF CallOK, RowsOf
  <1>8. \A b \in Calls : calls[b].pc \in {"ok", "failed"} => calls'[b] = calls[b]
    BY <1>1, <1>3
  <1>9. MissingWereSeen'
    <2> SUFFICES ASSUME NEW d \in Docs, NEW r \in ChunksOf(d), uploads[d] # "none", r \notin rows'
                 PROVE  \E b \in Calls : calls'[b].pc \in {"ok", "failed"} /\ r \in calls'[b].seen
      BY <1>1 DEF MissingWereSeen, ChunksOf
    <2>1. CASE r \in rows
      BY <1>1, <1>3, <1>4, <2>1
    <2>2. CASE r \notin rows
      BY <1>0, <1>8, <2>2 DEF MissingWereSeen
    <2> QED BY <2>1, <2>2
  <1>10. RowsHavePoints'
    <2> SUFFICES ASSUME NEW r \in rows', PointOf(r) \notin held, uploads[r[1]] \notin {"rows", "failed"}
                 PROVE  \E b \in Calls : calls'[b].pc # "ok" /\ r \in calls'[b].taken
      BY <1>1 DEF RowsHavePoints, PointOf
    <2>1. PICK b \in Calls : calls[b].pc # "ok" /\ r \in calls[b].taken
      BY <1>0, <1>1 DEF RowsHavePoints
    <2>2. b # c
      <3>1. \A s \in calls[c].taken : s[1] = calls[c].doc
        BY <1>0 DEF CallOK
      <3> QED BY <1>1, <2>1, <3>1 DEF RowsOf
    <2> QED BY <1>3, <2>1, <2>2
  <1>11. OrphansWereSeen'
    <2>1. ASSUME NEW p \in Orphans'
          PROVE  \E b \in Calls : calls'[b].pc \in {"ok", "failed"} /\ p \in calls'[b].seen \ calls'[b].taken
      <3>1. CASE p \in rows
        <4>1. p \in calls[c].seen
          BY <1>1, <1>4, <2>1, <3>1 DEF Orphans
        <4>2. p \notin calls[c].taken
          BY <1>0, <1>1, <2>1 DEF CallOK, Orphans
        <4> QED BY <1>3, <4>1, <4>2
      <3>2. CASE p \notin rows
        <4>1. p \in Orphans
          BY <1>1, <2>1, <3>2 DEF Orphans
        <4> QED BY <1>0, <1>8, <4>1, OrphansAre
      <3> QED BY <3>1, <3>2
    <2> QED BY <1>6, <2>1, OrphansAreNext
  <1> QED BY <1>5, <1>6, <1>7, <1>9, <1>10, <1>11 DEF InspectorInv

\* Every step keeps the invariant.
LEMMA InspectorStep == InspectorInv /\ [InspectorNext]_inspectorVars => InspectorInv'
  <1> SUFFICES ASSUME InspectorInv, [InspectorNext]_inspectorVars PROVE InspectorInv'
    OBVIOUS
  <1>0. /\ calls \in [Calls -> Call] /\ rows \subseteq AllChunks
        /\ uploads \in [Docs -> {"none", "rows", "done", "failed"}]
        /\ \A c \in Calls : CallOK(c)
        /\ StoresOK
    BY DEF InspectorInv, InspectorTypeOK
  <1>1. ASSUME NEW c \in Calls, NEW d \in Docs, SelectChunks(c, d) PROVE InspectorInv'
    <2> DEFINE next == [NewCall EXCEPT !.pc = "points", !.doc = d, !.seen = RowsOf(d)]
    <2>1. /\ calls[c].pc = "new" /\ UNCHANGED <<exists, rows, held, uploads>> /\ uploads[d] # "none"
          /\ calls' = [calls EXCEPT ![c] = next]
      BY <1>1 DEF SelectChunks
    <2>2. RowsOf(d) \subseteq AllChunks /\ \A r \in RowsOf(d) : r[1] = d /\ r[2] # 0
      <3>1. \A r \in RowsOf(d) : r \in ChunksOf(d) /\ r[1] = d
        BY <1>0 DEF RowsOf, StoresOK
      <3> QED BY <3>1, ChunksAre
    <2>3. next \in Call /\ next.pc = "points" /\ next.doc = d /\ next.seen = RowsOf(d) /\ next.taken = {}
      BY <2>2 DEF NewCall, Call
    <2> HIDE DEF next
    <2>4. /\ calls' \in [Calls -> Call] /\ calls'[c] = next
          /\ \A b \in Calls : b # c => calls'[b] = calls[b]
      BY <1>0, <2>1, <2>3
    <2>5. /\ calls'[c].taken = {} /\ calls'[c].pc = "points" /\ calls'[c].doc = d
          /\ \A r \in calls'[c].seen : r[1] = calls'[c].doc /\ r[2] # 0
          /\ RowsOf(calls'[c].doc) \subseteq calls'[c].seen
      BY <2>2, <2>3, <2>4
    <2> QED BY <1>0, <2>1, <2>4, <2>5, QuietKeeps
  <1>2. ASSUME NEW c \in Calls, NEW d \in Docs, Reindex(c, d) PROVE InspectorInv'
    <2> DEFINE next == [NewCall EXCEPT !.pc = "failed", !.doc = d]
    <2>1. /\ calls[c].pc = "new" /\ UNCHANGED <<exists, rows, held, uploads>> /\ uploads[d] # "none"
          /\ calls' = [calls EXCEPT ![c] = next]
      BY <1>2 DEF Reindex
    <2>3. next \in Call /\ next.pc = "failed" /\ next.doc = d /\ next.seen = {} /\ next.taken = {}
      BY DEF NewCall, Call
    <2> HIDE DEF next
    <2>4. /\ calls' \in [Calls -> Call] /\ calls'[c] = next
          /\ \A b \in Calls : b # c => calls'[b] = calls[b]
      BY <1>0, <2>1, <2>3
    <2>5. /\ calls'[c].taken = {} /\ calls'[c].pc = "failed" /\ calls'[c].doc = d
          /\ \A r \in calls'[c].seen : r[1] = calls'[c].doc /\ r[2] # 0
      BY <2>3, <2>4
    <2> QED BY <1>0, <2>1, <2>4, <2>5, QuietKeeps
  <1>3. ASSUME NEW c \in Calls, DeletionFails(c) PROVE InspectorInv'
    <2>1. /\ calls[c].pc \in {"points", "rows"} /\ UNCHANGED <<exists, rows, held, uploads>>
          /\ calls' = [calls EXCEPT ![c].pc = "failed"]
      BY <1>3 DEF DeletionFails
    <2>2. /\ calls'[c].pc = "failed" /\ calls'[c].doc = calls[c].doc
          /\ calls'[c].seen = calls[c].seen /\ calls'[c].taken = calls[c].taken
          /\ \A b \in Calls : b # c => calls'[b] = calls[b]
          /\ calls' \in [Calls -> Call]
      BY <1>0, <2>1 DEF Call
    <2> QED BY <1>0, <2>1, <2>2, QuietKeeps
  <1>4. CASE StopServer
    <2>1. /\ UNCHANGED <<exists, rows, held>>
          /\ calls' = [c \in Calls |->
                IF calls[c].pc \in {"points", "rows"} THEN [calls[c] EXCEPT !.pc = "lost"] ELSE calls[c]]
          /\ uploads' = [d \in Docs |-> IF uploads[d] = "rows" THEN "failed" ELSE uploads[d]]
      BY <1>4 DEF StopServer
    <2>2. \A c \in Calls :
             \/ calls'[c] = calls[c]
             \/ /\ calls[c].pc \in {"points", "rows"} /\ calls'[c].pc = "lost" /\ calls'[c].doc = calls[c].doc
                /\ calls'[c].seen = calls[c].seen /\ calls'[c].taken = calls[c].taken
      BY <1>0, <2>1 DEF Call
    <2>3. calls' \in [Calls -> Call]
      BY <1>0, <2>1 DEF Call
    <2>4. /\ uploads' \in [Docs -> {"none", "rows", "done", "failed"}]
          /\ \A d \in Docs : uploads'[d] = uploads[d] \/ (uploads[d] = "rows" /\ uploads'[d] = "failed")
      BY <1>0, <2>1
    <2> QED BY <2>1, <2>2, <2>3, <2>4, QuietKeeps
  <1>5. CASE UNCHANGED inspectorVars
    BY <1>0, <1>5, QuietKeeps DEF inspectorVars
  <1> QED BY <1>1, <1>2, <1>3, <1>4, <1>5, CommitKeeps, UpsertKeeps, PointsKeep, RowsKeep DEF InspectorNext

(* Deletions of any documents may overlap with each other and with uploads, *)
(* fail between their two stores or be cut off by a stop of the server:    *)
(* who was told that a document is deleted finds nothing of it in the      *)
(* database, and a row without a point, or a point without a row, is the   *)
(* trace of a deletion or an upload that failed, of one that overtook the  *)
(* other, or of an Excel row (delete_document, rag_inspector.py).          *)
THEOREM DeletionsLeaveTraces == InspectorSpec => []DeletionsSound
  BY InitGivesInspectorInv, InspectorStep, InspectorInvEnough, PTL DEF InspectorSpec

-----------------------------------------------------------------------------
(* The models: what a piece of work carries from its first step to its     *)
(* last is the size that its model tells, its vectors' own for the         *)
(* examples, 0 of a half loaded one, or the default of a library that is   *)
(* missing.                                                                *)

Setup == [rag : Nat, shared : Nat, tells : [rag : Nat, shared : Nat],
          onnx : BOOLEAN, config : BOOLEAN, semantic : BOOLEAN]
Loading == {"none", "half", "loaded"}
Under == {"look", "make", "store"}
Begun == [pc : Under \union {"stored", "failed"}, by : Procs, store : Stores, made : BOOLEAN, size : Nat]

EmbeddingTypeOK ==
    /\ size \in [Stores -> Nat]
    /\ stocked \in [Stores -> BOOLEAN]
    /\ setup \in [Procs -> Setup]
    /\ model \in [Procs -> [rag : Loading, shared : Loading]]
    /\ prepared \in [Procs -> [initialised : BOOLEAN, ready : BOOLEAN]]
    /\ work \in [Works -> [pc : {"new", "lost"}] \union Begun]

\* The size of a process's vectors for a collection.
Own(p, coll) == IF coll = "knowledge" THEN setup[p].rag ELSE setup[p].shared

\* A size that work of p may ask for.
Askable(p, coll, n) ==
    \/ n = 0 \/ n = Own(p, coll)
    \/ coll # "examples" /\ n = Told(p, ModelFor(coll))
    \/ coll = "knowledge" /\ setup[p].rag = 0 /\ n = DefaultSize

WorkOK(w) ==
    /\ work[w].pc \in Under => work[w] \in Begun
    /\ work[w].pc \in {"look", "make"} =>
         ~work[w].made /\ Askable(work[w].by, work[w].store, work[w].size)
    /\ work[w].pc = "store" =>
         /\ size[work[w].store] # 0
         /\ work[w].made => Askable(work[w].by, work[w].store, size[work[w].store])

ReadyOK(p) ==
    prepared[p].ready => stocked["examples"] /\ size["examples"] # 0 /\ size["examples"] = setup[p].shared

EmbeddingInv == EmbeddingTypeOK /\ (\A w \in Works : WorkOK(w)) /\ (\A p \in Procs : ReadyOK(p))

USE EmbeddingAssumption DEF Setup, Loading, Under, Begun, Stores

\* What the model calls fitting, by the process's own sizes.
LEMMA FitsIsOwn ==
    ASSUME EmbeddingTypeOK, NEW p \in Procs, NEW c \in Stores
    PROVE  Fits(p, c) <=> Own(p, c) = size[c]
  <1>1. CASE c = "knowledge"
    BY <1>1 DEF Fits, Own, ModelFor, EmbeddingTypeOK
  <1>2. CASE c # "knowledge"
    BY <1>2 DEF Fits, Own, ModelFor, EmbeddingTypeOK
  <1> QED BY <1>1, <1>2

\* The inductive invariant is enough for the properties.
LEMMA EmbeddingInvEnough == EmbeddingInv => VectorsSound
  <1> SUFFICES ASSUME EmbeddingInv PROVE VectorsSound
    OBVIOUS
  <1>1. ReadyIsSearchable
    <2> SUFFICES ASSUME NEW p \in Procs, prepared[p].ready
                 PROVE  stocked["examples"] /\ Fits(p, "examples")
      BY DEF ReadyIsSearchable, ExamplesFrom
    <2> QED BY FitsIsOwn DEF EmbeddingInv, ReadyOK, Own
  <1>2. MadeToFit
    <2> SUFFICES ASSUME NEW w \in Works, work[w].pc = "store", work[w].made
                 PROVE  LET p == work[w].by
                            c == work[w].store
                            m == ModelFor(c)
                        IN  \/ Fits(p, c)
                            \/ c # "examples" /\ Told(p, m) # setup[p][m] /\ size[c] = Told(p, m)
                            \/ c = "knowledge" /\ setup[p].rag = 0 /\ size["knowledge"] = DefaultSize
      BY DEF MadeToFit
    <2>1. work[w] \in Begun /\ size[work[w].store] # 0
          /\ Askable(work[w].by, work[w].store, size[work[w].store])
      BY DEF EmbeddingInv, WorkOK
    <2>2. work[w].by \in Procs /\ work[w].store \in Stores
      BY <2>1
    <2>3. setup[work[w].by][ModelFor(work[w].store)] = Own(work[w].by, work[w].store)
      BY DEF Own, ModelFor
    <2> QED BY <2>1, <2>2, <2>3, FitsIsOwn DEF EmbeddingInv, Askable
  <1> QED BY <1>1, <1>2 DEF VectorsSound

\* Nothing is made, loaded or asked for in the beginning.
LEMMA InitGivesEmbeddingInv == EmbeddingInit => EmbeddingInv
  BY DEF EmbeddingInit, EmbeddingInv, EmbeddingTypeOK, WorkOK, ReadyOK

\* What loading a model says of the size that is asked for then.
LEMMA LoadedSize ==
    ASSUME EmbeddingTypeOK, NEW p \in Procs, NEW coll \in Stores,
           NEW after \in LoadOutcomes(p, ModelFor(coll))
    PROVE  /\ after \in Loading
           /\ SizeFor(p, coll, after) \in Nat
           /\ ~LoadRaises(p, ModelFor(coll), after) \/ (coll = "knowledge" /\ setup[p].rag = 0)
              => Askable(p, coll, SizeFor(p, coll, after))
  <1>1. CASE coll = "knowledge"
    <2>1. ModelFor(coll) = "rag"
      BY <1>1 DEF ModelFor
    <2>2. model[p].rag \in Loading /\ setup[p].rag \in Nat
      BY DEF EmbeddingTypeOK
    <2>3. Told(p, "rag") \in Nat
      BY DEF Told, EmbeddingTypeOK
    <2> QED BY <1>1, <2>1, <2>2, <2>3 DEF LoadOutcomes, SizeFor, Dimension, LoadRaises, Askable, Own
  <1>2. CASE coll # "knowledge"
    <2>1. ModelFor(coll) = "shared"
      BY <1>2 DEF ModelFor
    <2>2. model[p].shared \in Loading /\ setup[p].shared \in Nat
      BY DEF EmbeddingTypeOK
    <2>3. Told(p, "shared") \in Nat
      BY DEF Told, EmbeddingTypeOK
    <2> QED BY <1>2, <2>1, <2>2, <2>3 DEF LoadOutcomes, SizeFor, Dimension, LoadRaises, Askable, Own
  <1> QED BY <1>1, <1>2

\* Work that begins by loading a model asks for a size it may ask for.
LEMMA LoadKeeps ==
    ASSUME EmbeddingInv, NEW w \in Works, NEW p \in Procs, NEW coll \in Stores, LoadFor(w, p, coll),
           UNCHANGED <<size, stocked, setup>>,
           prepared' \in [Procs -> [initialised : BOOLEAN, ready : BOOLEAN]],
           \A q \in Procs : prepared'[q].ready => prepared[q].ready
    PROVE  EmbeddingInv'
  <1>1. PICK after \in LoadOutcomes(p, ModelFor(coll)) :
           /\ model' = [model EXCEPT ![p][ModelFor(coll)] = after]
           /\ work' = [work EXCEPT ![w] =
                [pc |-> IF LoadRaises(p, ModelFor(coll), after)
                           /\ ~(coll = "knowledge" /\ setup[p].rag = 0)
                        THEN "failed" ELSE "look",
                 by |-> p, store |-> coll, made |-> FALSE, size |-> SizeFor(p, coll, after)]]
    BY DEF LoadFor
  <1>2. /\ after \in Loading /\ SizeFor(p, coll, after) \in Nat
        /\ ~LoadRaises(p, ModelFor(coll), after) \/ (coll = "knowledge" /\ setup[p].rag = 0)
           => Askable(p, coll, SizeFor(p, coll, after))
    BY LoadedSize DEF EmbeddingInv
  <1>3. model' \in [Procs -> [rag : Loading, shared : Loading]]
    <2> DEFINE next == [model[p] EXCEPT ![ModelFor(coll)] = after]
    <2>1. model' = [model EXCEPT ![p] = next]
      BY <1>1
    <2>2. model[p] \in [rag : Loading, shared : Loading]
      BY DEF EmbeddingInv, EmbeddingTypeOK
    <2>3. CASE coll = "knowledge"
      <3>1. next = [model[p] EXCEPT !.rag = after]
        BY <2>3 DEF ModelFor
      <3>2. next \in [rag : Loading, shared : Loading]
        BY <1>2, <2>2, <3>1
      <3> HIDE DEF next
      <3> QED BY <2>1, <3>2 DEF EmbeddingInv, EmbeddingTypeOK
    <2>4. CASE coll # "knowledge"
      <3>1. next = [model[p] EXCEPT !.shared = after]
        BY <2>4 DEF ModelFor
      <3>2. next \in [rag : Loading, shared : Loading]
        BY <1>2, <2>2, <3>1
      <3> HIDE DEF next
      <3> QED BY <2>1, <3>2 DEF EmbeddingInv, EmbeddingTypeOK
    <2> QED BY <2>3, <2>4
  <1>4. /\ work'[w] \in Begun /\ ~work'[w].made /\ work'[w].pc \in {"failed", "look"}
        /\ work'[w].pc = "look" => Askable(work'[w].by, work'[w].store, work'[w].size)
        /\ \A v \in Works : v # w => work'[v] = work[v]
        /\ DOMAIN work' = Works
    BY <1>1, <1>2 DEF EmbeddingInv, EmbeddingTypeOK
  <1>5. EmbeddingTypeOK'
    BY <1>1, <1>3, <1>4 DEF EmbeddingInv, EmbeddingTypeOK
  <1>6. \A v \in Works : WorkOK(v)'
    <2> SUFFICES ASSUME NEW v \in Works PROVE WorkOK(v)'
      OBVIOUS
    <2>1. CASE v = w
      BY <1>4, <2>1 DEF WorkOK, Askable, Own, Told
    <2>2. CASE v # w
      BY <1>4, <2>2 DEF EmbeddingInv, WorkOK, Askable, Own, Told
    <2> QED BY <2>1, <2>2
  <1>7. \A q \in Procs : ReadyOK(q)'
    BY DEF EmbeddingInv, ReadyOK
  <1> QED BY <1>5, <1>6, <1>7 DEF EmbeddingInv

\* A collection that is made keeps its size: it was not there before.
LEMMA MakeKeeps ==
    ASSUME EmbeddingInv, NEW w \in Works, MakeCollection(w)
    PROVE  EmbeddingInv'
  <1>1. work[w].pc = "make" /\ UNCHANGED <<stocked, setup, model, prepared>>
    BY DEF MakeCollection
  <1>2. /\ work[w] \in Begun /\ ~work[w].made
        /\ Askable(work[w].by, work[w].store, work[w].size)
    BY <1>1 DEF EmbeddingInv, WorkOK
  <1>3. CASE Goes(w, "failed") /\ UNCHANGED size
    <2>1. /\ work' = [work EXCEPT ![w].pc = "failed"] /\ work'[w] \in Begun /\ work'[w].pc = "failed"
          /\ \A v \in Works : v # w => work'[v] = work[v]
      BY <1>2, <1>3 DEF Goes, EmbeddingInv, EmbeddingTypeOK
    <2>2. EmbeddingTypeOK'
      BY <1>1, <1>3, <2>1 DEF EmbeddingInv, EmbeddingTypeOK
    <2>3. \A v \in Works : WorkOK(v)'
      BY <1>1, <1>3, <2>1 DEF EmbeddingInv, WorkOK, Askable, Own, Told
    <2> QED BY <1>1, <1>3, <2>2, <2>3 DEF EmbeddingInv, ReadyOK
  <1>4. CASE /\ size[work[w].store] = 0 /\ work[w].size > 0
             /\ size' = [size EXCEPT ![work[w].store] = work[w].size]
             /\ work' = [work EXCEPT ![w].pc = "store", ![w].made = TRUE]
    <2>1. /\ work'[w] \in Begun /\ work'[w].pc = "store"
          /\ work'[w].by = work[w].by /\ work'[w].store = work[w].store
          /\ size'[work[w].store] = work[w].size
          /\ \A v \in Works : v # w => work'[v] = work[v]
          /\ \A c \in Stores : size[c] # 0 => size'[c] = size[c]
      BY <1>2, <1>4 DEF EmbeddingInv, EmbeddingTypeOK
    <2>2. EmbeddingTypeOK'
      BY <1>1, <1>2, <1>4, <2>1 DEF EmbeddingInv, EmbeddingTypeOK
    <2>3. WorkOK(w)'
      BY <1>1, <1>2, <1>4, <2>1 DEF WorkOK, Askable, Own, Told
    <2>4. \A v \in Works : v # w => WorkOK(v)'
      BY <1>1, <2>1 DEF EmbeddingInv, WorkOK, Askable, Own, Told
    <2> QED BY <1>1, <2>1, <2>2, <2>3, <2>4 DEF EmbeddingInv, ReadyOK
  <1> QED BY <1>3, <1>4 DEF MakeCollection

\* Vectors are stored where they fit; only then is a process ready.
LEMMA StoreKeeps ==
    ASSUME EmbeddingInv, NEW w \in Works, StoreVectors(w)
    PROVE  EmbeddingInv'
  <1>1. work[w].pc = "store" /\ UNCHANGED <<size, setup, model>>
    BY DEF StoreVectors
  <1>2. work[w] \in Begun /\ size[work[w].store] # 0
    BY <1>1 DEF EmbeddingInv, WorkOK
  <1> DEFINE p == work[w].by
             coll == work[w].store
  <1>3. p \in Procs /\ coll \in Stores
    BY <1>2
  <1>4. ASSUME NEW pc \in {"stored", "failed"}, Goes(w, pc)
        PROVE  /\ work' \in [Works -> [pc : {"new", "lost"}] \union Begun]
               /\ \A v \in Works : WorkOK(v)'
    <2>1. /\ work'[w] \in Begun /\ work'[w].pc = pc
          /\ \A v \in Works : v # w => work'[v] = work[v]
      BY <1>2, <1>4 DEF Goes, EmbeddingInv, EmbeddingTypeOK
    <2>2. work' \in [Works -> [pc : {"new", "lost"}] \union Begun]
      BY <1>4, <2>1 DEF Goes, EmbeddingInv, EmbeddingTypeOK
    <2>3. \A v \in Works : WorkOK(v)'
      BY <1>1, <2>1 DEF EmbeddingInv, WorkOK, Askable, Own, Told
    <2> QED BY <2>2, <2>3
  <1>5. CASE Goes(w, "failed") /\ UNCHANGED <<stocked, prepared>>
    BY <1>1, <1>4, <1>5 DEF EmbeddingInv, EmbeddingTypeOK, ReadyOK
  <1>6. CASE /\ Fits(p, coll)
             /\ stocked' = [stocked EXCEPT ![coll] = TRUE]
             /\ prepared' = IF coll = "examples" THEN [prepared EXCEPT ![p].ready = TRUE] ELSE prepared
             /\ Goes(w, "stored")
    <2>1. Own(p, coll) = size[coll]
      BY <1>3, <1>6, FitsIsOwn DEF EmbeddingInv
    <2>2. /\ stocked' \in [Stores -> BOOLEAN]
          /\ prepared' \in [Procs -> [initialised : BOOLEAN, ready : BOOLEAN]]
      BY <1>3, <1>6 DEF EmbeddingInv, EmbeddingTypeOK
    <2>3. \A c \in Stores : stocked[c] => stocked'[c]
      BY <1>3, <1>6 DEF EmbeddingInv, EmbeddingTypeOK
    <2>4. \A q \in Procs : ReadyOK(q)'
      <3> SUFFICES ASSUME NEW q \in Procs PROVE ReadyOK(q)'
        OBVIOUS
      <3>1. CASE coll = "examples" /\ q = p
        BY <1>1, <1>2, <1>3, <1>6, <2>1, <3>1 DEF EmbeddingInv, EmbeddingTypeOK, ReadyOK, Own
      <3>2. CASE ~(coll = "examples" /\ q = p)
        <4>1. prepared'[q].ready = prepared[q].ready
          BY <1>3, <1>6, <3>2 DEF EmbeddingInv, EmbeddingTypeOK
        <4> QED BY <1>1, <2>3, <4>1 DEF EmbeddingInv, ReadyOK
      <3> QED BY <3>1, <3>2
    <2> QED BY <1>1, <1>4, <1>6, <2>2, <2>4 DEF EmbeddingInv, EmbeddingTypeOK
  <1> QED BY <1>5, <1>6 DEF StoreVectors

\* A process that is replaced takes its work along, and what it knew.
LEMMA ReplaceKeeps ==
    ASSUME EmbeddingInv, NEW p \in Procs, Replace(p)
    PROVE  EmbeddingInv'
  <1>1. PICK s \in Setups : setup' = [setup EXCEPT ![p] = s]
    BY DEF Replace
  <1>2. /\ UNCHANGED <<size, stocked>>
        /\ model' = [model EXCEPT ![p] = [rag |-> "none", shared |-> "none"]]
        /\ prepared' = [prepared EXCEPT ![p] = [initialised |-> FALSE, ready |-> FALSE]]
        /\ work' = [w \in Works |->
              IF work[w].pc \in Under /\ work[w].by = p THEN [pc |-> "lost"] ELSE work[w]]
    BY DEF Replace
  <1>3. EmbeddingTypeOK'
    BY <1>1, <1>2 DEF EmbeddingInv, EmbeddingTypeOK
  <1>4. \A w \in Works : WorkOK(w)'
    <2> SUFFICES ASSUME NEW w \in Works PROVE WorkOK(w)'
      OBVIOUS
    <2>1. CASE work[w].pc \in Under /\ work[w].by = p
      BY <1>2, <2>1 DEF WorkOK
    <2>2. CASE work[w].pc \in Under /\ work[w].by # p
      <3>1. work'[w] = work[w] /\ work[w] \in Begun /\ setup'[work[w].by] = setup[work[w].by]
        BY <1>1, <1>2, <2>2 DEF EmbeddingInv, WorkOK, EmbeddingTypeOK
      <3> QED BY <1>2, <2>2, <3>1 DEF EmbeddingInv, WorkOK, Askable, Own, Told
    <2>3. CASE work[w].pc \notin Under
      BY <1>2, <2>3 DEF WorkOK
    <2> QED BY <2>1, <2>2, <2>3
  <1>5. \A q \in Procs : ReadyOK(q)'
    BY <1>1, <1>2 DEF EmbeddingInv, EmbeddingTypeOK, ReadyOK
  <1> QED BY <1>3, <1>4, <1>5 DEF EmbeddingInv

\* Every step keeps the inductive invariant.
LEMMA EmbeddingStep == EmbeddingInv /\ [EmbeddingNext]_embeddingVars => EmbeddingInv'
  <1> SUFFICES ASSUME EmbeddingInv, [EmbeddingNext]_embeddingVars PROVE EmbeddingInv'
    OBVIOUS
  <1>1. ASSUME NEW w \in Works, BeginEmbedding(w) PROVE EmbeddingInv'
    <2>1. PICK p \in Procs, coll \in {"knowledge", "documents"} : LoadFor(w, p, coll)
      BY <1>1 DEF BeginEmbedding
    <2> QED BY <1>1, <2>1, LoadKeeps DEF BeginEmbedding, EmbeddingInv, EmbeddingTypeOK
  <1>2. ASSUME NEW w \in Works, NEW p \in Procs, BeginExamples(w, p) PROVE EmbeddingInv'
    <2>0. prepared' = [prepared EXCEPT ![p].initialised = TRUE] /\ UNCHANGED <<size, stocked, setup>>
      BY <1>2 DEF BeginExamples
    <2>1. /\ prepared' \in [Procs -> [initialised : BOOLEAN, ready : BOOLEAN]]
          /\ \A q \in Procs : prepared'[q].ready => prepared[q].ready
      <3>1. prepared \in [Procs -> [initialised : BOOLEAN, ready : BOOLEAN]]
        BY DEF EmbeddingInv, EmbeddingTypeOK
      <3>2. \A q \in Procs : prepared'[q].ready => prepared[q].ready
        <4> SUFFICES ASSUME NEW q \in Procs PROVE prepared'[q].ready => prepared[q].ready
          OBVIOUS
        <4>1. CASE q = p
          BY <2>0, <3>1, <4>1
        <4>2. CASE q # p
          BY <2>0, <3>1, <4>2
        <4> QED BY <4>1, <4>2
      <3>3. prepared' \in [Procs -> [initialised : BOOLEAN, ready : BOOLEAN]]
        BY <2>0, <3>1
      <3> QED BY <3>2, <3>3
    <2>2. CASE LoadFor(w, p, "examples")
      BY <2>0, <2>1, <2>2, LoadKeeps
    <2>3. CASE UNCHANGED <<model, work>>
      BY <2>0, <2>1, <2>3 DEF EmbeddingInv, EmbeddingTypeOK, WorkOK, Askable, Own, Told, ReadyOK
    <2> QED BY <1>2, <2>2, <2>3 DEF BeginExamples
  <1>3. ASSUME NEW w \in Works, LookUp(w) PROVE EmbeddingInv'
    <2>1. PICK seen \in {size[work[w].store] # 0, FALSE} : Goes(w, IF seen THEN "store" ELSE "make")
      BY <1>3 DEF LookUp
    <2>2. /\ work[w].pc = "look" /\ UNCHANGED <<size, stocked, setup, model, prepared>>
          /\ work[w] \in Begun /\ ~work[w].made
          /\ Askable(work[w].by, work[w].store, work[w].size)
      BY <1>3 DEF LookUp, EmbeddingInv, WorkOK
    <2>3. /\ work'[w] \in Begun /\ ~work'[w].made /\ work'[w].pc \in {"store", "make"}
          /\ work'[w].pc = "store" => size[work[w].store] # 0
          /\ work'[w].by = work[w].by /\ work'[w].store = work[w].store /\ work'[w].size = work[w].size
          /\ \A v \in Works : v # w => work'[v] = work[v]
      BY <2>1, <2>2 DEF Goes, EmbeddingInv, EmbeddingTypeOK
    <2>4. EmbeddingTypeOK'
      BY <2>1, <2>2, <2>3 DEF Goes, EmbeddingInv, EmbeddingTypeOK
    <2>5. \A v \in Works : WorkOK(v)'
      <3> SUFFICES ASSUME NEW v \in Works PROVE WorkOK(v)'
        OBVIOUS
      <3>1. CASE v = w
        BY <2>2, <2>3, <3>1 DEF WorkOK, Askable, Own, Told
      <3>2. CASE v # w
        <4>1. work'[v] = work[v] /\ WorkOK(v)
          BY <2>3, <3>2 DEF EmbeddingInv
        <4>2. \A n : Askable(work[v].by, work[v].store, n)' <=> Askable(work[v].by, work[v].store, n)
          BY <2>2, <4>1 DEF Askable, Own, Told
        <4> QED BY <2>2, <4>1, <4>2 DEF WorkOK
      <3> QED BY <3>1, <3>2
    <2> QED BY <2>2, <2>4, <2>5 DEF EmbeddingInv, ReadyOK
  <1>4. CASE UNCHANGED embeddingVars
    BY <1>4 DEF embeddingVars, EmbeddingInv, EmbeddingTypeOK, WorkOK, Askable, Own, Told, ReadyOK
  <1> QED BY <1>1, <1>2, <1>3, <1>4, MakeKeeps, StoreKeeps, ReplaceKeeps DEF EmbeddingNext

(* Whatever environments processes are started in and whichever of them    *)
(* make and fill the collections, who makes one can store in it, and who   *)
(* searches the examples by meaning finds them (embeddings.py,             *)
(* vector_store.py, training_data.py).                                     *)
THEOREM CollectionsFit == EmbeddingSpec => []VectorsSound
  BY InitGivesEmbeddingInv, EmbeddingStep, EmbeddingInvEnough, PTL DEF EmbeddingSpec

-----------------------------------------------------------------------------
(* The RAG agent: what is indexed is stored, and the fusion prefers what     *)
(* both legs found.                                                          *)

\* A rank's share of the whole product, and the order of the shares: a better
\* rank weighs more, but never as much as two of the worst together.
RankFactors == [r \in 1..TopKEach |-> RrfK + r]

LEMMA WeightTimesRank ==
    ASSUME NEW i \in 1..TopKEach
    PROVE  /\ Weight(i) \in Nat /\ Weight(i) > 0
           /\ Weight(i) * (RrfK + i) = ProductOf(RankFactors)
  <1> DEFINE s == RankFactors
             t == [r \in 1..TopKEach |-> IF r = i THEN 1 ELSE RrfK + r]
  <1>0. TopKEach \in Nat /\ RrfK \in Nat
    BY RagAssumption
  <1>1. s \in Seq(Nat) /\ Len(s) = TopKEach /\ \A n \in 1..TopKEach : s[n] = RrfK + n
    BY <1>0 DEF RankFactors
  <1>2. t \in Seq(Nat) /\ t = [s EXCEPT ![i] = 1]
    <2>1. t \in Seq(Nat)
      BY <1>0
    <2>2. t = [s EXCEPT ![i] = 1]
      BY DEF RankFactors
    <2> QED BY <2>1, <2>2
  <1>3. \A n \in 1..Len(s) : s[n] > 0
    BY <1>0, <1>1
  <1>4. Weight(i) = ProductOf(t) /\ s[i] = RrfK + i
    BY <1>1 DEF Weight
  <1> HIDE DEF s, t
  <1> QED BY <1>1, <1>2, <1>3, <1>4, ProductWithout DEF s

LEMMA WeightsOrdered ==
    /\ 1 \in 1..TopKEach /\ TopKEach \in 1..TopKEach
    /\ \A i \in 1..TopKEach : Weight(TopKEach) <= Weight(i) /\ Weight(i) <= Weight(1)
    /\ 2 * Weight(TopKEach) > Weight(1)
  <1>0. TopKEach \in Nat /\ RrfK \in Nat /\ 1 <= TopKEach /\ TopKEach <= RrfK + 1
    BY RagAssumption
  <1>1. ASSUME NEW a \in Nat, NEW b \in Nat, NEW x \in Nat, NEW y \in Nat,
               a > 0, b > 0, x > 0, x <= y, a * x = b * y
        PROVE  b <= a
    <2>1. b * x <= b * y
      BY <1>1
    <2>2. CASE b > a
      <3>1. PICK d \in Nat : b = a + d /\ d > 0
        <4>1. b - a \in Nat /\ b = a + (b - a) /\ b - a > 0
          BY <1>1, <2>2
        <4> QED BY <4>1
      <3>2. b * x = a * x + d * x
        BY <1>1, <3>1
      <3>3. d * x > 0
        BY <1>1, <3>1
      <3>4. a * x \in Nat /\ b * x \in Nat /\ d * x \in Nat /\ b * y \in Nat
        BY <1>1, <3>1
      <3> QED BY <1>1, <2>1, <3>2, <3>3, <3>4
    <2> QED BY <1>1, <2>2
  <1>2. ASSUME NEW i \in 1..TopKEach, NEW j \in 1..TopKEach, i <= j PROVE Weight(j) <= Weight(i)
    <2>1. /\ Weight(i) \in Nat /\ Weight(i) > 0 /\ Weight(j) \in Nat /\ Weight(j) > 0
          /\ Weight(i) * (RrfK + i) = Weight(j) * (RrfK + j)
      BY WeightTimesRank
    <2>2. RrfK + i \in Nat /\ RrfK + j \in Nat /\ RrfK + i > 0 /\ RrfK + i <= RrfK + j
      BY <1>0, <1>2
    <2> HIDE DEF Weight
    <2> QED BY <1>1, <2>1, <2>2
  <1>3. 1 \in 1..TopKEach /\ TopKEach \in 1..TopKEach
    BY <1>0
  <1>4. \A i \in 1..TopKEach : Weight(TopKEach) <= Weight(i) /\ Weight(i) <= Weight(1)
    BY <1>0, <1>2, <1>3
  <1>5. 2 * Weight(TopKEach) > Weight(1)
    <2> DEFINE w == Weight(TopKEach)
               v == Weight(1)
               m == RrfK + 1
               n == RrfK + TopKEach
    <2>1. w \in Nat /\ w > 0 /\ v \in Nat /\ w * n = v * m
      BY <1>3, WeightTimesRank
    <2>2. m \in Nat /\ n \in Nat /\ m > 0 /\ n < 2 * m
      BY <1>0
    <2> HIDE DEF w, v, m, n
    <2>3. CASE 2 * w <= v
      <3>1. PICK d \in Nat : 2 * m = n + d /\ d > 0
        <4>1. 2 * m - n \in Nat /\ 2 * m = n + (2 * m - n) /\ 2 * m - n > 0
          BY <2>2
        <4> QED BY <4>1
      <3>2. (2 * w) * m <= v * m
        BY <2>1, <2>2, <2>3
      <3>3. (2 * w) * m = w * (2 * m)
        BY <2>1, <2>2
      <3>4. w * (2 * m) = w * n + w * d
        BY <2>1, <2>2, <3>1
      <3>5. w * d > 0
        BY <2>1, <3>1
      <3>6. w * d \in Nat /\ w * n \in Nat /\ v * m \in Nat
        BY <2>1, <2>2, <3>1
      <3> QED BY <2>1, <3>2, <3>3, <3>4, <3>5, <3>6
    <2>4. ~(2 * w <= v)
      BY <2>1, <2>2, <2>3
    <2> QED BY <2>1, <2>4 DEF w, v
  <1> QED BY <1>3, <1>4, <1>5

\* What a leg of the search returns: ids, by rank.
Legs == {leg \in Seq(ChunkIds) : Len(leg) <= TopKEach}
Finds(leg, id) == {n \in DOMAIN leg : leg[n] = id}

LEMMA ShareBetween ==
    ASSUME NEW leg \in Legs, NEW id
    PROVE  /\ ShareIn(leg, id) \in Nat /\ Cardinality(Finds(leg, id)) \in Nat
           /\ Cardinality(Finds(leg, id)) * Weight(TopKEach) <= ShareIn(leg, id)
           /\ ShareIn(leg, id) <= Cardinality(Finds(leg, id)) * Weight(1)
  <1> DEFINE s == [n \in DOMAIN leg |-> IF leg[n] = id THEN Weight(n) ELSE 0]
             H == Finds(leg, id)
  <1>0. TopKEach \in Nat /\ Len(leg) \in Nat /\ Len(leg) <= TopKEach /\ DOMAIN leg = 1..Len(leg)
    BY RagAssumption DEF Legs
  <1>1. \A n \in DOMAIN leg : n \in 1..TopKEach
    BY <1>0
  <1>2. s \in Seq(Nat) /\ Len(s) = Len(leg)
    <2>1. \A n \in 1..Len(leg) : (IF leg[n] = id THEN Weight(n) ELSE 0) \in Nat
      BY <1>0, <1>1, WeightTimesRank
    <2>2. s = [n \in 1..Len(leg) |-> IF leg[n] = id THEN Weight(n) ELSE 0]
      BY <1>0
    <2>3. s \in [1..Len(leg) -> Nat]
      <3> HIDE DEF Weight
      <3> QED BY <2>1, <2>2
    <2> HIDE DEF s
    <2> QED BY <1>0, <2>3
  <1>3. /\ H \subseteq 1..Len(s)
        /\ \A n \in H : s[n] = Weight(n) /\ n \in 1..TopKEach
        /\ \A n \in (1..Len(s)) \ H : s[n] = 0
    BY <1>0, <1>1, <1>2 DEF Finds
  <1>4. ShareIn(leg, id) = SumOf(s)
    BY DEF ShareIn
  <1>5. Weight(1) \in Nat /\ Weight(TopKEach) \in Nat
    BY WeightsOrdered, WeightTimesRank
  <1>6. \A n \in H : Weight(TopKEach) <= s[n] /\ s[n] <= Weight(1)
    BY <1>3, WeightsOrdered
  <1> DEFINE lo == Weight(TopKEach)
             hi == Weight(1)
  <1>7. /\ H \subseteq 1..Len(s) /\ \A n \in H : lo <= s[n] /\ s[n] <= hi
        /\ \A n \in (1..Len(s)) \ H : s[n] = 0
    BY <1>3, <1>6
  <1> HIDE DEF s, H, lo, hi
  <1>8. /\ SumOf(s) \in Nat /\ Cardinality(H) \in Nat
        /\ Cardinality(H) * lo <= SumOf(s) /\ SumOf(s) <= Cardinality(H) * hi
    BY <1>2, <1>5, <1>7, SumBetween DEF lo, hi
  <1> QED BY <1>4, <1>8 DEF H, lo, hi

\* One hit never outweighs two.
LEMMA TwoHitsOutweigh ==
    ASSUME NEW own, own.bm25 \in Legs, own.vector \in Legs, NEW a, NEW b,
           Hits(own, a) = 1, Hits(own, b) > 1
    PROVE  /\ Score(a, <<own.bm25, own.vector>>) \in Nat
           /\ Score(b, <<own.bm25, own.vector>>) \in Nat
           /\ Score(b, <<own.bm25, own.vector>>) > Score(a, <<own.bm25, own.vector>>)
  <1> DEFINE c(leg, id) == Cardinality(Finds(leg, id))
             lo == Weight(TopKEach)
             hi == Weight(1)
             l == own.bm25
             v == own.vector
  <1>1. \A id : Hits(own, id) = c(l, id) + c(v, id)
    BY DEF Hits, Finds
  <1>2. \A id : Score(id, <<l, v>>) = ShareIn(l, id) + ShareIn(v, id)
    BY DEF Score
  <1>3. \A leg \in Legs : \A id :
           /\ ShareIn(leg, id) \in Nat /\ c(leg, id) \in Nat
           /\ c(leg, id) * lo <= ShareIn(leg, id)
           /\ ShareIn(leg, id) <= c(leg, id) * hi
    BY ShareBetween
  <1>4. lo \in Nat /\ hi \in Nat /\ lo > 0 /\ 2 * lo > hi
    BY WeightsOrdered, WeightTimesRank
  <1> HIDE DEF c, lo, hi, ShareIn, Score, Hits
  <1>5. ASSUME NEW m \in Nat, NEW n \in Nat, NEW x \in Nat, NEW y \in Nat, m + n = 1,
               x <= m * hi, y <= n * hi
        PROVE  x + y <= hi
    <2>1. (m = 1 /\ n = 0) \/ (m = 0 /\ n = 1)
      BY <1>5
    <2>2. 1 * hi = hi /\ 0 * hi = 0
      BY <1>4
    <2> QED BY <1>4, <1>5, <2>1, <2>2
  <1>6. ASSUME NEW m \in Nat, NEW n \in Nat, NEW x \in Nat, NEW y \in Nat, m + n > 1,
               m * lo <= x, n * lo <= y
        PROVE  2 * lo <= x + y
    <2>1. m * lo + n * lo = (m + n) * lo
      BY <1>4
    <2>2. 2 * lo <= (m + n) * lo
      BY <1>4, <1>6
    <2>3. m * lo \in Nat /\ n * lo \in Nat
      BY <1>4
    <2> QED BY <1>4, <1>6, <2>1, <2>2, <2>3
  <1>7. ShareIn(l, a) + ShareIn(v, a) <= hi
    BY <1>1, <1>3, <1>5
  <1>8. 2 * lo <= ShareIn(l, b) + ShareIn(v, b)
    BY <1>1, <1>3, <1>6
  <1> QED BY <1>2, <1>3, <1>4, <1>7, <1>8

\* The first place of what is in a list.
LEMMA FirstAtWell ==
    ASSUME NEW S, NEW list \in Seq(S), NEW x \in ToSet(list)
    PROVE  FirstAt(x, list) \in 1..Len(list) /\ list[FirstAt(x, list)] = x
  <1> DEFINE N == {n \in DOMAIN list : list[n] = x}
  <1>1. N # {} /\ N \subseteq 1..Len(list) /\ N \in SUBSET Nat /\ \A n \in N : list[n] = x
    BY LenProperties DEF ToSet
  <1>2. PICK m \in N : \A n \in N : m <= n
    BY <1>1, Least
  <1>3. FirstAt(x, list) = CHOOSE j \in N : \A n \in N : j <= n
    BY DEF FirstAt, Min
  <1> HIDE DEF N
  <1>4. FirstAt(x, list) \in N
    BY <1>2, <1>3
  <1> QED BY <1>1, <1>4

\* Min of two numbers.
LEMMA MinOfTwo ==
    ASSUME NEW a \in Nat, NEW b \in Nat
    PROVE  Min({a, b}) \in Nat /\ Min({a, b}) \in {a, b} /\ Min({a, b}) <= a /\ Min({a, b}) <= b
  <1> DEFINE least(x) == x \in {a, b} /\ \A y \in {a, b} : x <= y
  <1>1. \E x : least(x)
    <2>1. least(a) \/ least(b)
      OBVIOUS
    <2> HIDE DEF least
    <2> QED BY <2>1
  <1>2. Min({a, b}) = CHOOSE x : least(x)
    BY DEF Min
  <1>3. least(Min({a, b}))
    <2> HIDE DEF least
    <2> QED BY <1>1, <1>2
  <1> QED BY <1>3

\* What was found is ranked: every id once, each before those that come after.
LEMMA RankedOrder ==
    ASSUME NEW l \in Legs, NEW v \in Legs, NEW r \in Ranked(<<l, v>>)
    PROVE  /\ r \in Seq(ToSet(l) \union ToSet(v))
           /\ \A m, n \in 1..Len(r) : r[m] = r[n] => m = n
           /\ \A x \in ToSet(l) \union ToSet(v) : \E n \in 1..Len(r) : r[n] = x
           /\ \A m, n \in 1..Len(r) : m < n => Score(r[m], <<l, v>>) >= Score(r[n], <<l, v>>)
           /\ \A x \in ToSet(l) \union ToSet(v) : Score(x, <<l, v>>) \in Nat
  <1> DEFINE all == l \o v
             F == ToSet(all)
             legs == <<l, v>>
             before(a, b) == \/ Score(a, legs) > Score(b, legs)
                             \/ Score(a, legs) = Score(b, legs) /\ FirstAt(a, all) < FirstAt(b, all)
             N == Cardinality(F)
  <1>1. l \in Seq(ChunkIds) /\ v \in Seq(ChunkIds)
    BY DEF Legs
  <1>2. all \in Seq(ChunkIds)
    BY <1>1
  <1>3. F = ToSet(l) \union ToSet(v)
    <2>1. /\ Len(all) = Len(l) + Len(v) /\ Len(l) \in Nat /\ Len(v) \in Nat
          /\ \A i \in 1..Len(l) : all[i] = l[i]
          /\ \A i \in 1..Len(v) : all[Len(l) + i] = v[i]
      BY <1>1
    <2>2. DOMAIN all = 1..(Len(l) + Len(v)) /\ DOMAIN l = 1..Len(l) /\ DOMAIN v = 1..Len(v)
      BY <1>1, <1>2, <2>1, LenProperties
    <2>3. ASSUME NEW x \in ToSet(l) PROVE x \in F
      <3>1. PICK i \in 1..Len(l) : x = l[i]
        BY <2>2 DEF ToSet
      <3>2. i \in DOMAIN all /\ all[i] = x
        BY <2>1, <2>2, <3>1
      <3> HIDE DEF all
      <3> QED BY <3>2 DEF ToSet
    <2>4. ASSUME NEW x \in ToSet(v) PROVE x \in F
      <3>1. PICK i \in 1..Len(v) : x = v[i]
        BY <2>2 DEF ToSet
      <3>2. Len(l) + i \in DOMAIN all /\ all[Len(l) + i] = x
        BY <2>1, <2>2, <3>1
      <3> HIDE DEF all
      <3> QED BY <3>2 DEF ToSet
    <2>5. ASSUME NEW x \in F PROVE x \in ToSet(l) \/ x \in ToSet(v)
      <3>1. PICK i \in 1..(Len(l) + Len(v)) : x = all[i]
        <4> HIDE DEF all
        <4> QED BY <2>2, <2>5 DEF ToSet
      <3>2. CASE i <= Len(l)
        <4>1. i \in DOMAIN l /\ l[i] = x
          BY <2>1, <2>2, <3>1, <3>2
        <4> QED BY <4>1 DEF ToSet
      <3>3. CASE i > Len(l)
        <4>1. i - Len(l) \in DOMAIN v /\ Len(l) + (i - Len(l)) = i
          BY <2>1, <2>2, <3>1, <3>3
        <4>2. v[i - Len(l)] = x
          BY <2>1, <2>2, <3>1, <4>1
        <4> QED BY <4>1, <4>2 DEF ToSet
      <3> QED BY <2>1, <3>2, <3>3
    <2> HIDE DEF F
    <2> QED BY <2>3, <2>4, <2>5
  <1>4. IsFiniteSet(F) /\ N \in Nat
    <2>1. F = Members(all)
      <3>1. DOMAIN all = 1..Len(all)
        BY <1>2
      <3> HIDE DEF all
      <3> QED BY <3>1 DEF ToSet, Members
    <2>2. IsFiniteSet(Members(all))
      <3> HIDE DEF all
      <3> QED BY <1>2, MembersFinite
    <2> QED BY <2>1, <2>2, FS_CardinalityType
  <1>5. r \in [1..N -> F] /\ \A m, n \in DOMAIN r : m < n => before(r[m], r[n])
    BY DEF Ranked
  <1>6. \A x : Score(x, legs) \in Nat
    <2> SUFFICES ASSUME NEW x PROVE Score(x, legs) \in Nat
      OBVIOUS
    <2>1. ShareIn(l, x) \in Nat /\ ShareIn(v, x) \in Nat
      BY ShareBetween
    <2> HIDE DEF ShareIn
    <2> QED BY <2>1 DEF Score
  <1>7. \A x \in F : FirstAt(x, all) \in Nat
    <2> HIDE DEF all
    <2> QED BY <1>2, FirstAtWell, LenProperties
  <1> HIDE DEF F, all, N, Score, FirstAt
  <1>8. Len(r) = N /\ DOMAIN r = 1..N /\ r \in Seq(F)
    BY <1>4, <1>5
  <1>9. \A x \in F : ~before(x, x)
    BY <1>6, <1>7
  <1>10. \A m, n \in 1..N : r[m] = r[n] => m = n
    <2> SUFFICES ASSUME NEW m \in 1..N, NEW n \in 1..N, r[m] = r[n], m # n PROVE FALSE
      OBVIOUS
    <2>1. m < n \/ n < m
      BY <1>4
    <2>2. r[m] \in F
      BY <1>5
    <2> HIDE DEF before
    <2> QED BY <1>5, <1>8, <1>9, <2>1, <2>2
  <1>11. \A x \in F : \E n \in 1..N : r[n] = x
    <2>1. r \in Injection(1..N, F)
      BY <1>5, <1>10 DEF Injection, IsInjective
    <2>2. Cardinality(1..N) = N
      BY <1>4, FS_Interval
    <2>3. r \in Surjection(1..N, F)
      BY <1>4, <2>1, <2>2, FS_Injection DEF N
    <2> QED BY <2>3 DEF Surjection
  <1>12. ASSUME NEW m \in 1..N, NEW n \in 1..N, m < n
         PROVE  Score(r[m], legs) >= Score(r[n], legs)
    <2>1. before(r[m], r[n])
      <3> HIDE DEF before
      <3> QED BY <1>5, <1>8, <1>12
    <2>2. Score(r[m], legs) \in Nat /\ Score(r[n], legs) \in Nat
      BY <1>6
    <2> QED BY <2>1, <2>2
  <1> QED BY <1>3, <1>6, <1>8, <1>10, <1>11, <1>12

\* The fusion keeps what both legs found before what one of them found.
LEMMA FusedAgrees ==
    ASSUME NEW own, own.bm25 \in Legs, own.vector \in Legs, NEW topK \in Nat,
           own.results \in Fused(<<own.bm25, own.vector>>, topK),
           NEW a \in ToSet(own.bm25) \union ToSet(own.vector),
           NEW b \in ToSet(own.bm25) \union ToSet(own.vector),
           Hits(own, a) = 1, Hits(own, b) > 1, a \in ToSet(own.results)
    PROVE  b \in ToSet(own.results) /\ FirstAt(b, own.results) < FirstAt(a, own.results)
  <1> DEFINE l == own.bm25
             v == own.vector
             F == ToSet(l) \union ToSet(v)
             results == own.results
  <1>1. PICK r \in Ranked(<<l, v>>) : results = SubSeq(r, 1, Min({topK, Len(r)}))
    BY DEF Fused
  <1> DEFINE k == Min({topK, Len(r)})
             N == Len(r)
             score(x) == Score(x, <<l, v>>)
  <1>2. /\ r \in Seq(F)
        /\ \A m, n \in 1..N : r[m] = r[n] => m = n
        /\ \A x \in F : \E n \in 1..N : r[n] = x
        /\ \A m, n \in 1..N : m < n => score(r[m]) >= score(r[n])
        /\ \A x \in F : score(x) \in Nat
    BY RankedOrder
  <1>3. score(b) > score(a) /\ score(a) \in Nat /\ score(b) \in Nat
    BY TwoHitsOutweigh
  <1>4. N \in Nat /\ k \in Nat /\ k <= N
    <2>1. N \in Nat
      BY <1>2, LenProperties
    <2> QED BY <2>1, MinOfTwo
  <1> HIDE DEF score, F, k, N
  <1>5. results \in Seq(F) /\ Len(results) = k /\ \A i \in 1..k : results[i] = r[i]
    <2>1. \A i \in 1..k : r[i] \in F
      BY <1>2, <1>4, LenProperties DEF N
    <2>2. results = SubSeq(r, 1, k)
      BY <1>1 DEF k
    <2>3. /\ SubSeq(r, 1, k) \in Seq(F)
          /\ Len(SubSeq(r, 1, k)) = IF 1 <= k THEN k - 1 + 1 ELSE 0
          /\ \A i \in 1..(k - 1 + 1) : SubSeq(r, 1, k)[i] = r[1 + i - 1]
      BY <1>4, <2>1, SubSeqProperties
    <2> QED BY <1>4, <2>2, <2>3
  <1> HIDE DEF results
  <1>6. DOMAIN results = 1..k
    BY <1>4, <1>5, LenProperties
  <1>7. PICK m \in 1..k : results[m] = a
    BY <1>6 DEF ToSet, results
  <1>8. PICK n \in 1..N : r[n] = b
    BY <1>2 DEF F
  <1>9. r[m] = a /\ m \in 1..N
    BY <1>4, <1>5, <1>7
  <1>10. n < m
    <2>1. m # n
      BY <1>3, <1>8, <1>9
    <2>2. ~(m < n)
      BY <1>2, <1>3, <1>8, <1>9
    <2> QED BY <1>4, <1>8, <1>9, <2>1, <2>2
  <1>11. n \in 1..k /\ results[n] = b
    BY <1>4, <1>5, <1>7, <1>8, <1>10
  <1>12. b \in ToSet(results) /\ a \in ToSet(results)
    BY <1>6, <1>7, <1>11 DEF ToSet
  <1>13. ASSUME NEW x \in ToSet(results), NEW i \in 1..k, results[i] = x PROVE FirstAt(x, results) = i
    <2>1. FirstAt(x, results) \in 1..k /\ results[FirstAt(x, results)] = x
      BY <1>5, FirstAtWell
    <2> HIDE DEF FirstAt
    <2>2. r[FirstAt(x, results)] = r[i] /\ FirstAt(x, results) \in 1..N /\ i \in 1..N
      BY <1>4, <1>5, <1>13, <2>1
    <2> QED BY <1>2, <2>2
  <1>14. FirstAt(b, results) = n /\ FirstAt(a, results) = m
    BY <1>7, <1>11, <1>12, <1>13
  <1> QED BY <1>10, <1>12, <1>14 DEF results

\* What is chunked, what an engine and a call of rag_ingest hold.
RagTexts == UNION {Chunks(d) : d \in RagSources}
HybridEngine == [built : BOOLEAN, entries : SUBSET RagTexts, topK : Nat]
IngestPc == {"new", "create", "docs", "raised", "index", "done"}
Ingest == [pc : IngestPc, into : RagCollections, left : Seq(RagSources), texts : SUBSET RagTexts, ingested : SUBSET RagSources]
LegSearch == [pc : {"legs"}, topK : Nat, engine : RagIngests \union {NoEngine},
              bm25 : Legs, vector : Legs, ran : SUBSET {"bm25", "vector"}]

RagPoints == [RagCollections -> [ChunkIds -> Nat]]

RagTypeOK ==
    /\ points \in RagPoints
    /\ engines \in [RagIngests -> HybridEngine]
    /\ engine \in RagIngests \union {NoEngine}
    /\ ingesting \in [RagIngests -> Ingest]
    /\ search = [s \in RagSearches |-> search[s]]

AllStored(k, texts) == \A c \in texts : points[k][c.id] # NoPage

\* What a call has collected, and what its engine has in its index, is stored
\* where the call stores.
IngestStored(i) ==
    AllStored(ingesting[i].into, ingesting[i].texts) /\ AllStored(ingesting[i].into, engines[i].entries)

\* A search has two legs, and what it has fused is one of their fusions.
SearchOK(s) ==
    /\ search[s].pc = "legs" => search[s] \in LegSearch
    /\ search[s].pc = "fused" =>
         /\ search[s].bm25 \in Legs /\ search[s].vector \in Legs
         /\ \E topK \in Nat :
               search[s].results \in Fused(<<search[s].bm25, search[s].vector>>, topK)

RagInv ==
    /\ RagTypeOK
    /\ \A i \in RagIngests : IngestStored(i)
    /\ \A s \in RagSearches : SearchOK(s)

LEMMA InitGivesRagInv == RagInit => RagInv
  <1> SUFFICES ASSUME RagInit PROVE RagInv
    OBVIOUS
  <1>1. <<>> \in Seq(RagSources)
    BY EmptySeq
  <1>2. RagTypeOK
    <2>1. PICK named \in [RagIngests -> RagCollections] :
            ingesting = [i \in RagIngests |-> [pc |-> "new", into |-> named[i], left |-> <<>>,
                                               texts |-> {}, ingested |-> {}]]
      BY DEF RagInit
    <2>2. ingesting \in [RagIngests -> Ingest]
      BY <1>1, <2>1 DEF Ingest, IngestPc
    <2> QED BY <2>2 DEF RagInit, RagTypeOK, RagPoints, NoPage, HybridEngine
  <1>3. \A i \in RagIngests : IngestStored(i)
    BY DEF RagInit, IngestStored, AllStored
  <1>4. \A s \in RagSearches : SearchOK(s)
    BY DEF RagInit, SearchOK
  <1> QED BY <1>2, <1>3, <1>4 DEF RagInv

\* There are finitely many texts, and each has an id.
LEMMA TextsFinite ==
    /\ IsFiniteSet(RagTexts) /\ IsFiniteSet(ChunkIds)
    /\ \A c \in RagTexts : c.id \in ChunkIds
    /\ \A d \in RagSources : \A c \in Chunks(d) : c \in RagTexts /\ c.page \in 1..Len(PagesOf[d])
  <1>1. IsFiniteSet(RagSources) /\ MaxChunks \in Nat
    BY RagAssumption DEF RagSources
  <1>2. IsFiniteSet(1..MaxChunks) /\ IsFiniteSet(ChunkIds)
    <2>1. IsFiniteSet(1..MaxChunks)
      BY <1>1, FS_Interval
    <2> QED BY <1>1, <2>1, FS_Product DEF ChunkIds
  <1>3. ASSUME NEW d \in RagSources
        PROVE  /\ IsFiniteSet(Chunks(d))
               /\ \A c \in Chunks(d) : c.id \in ChunkIds /\ c.page \in 1..Len(PagesOf[d])
    <2>1. PagesOf[d] \in Seq(0..MaxChunks)
      BY <1>3, RagAssumption DEF RagSources
    <2> DEFINE P == 1..Len(PagesOf[d])
               pairs == ({d} \X (1..MaxChunks)) \X P
               f == [x \in pairs |-> [id |-> x[1], page |-> x[2]]]
               all == {f[x] : x \in pairs}
    <2>2. Len(PagesOf[d]) \in Nat /\ DOMAIN PagesOf[d] = P
      BY <2>1, LenProperties
    <2>3. IsFiniteSet(pairs)
      <3>1. IsFiniteSet({d} \X (1..MaxChunks))
        BY <1>2, FS_Singleton, FS_Product
      <3>2. IsFiniteSet(P)
        BY <2>2, FS_Interval
      <3> QED BY <3>1, <3>2, FS_Product
    <2>4. IsFiniteSet(all)
      <3> HIDE DEF pairs
      <3>1. f \in Surjection(pairs, all)
        BY DEF Surjection
      <3> HIDE DEF f, all
      <3> QED BY <2>3, <3>1, FS_Surjection
    <2>5. ASSUME NEW c \in Chunks(d) PROVE c \in all /\ c.id \in ChunkIds /\ c.page \in P
      <3>1. c \in [id : {d} \X (1..MaxChunks), page : P]
        BY <2>2 DEF Chunks
      <3>2. c.id \in {d} \X (1..MaxChunks) /\ c.page \in P /\ c = [id |-> c.id, page |-> c.page]
        BY <3>1
      <3>3. <<c.id, c.page>> \in pairs /\ f[<<c.id, c.page>>] = c
        BY <3>2
      <3>4. c \in all
        <4> HIDE DEF pairs, f
        <4> QED BY <3>3
      <3> QED BY <3>2, <3>4 DEF ChunkIds
    <2>6. Chunks(d) \subseteq all
      <3> HIDE DEF all
      <3> QED BY <2>5
    <2> HIDE DEF all
    <2> QED BY <2>4, <2>5, <2>6, FS_Subset
  <1>4. IsFiniteSet(RagTexts)
    <2> DEFINE g == [d \in RagSources |-> Chunks(d)]
               parts == {Chunks(d) : d \in RagSources}
    <2>1. g \in Surjection(RagSources, parts)
      <3> HIDE DEF Chunks
      <3> QED BY DEF Surjection
    <2>2. IsFiniteSet(parts)
      <3> HIDE DEF parts, g
      <3> QED BY <1>1, <2>1, FS_Surjection
    <2>3. \A T \in parts : IsFiniteSet(T)
      BY <1>3
    <2>4. RagTexts = UNION parts
      BY DEF RagTexts
    <2> HIDE DEF parts
    <2> QED BY <2>2, <2>3, <2>4, FS_UNION
  <1>5. \A c \in RagTexts : \E d \in RagSources : c \in Chunks(d)
    BY DEF RagTexts
  <1>6. \A d \in RagSources : \A c \in Chunks(d) : c \in RagTexts
    BY DEF RagTexts
  <1> QED BY <1>2, <1>3, <1>4, <1>5, <1>6

\* An upsert stores every chunk of its document and removes none.
LEMMA UpsertStores ==
    ASSUME NEW has \in [ChunkIds -> Nat], NEW d \in RagSources
    PROVE  /\ Upserted(has, d) \in [ChunkIds -> Nat]
           /\ \A c \in Chunks(d) : Upserted(has, d)[c.id] # NoPage
           /\ \A id \in ChunkIds : has[id] # NoPage => Upserted(has, d)[id] # NoPage
  <1> DEFINE pages(id) == {c.page : c \in {c \in Chunks(d) : c.id = id}}
             new(id) == IF pages(id) = {} THEN has[id] ELSE Max(pages(id))
  <1>0. PagesOf[d] \in Seq(0..MaxChunks)
    BY RagAssumption DEF RagSources
  <1>1. ASSUME NEW id \in ChunkIds, pages(id) # {} PROVE new(id) \in Nat /\ new(id) # NoPage
    <2>1. pages(id) \subseteq 1..Len(PagesOf[d])
      BY TextsFinite
    <2> DEFINE S == pages(id)
               f == [x \in S |-> x]
               most(x) == x \in S /\ \A y \in S : x >= y
    <2>2. IsFiniteSet(S) /\ S # {} /\ \A x \in S : x \in Nat /\ x > 0
      <3>1. IsFiniteSet(1..Len(PagesOf[d])) /\ \A x \in 1..Len(PagesOf[d]) : x \in Nat /\ x > 0
        <4>1. Len(PagesOf[d]) \in Nat
          BY <1>0, LenProperties
        <4>2. IsFiniteSet(1..Len(PagesOf[d]))
          BY <4>1, FS_Interval
        <4> QED BY <4>1, <4>2
      <3> HIDE DEF pages
      <3> QED BY <1>1, <2>1, <3>1, FS_Subset
    <2> HIDE DEF S
    <2>3. \E x \in S : \A y \in S : f[y] <= f[x]
      <3>1. \A x \in S : f[x] \in Int
        BY <2>2
      <3> HIDE DEF f
      <3> QED BY <2>2, <3>1, Highest
    <2>4. \E x : most(x)
      <3>1. PICK x \in S : \A y \in S : f[y] <= f[x]
        BY <2>3
      <3>2. most(x)
        BY <2>2, <3>1
      <3> HIDE DEF most
      <3> QED BY <3>2
    <2>5. Max(S) = CHOOSE x : most(x)
      BY DEF Max
    <2>6. most(Max(S))
      <3> HIDE DEF most
      <3> QED BY <2>4, <2>5
    <2>7. new(id) = Max(S)
      BY <1>1 DEF S
    <2> HIDE DEF new
    <2> QED BY <2>2, <2>6, <2>7 DEF NoPage
  <1>2. Upserted(has, d) = [id \in ChunkIds |-> new(id)]
    BY DEF Upserted
  <1>3. \A id \in ChunkIds : /\ new(id) \in Nat
                             /\ pages(id) # {} \/ has[id] # NoPage => new(id) # NoPage
    <2> HIDE DEF pages
    <2> QED BY <1>1
  <1>4. \A c \in Chunks(d) : c.id \in ChunkIds /\ pages(c.id) # {}
    BY TextsFinite
  <1> HIDE DEF pages, new
  <1> QED BY <1>2, <1>3, <1>4

\* A call that stores a document, in whatever collection, has it there, and takes
\* nothing from anyone.
LEMMA StoreStores ==
    ASSUME points \in RagPoints, ingesting \in [RagIngests -> Ingest],
           NEW i \in RagIngests, NEW d \in RagSources, StorePoints(i, d)
    PROVE  /\ points' \in RagPoints
           /\ \A c \in Chunks(d) : points'[ingesting[i].into][c.id] # NoPage
           /\ \A k \in RagCollections : \A id \in ChunkIds : points[k][id] # NoPage => points'[k][id] # NoPage
  <1> DEFINE into == ingesting[i].into
             after == Upserted(points[into], d)
  <1>1. into \in RagCollections
    BY DEF Ingest
  <1>2. points[into] \in [ChunkIds -> Nat]
    BY <1>1 DEF RagPoints
  <1>3. /\ after \in [ChunkIds -> Nat]
        /\ \A c \in Chunks(d) : after[c.id] # NoPage
        /\ \A id \in ChunkIds : points[into][id] # NoPage => after[id] # NoPage
    BY <1>2, UpsertStores
  <1>4. points' = [points EXCEPT ![into] = after]
    BY DEF StorePoints
  <1> HIDE DEF into, after
  <1>5. points' \in RagPoints /\ points'[into] = after
    BY <1>1, <1>3, <1>4 DEF RagPoints
  <1>6. \A k \in RagCollections \ {into} : points'[k] = points[k]
    BY <1>4 DEF RagPoints
  <1>7. \A k \in RagCollections : \A id \in ChunkIds : points[k][id] # NoPage => points'[k][id] # NoPage
    BY <1>3, <1>5, <1>6
  <1> QED BY <1>3, <1>5, <1>7 DEF into

\* A search is as sound as it was when neither it nor the legs it has are
\* touched.
LEMMA SearchesKept ==
    ASSUME \A s \in RagSearches : SearchOK(s), search' = search
    PROVE  \A s \in RagSearches : SearchOK(s)'
  BY DEF SearchOK

\* The steps of rag_ingest: what it indexes it has stored.
LEMMA IngestKeeps ==
    ASSUME RagInv, NEW i \in RagIngests,
           \/ BeginIngest(i) \/ CreateCollection(i) \/ IngestDoc(i)
           \/ PublishEngine(i) \/ BuildIndex(i)
    PROVE  RagInv'
  <1>0. /\ ingesting \in [RagIngests -> Ingest] /\ ingesting[i] \in Ingest
        /\ engines \in [RagIngests -> HybridEngine] /\ points \in RagPoints
        /\ \A j \in RagIngests : /\ ingesting[j].texts \subseteq RagTexts
                                 /\ engines[j].entries \subseteq RagTexts
    BY DEF RagInv, RagTypeOK, Ingest, HybridEngine
  <1>1. search' = search
    BY DEF BeginIngest, CreateCollection, IngestDoc, PublishEngine, BuildIndex
  <1>2. (\A s \in RagSearches : SearchOK(s)') /\ search' = [s \in RagSearches |-> search'[s]]
    BY <1>1, SearchesKept DEF RagInv, RagTypeOK
  <1>3. ASSUME NEW next \in Ingest, ingesting' = [ingesting EXCEPT ![i] = next],
               next.texts = ingesting[i].texts, next.into = ingesting[i].into, UNCHANGED <<points, engines>>,
               engine' \in {engine, i}
        PROVE  RagInv'
    <2>1. ingesting' \in [RagIngests -> Ingest] /\ \A j \in RagIngests :
             ingesting'[j].texts = ingesting[j].texts /\ ingesting'[j].into = ingesting[j].into
      BY <1>0, <1>3
    <2>2. RagTypeOK'
      BY <1>2, <1>3, <2>1 DEF RagInv, RagTypeOK
    <2>3. \A j \in RagIngests : IngestStored(j)'
      BY <1>3, <2>1 DEF RagInv, IngestStored, AllStored
    <2> QED BY <1>2, <2>2, <2>3 DEF RagInv
  <1>4. ASSUME NEW pc \in IngestPc, IngestGoes(i, pc), UNCHANGED <<points, engines>>,
               engine' \in {engine, i}
        PROVE  RagInv'
    <2> DEFINE next == [ingesting[i] EXCEPT !.pc = pc]
    <2>1. next \in Ingest /\ next.texts = ingesting[i].texts /\ next.into = ingesting[i].into
      BY <1>0, <1>4 DEF Ingest
    <2>2. ingesting' = [ingesting EXCEPT ![i] = next]
      BY <1>4 DEF IngestGoes
    <2> HIDE DEF next
    <2> QED BY <1>3, <1>4, <2>1, <2>2
  <1>5. CASE BeginIngest(i)
    <2>1. PICK docs \in DocLists, seen \in {ingesting[i].into \in created, FALSE} :
             ingesting' = [ingesting EXCEPT ![i].left = docs,
                                            ![i].pc = IF seen THEN "docs" ELSE "create"]
      BY <1>5 DEF BeginIngest
    <2> DEFINE next == [ingesting[i] EXCEPT !.left = docs, !.pc = IF seen THEN "docs" ELSE "create"]
    <2>2. docs \in Seq(RagSources)
      BY RagAssumption DEF RagSources
    <2>3. next \in Ingest /\ next.texts = ingesting[i].texts /\ next.into = ingesting[i].into
      BY <1>0, <2>2 DEF Ingest, IngestPc
    <2>4. ingesting' = [ingesting EXCEPT ![i] = next]
      BY <2>1
    <2>5. UNCHANGED <<points, engines>> /\ engine' = engine
      BY <1>5 DEF BeginIngest
    <2> HIDE DEF next
    <2> QED BY <1>3, <2>3, <2>4, <2>5
  <1>6. CASE CreateCollection(i)
    <2>1. (IngestGoes(i, "docs") \/ IngestGoes(i, "raised")) /\ UNCHANGED <<points, engines, engine>>
      BY <1>6 DEF CreateCollection
    <2> QED BY <1>4, <2>1 DEF IngestPc
  <1>7. CASE PublishEngine(i)
    <2>1. /\ IngestGoes(i, "done") \/ IngestGoes(i, "index")
          /\ UNCHANGED <<points, engines>> /\ engine' \in {engine, i}
      BY <1>7 DEF PublishEngine
    <2> QED BY <1>4, <2>1 DEF IngestPc
  <1>8. CASE BuildIndex(i)
    <2> DEFINE built == [engines[i] EXCEPT !.built = TRUE, !.entries = ingesting[i].texts]
               next == [ingesting[i] EXCEPT !.pc = "done"]
    <2>1. engines' = [engines EXCEPT ![i] = built] /\ ingesting' = [ingesting EXCEPT ![i] = next]
          /\ UNCHANGED <<points, engine>>
      BY <1>8 DEF BuildIndex, IngestGoes
    <2>2. built \in HybridEngine /\ built.entries = ingesting[i].texts
      BY <1>0 DEF HybridEngine
    <2>3. next \in Ingest /\ next.texts = ingesting[i].texts /\ next.into = ingesting[i].into
      BY <1>0 DEF Ingest, IngestPc
    <2> HIDE DEF built, next
    <2>4. RagTypeOK'
      BY <1>0, <1>2, <2>1, <2>2, <2>3 DEF RagInv, RagTypeOK
    <2>5. \A j \in RagIngests : IngestStored(j)'
      BY <1>0, <2>1, <2>2, <2>3 DEF RagInv, IngestStored, AllStored
    <2> QED BY <1>2, <2>4, <2>5 DEF RagInv
  <1>9. CASE IngestDoc(i)
    <2> DEFINE d == Head(ingesting[i].left)
               next == [ingesting[i] EXCEPT !.left = Tail(@)]
               stored == [next EXCEPT !.texts = @ \union Chunks(d), !.ingested = @ \union {d}]
    <2>1. /\ UNCHANGED <<engines, engine>>
          /\ \/ StorePoints(i, d) /\ ingesting' = [ingesting EXCEPT ![i] = stored]
             \/ /\ StorePoints(i, d) \/ UNCHANGED points
                /\ ingesting' = [ingesting EXCEPT ![i] = next] \/ IngestGoes(i, "raised")
      BY <1>9 DEF IngestDoc
    <2>2. ingesting[i].left \in Seq(RagSources) /\ ingesting[i].left # <<>>
      BY <1>0, <1>9 DEF IngestDoc, Ingest
    <2>3. d \in RagSources /\ Tail(ingesting[i].left) \in Seq(RagSources)
      BY <2>2, HeadTailProperties
    <2>4. Chunks(d) \subseteq RagTexts
      BY <2>3, TextsFinite
    <2>5. next \in Ingest /\ next.texts = ingesting[i].texts /\ next.into = ingesting[i].into
      BY <1>0, <2>3 DEF Ingest
    <2>6. stored \in Ingest /\ stored.texts = ingesting[i].texts \union Chunks(d) /\ stored.into = ingesting[i].into
      <3>1. next.ingested \subseteq RagSources /\ next.texts \subseteq RagTexts
        BY <2>5 DEF Ingest
      <3> HIDE DEF next, d
      <3> QED BY <2>3, <2>4, <2>5, <3>1 DEF Ingest
    <2> HIDE DEF next, stored
    <2>7. ASSUME StorePoints(i, d), NEW after \in Ingest, ingesting' = [ingesting EXCEPT ![i] = after],
                 after.into = ingesting[i].into, after.texts \subseteq ingesting[i].texts \union Chunks(d)
          PROVE  RagInv'
      <3>1. /\ points' \in RagPoints
            /\ \A c \in Chunks(d) : points'[ingesting[i].into][c.id] # NoPage
            /\ \A k \in RagCollections : \A id \in ChunkIds : points[k][id] # NoPage => points'[k][id] # NoPage
        BY <1>0, <2>3, <2>7, StoreStores
      <3>2. ASSUME NEW k \in RagCollections, NEW T \in SUBSET RagTexts, AllStored(k, T)
            PROVE  \A c \in T : points'[k][c.id] # NoPage
        BY <3>1, <3>2, TextsFinite DEF AllStored
      <3>3. RagTypeOK'
        BY <1>0, <1>2, <2>1, <2>7, <3>1 DEF RagInv, RagTypeOK
      <3>4. \A j \in RagIngests :
               /\ ingesting[j].into \in RagCollections /\ ingesting'[j].into = ingesting[j].into
               /\ j # i => ingesting'[j].texts = ingesting[j].texts
        BY <1>0, <2>7 DEF Ingest
      <3>5. ASSUME NEW j \in RagIngests
            PROVE  IngestStored(j)'
        <4>1. AllStored(ingesting[j].into, ingesting[j].texts) /\ AllStored(ingesting[j].into, engines[j].entries)
          BY DEF RagInv, IngestStored
        <4>2. \A c \in engines[j].entries : points'[ingesting[j].into][c.id] # NoPage
          BY <1>0, <3>2, <3>4, <4>1
        <4>3. \A c \in ingesting[j].texts : points'[ingesting[j].into][c.id] # NoPage
          BY <1>0, <3>2, <3>4, <4>1
        <4>4. \A c \in ingesting'[j].texts : points'[ingesting[j].into][c.id] # NoPage
          <5>1. CASE j = i
            <6>1. ingesting'[j].texts \subseteq ingesting[j].texts \union Chunks(d)
              BY <1>0, <2>7, <5>1
            <6> QED BY <3>1, <4>3, <5>1, <6>1
          <5>2. CASE j # i
            BY <3>4, <4>3, <5>2
          <5> QED BY <5>1, <5>2
        <4> QED BY <2>1, <3>4, <4>2, <4>4 DEF IngestStored, AllStored
      <3> QED BY <1>2, <3>3, <3>5 DEF RagInv
    <2>8. CASE StorePoints(i, d) /\ ingesting' = [ingesting EXCEPT ![i] = stored]
      BY <2>6, <2>7, <2>8
    <2>9. CASE (StorePoints(i, d) \/ UNCHANGED points) /\ ingesting' = [ingesting EXCEPT ![i] = next]
      BY <1>3, <2>1, <2>5, <2>7, <2>9
    <2>10. CASE (StorePoints(i, d) \/ UNCHANGED points) /\ IngestGoes(i, "raised")
      <3> DEFINE over == [ingesting[i] EXCEPT !.pc = "raised"]
      <3>1. over \in Ingest /\ over.texts = ingesting[i].texts /\ over.into = ingesting[i].into
        BY <1>0 DEF Ingest, IngestPc
      <3>2. ingesting' = [ingesting EXCEPT ![i] = over]
        BY <2>10 DEF IngestGoes
      <3> HIDE DEF over
      <3> QED BY <1>3, <2>1, <2>7, <2>10, <3>1, <3>2
    <2> QED BY <2>1, <2>8, <2>9, <2>10
  <1> QED BY <1>5, <1>6, <1>7, <1>8, <1>9

\* A ranking is no longer than a leg may be.
LEMMA RankingsShort ==
    ASSUME NEW S, IsFiniteSet(S), NEW found \in Rankings(S)
    PROVE  found \in Seq(S) /\ Len(found) <= TopKEach /\ DOMAIN found = 1..Len(found)
  <1>1. TopKEach \in Nat /\ Cardinality(S) \in Nat
    BY RagAssumption, FS_CardinalityType
  <1> DEFINE most == Min({TopKEach, Cardinality(S)})
  <1>2. most \in Nat /\ most <= TopKEach
    BY <1>1, MinOfTwo
  <1>3. PICK n \in 0..most : found \in [1..n -> S]
    <2> HIDE DEF most
    <2>1. Rankings(S) = {r \in UNION {[1..n -> S] : n \in 0..most} : IsInjective(r)}
      BY DEF Rankings, most
    <2> QED BY <2>1
  <1> HIDE DEF most
  <1>4. n \in Nat /\ n <= TopKEach
    BY <1>1, <1>2
  <1> QED BY <1>3, <1>4

\* A search that is given what a search may be.
LEMMA SearchGiven ==
    ASSUME RagInv, NEW s \in RagSearches, NEW x, search' = [search EXCEPT ![s] = x],
           x.pc = "legs" => x \in LegSearch,
           x.pc = "fused" =>
             /\ x.bm25 \in Legs /\ x.vector \in Legs
             /\ \E topK \in Nat : x.results \in Fused(<<x.bm25, x.vector>>, topK)
    PROVE  (\A t \in RagSearches : SearchOK(t)') /\ search' = [t \in RagSearches |-> search'[t]]
  <1>1. search = [t \in RagSearches |-> search[t]]
    BY DEF RagInv, RagTypeOK
  <1>2. search'[s] = x /\ \A t \in RagSearches \ {s} : search'[t] = search[t]
    BY <1>1
  <1>3. search' = [t \in RagSearches |-> search'[t]]
    BY <1>1
  <1>4. ASSUME NEW t \in RagSearches PROVE SearchOK(t)'
    <2>1. CASE t = s
      <3>1. search'[t] = x
        BY <1>2, <2>1
      <3> QED BY <3>1 DEF SearchOK
    <2>2. CASE t # s
      <3>1. search'[t] = search[t] /\ SearchOK(t)
        BY <1>2, <2>2 DEF RagInv
      <3> QED BY <3>1 DEF SearchOK
    <2> QED BY <2>1, <2>2
  <1> QED BY <1>3, <1>4

\* A search that sets top_k leaves the index alone.
LEMMA TopKSet ==
    ASSUME RagInv, NEW k \in TopKs, UNCHANGED <<points, engine, ingesting>>,
           engines' = IF engine = NoEngine THEN engines ELSE [engines EXCEPT ![engine].topK = k],
           \A t \in RagSearches : SearchOK(t)', search' = [t \in RagSearches |-> search'[t]]
    PROVE  RagInv'
  <1>1. k \in Nat
    BY RagAssumption
  <1>2. /\ engines \in [RagIngests -> HybridEngine]
        /\ engine \in RagIngests \union {NoEngine}
    BY DEF RagInv, RagTypeOK
  <1>3. /\ engines' \in [RagIngests -> HybridEngine]
        /\ \A i \in RagIngests : engines'[i].entries = engines[i].entries
    <2>1. CASE engine = NoEngine
      BY <1>2, <2>1
    <2>2. CASE engine # NoEngine
      <3> DEFINE set == [engines[engine] EXCEPT !.topK = k]
      <3>1. engine \in RagIngests /\ engines[engine] \in HybridEngine
        BY <1>2, <2>2
      <3>2. set \in HybridEngine /\ set.entries = engines[engine].entries
        BY <1>1, <3>1 DEF HybridEngine
      <3>3. engines' = [engines EXCEPT ![engine] = set]
        BY <2>2
      <3> HIDE DEF set
      <3> QED BY <1>2, <3>1, <3>2, <3>3
    <2> QED BY <2>1, <2>2
  <1>4. RagTypeOK'
    BY <1>3 DEF RagInv, RagTypeOK
  <1>5. \A i \in RagIngests : IngestStored(i)'
    BY <1>3 DEF RagInv, IngestStored, AllStored
  <1> QED BY <1>4, <1>5 DEF RagInv

\* A step that only lets a search go on.
LEMMA SearchGoesOn ==
    ASSUME RagInv, UNCHANGED <<points, engines, engine, ingesting>>,
           \A t \in RagSearches : SearchOK(t)', search' = [t \in RagSearches |-> search'[t]]
    PROVE  RagInv'
  <1>1. RagTypeOK'
    BY DEF RagInv, RagTypeOK
  <1>2. \A i \in RagIngests : IngestStored(i)'
    BY DEF RagInv, IngestStored, AllStored
  <1> QED BY <1>1, <1>2 DEF RagInv

LEMMA SearchKeeps ==
    ASSUME RagInv, NEW s \in RagSearches,
           \/ BeginSearch(s) \/ Bm25Leg(s) \/ VectorLeg(s)
           \/ FuseResults(s) \/ FilterResults(s) \/ AnswerQuestion(s)
    PROVE  RagInv'
  <1> DEFINE own == search[s]
  <1>0. own.pc = "legs" => own \in LegSearch
    BY DEF RagInv, SearchOK
  <1>1. CASE BeginSearch(s)
    <2>1. PICK k \in TopKs :
             /\ search' = [search EXCEPT ![s] =
                   [pc |-> "legs", topK |-> k, engine |-> engine,
                    bm25 |-> <<>>, vector |-> <<>>, ran |-> {}]]
             /\ engines' = IF engine = NoEngine THEN engines ELSE [engines EXCEPT ![engine].topK = k]
      BY <1>1 DEF BeginSearch
    <2> DEFINE x == [pc |-> "legs", topK |-> k, engine |-> engine,
                     bm25 |-> <<>>, vector |-> <<>>, ran |-> {}]
    <2>2. <<>> \in Legs
      <3>1. <<>> \in Seq(ChunkIds) /\ Len(<<>>) = 0 /\ TopKEach \in Nat
        BY RagAssumption, EmptySeq
      <3> QED BY <3>1 DEF Legs
    <2>3. x \in LegSearch /\ x.pc = "legs"
      BY <2>2, RagAssumption DEF LegSearch, RagInv, RagTypeOK
    <2>4. search' = [search EXCEPT ![s] = x]
      BY <2>1
    <2>5. UNCHANGED <<points, engine, ingesting>>
      BY <1>1 DEF BeginSearch
    <2> HIDE DEF x
    <2>6. (\A t \in RagSearches : SearchOK(t)') /\ search' = [t \in RagSearches |-> search'[t]]
      BY <2>3, <2>4, SearchGiven
    <2> QED BY <2>1, <2>5, <2>6, TopKSet
  <1>2. CASE Bm25Leg(s)
    <2>1. PICK found \in IF own.engine # NoEngine /\ engines[own.engine].built
                         THEN Rankings(engines[own.engine].entries) ELSE {<<>>} :
             search' = [search EXCEPT ![s].bm25 = [n \in DOMAIN found |-> found[n].id],
                                      ![s].ran = @ \union {"bm25"}]
      BY <1>2 DEF Bm25Leg
    <2>2. own \in LegSearch /\ UNCHANGED <<points, engines, engine, ingesting>>
      BY <1>0, <1>2 DEF Bm25Leg
    <2> DEFINE leg == [n \in DOMAIN found |-> found[n].id]
               x == [own EXCEPT !.bm25 = leg, !.ran = @ \union {"bm25"}]
    <2>3. found \in Seq(RagTexts) /\ Len(found) <= TopKEach /\ DOMAIN found = 1..Len(found)
      <3>1. CASE own.engine # NoEngine /\ engines[own.engine].built
        <4>1. own.engine \in RagIngests
          BY <2>2, <3>1 DEF LegSearch
        <4>2. engines[own.engine].entries \subseteq RagTexts
          BY <4>1 DEF RagInv, RagTypeOK, HybridEngine
        <4>3. IsFiniteSet(engines[own.engine].entries)
          BY <4>2, TextsFinite, FS_Subset
        <4>4. found \in Rankings(engines[own.engine].entries)
          BY <2>1, <3>1
        <4>5. /\ found \in Seq(engines[own.engine].entries)
              /\ Len(found) <= TopKEach /\ DOMAIN found = 1..Len(found)
          BY <4>3, <4>4, RankingsShort
        <4> DEFINE E == engines[own.engine].entries
        <4> HIDE DEF E
        <4> QED BY <4>2, <4>5 DEF E
      <3>2. CASE ~(own.engine # NoEngine /\ engines[own.engine].built)
        <4>1. found = <<>>
          BY <2>1, <3>2
        <4>2. <<>> \in Seq(RagTexts) /\ Len(<<>>) = 0 /\ TopKEach \in Nat
          BY RagAssumption, EmptySeq
        <4> QED BY <4>1, <4>2
      <3> QED BY <3>1, <3>2
    <2>4. leg \in Legs
      <3>1. Len(found) \in Nat /\ \A n \in 1..Len(found) : found[n].id \in ChunkIds
        BY <2>3, TextsFinite, LenProperties
      <3>2. leg = [n \in 1..Len(found) |-> found[n].id]
        BY <2>3
      <3>3. leg \in [1..Len(found) -> ChunkIds]
        BY <3>1, <3>2
      <3> HIDE DEF leg
      <3>4. leg \in Seq(ChunkIds) /\ Len(leg) = Len(found)
        BY <3>1, <3>3
      <3> QED BY <2>3, <3>4 DEF Legs
    <2>5. search' = [search EXCEPT ![s] = x]
      BY <2>1
    <2> HIDE DEF leg
    <2>6. x \in LegSearch /\ x.pc = "legs"
      BY <2>2, <2>4 DEF LegSearch
    <2> HIDE DEF x
    <2>7. (\A t \in RagSearches : SearchOK(t)') /\ search' = [t \in RagSearches |-> search'[t]]
      BY <2>5, <2>6, SearchGiven
    <2> QED BY <2>2, <2>7, SearchGoesOn
  <1>3. CASE VectorLeg(s)
    <2> DEFINE S == {id \in ChunkIds : points[DefaultCollection][id] # NoPage}
    <2>1. PICK found \in Rankings(S) :
             search' = [search EXCEPT ![s].vector = found, ![s].ran = @ \union {"vector"}]
      BY <1>3 DEF VectorLeg
    <2>2. own \in LegSearch /\ UNCHANGED <<points, engines, engine, ingesting>>
      BY <1>0, <1>3 DEF VectorLeg
    <2> DEFINE x == [own EXCEPT !.vector = found, !.ran = @ \union {"vector"}]
    <2>3. found \in Legs
      <3>1. IsFiniteSet(S) /\ S \subseteq ChunkIds
        BY TextsFinite, FS_Subset
      <3> HIDE DEF S
      <3>2. found \in Seq(S) /\ Len(found) <= TopKEach
        BY <2>1, <3>1, RankingsShort
      <3> QED BY <3>1, <3>2 DEF Legs
    <2>4. search' = [search EXCEPT ![s] = x]
      BY <2>1
    <2>5. x \in LegSearch /\ x.pc = "legs"
      BY <2>2, <2>3 DEF LegSearch
    <2> HIDE DEF x
    <2>6. (\A t \in RagSearches : SearchOK(t)') /\ search' = [t \in RagSearches |-> search'[t]]
      BY <2>4, <2>5, SearchGiven
    <2> QED BY <2>2, <2>6, SearchGoesOn
  <1>4. CASE FuseResults(s)
    <2> DEFINE topK == IF own.engine = NoEngine THEN own.topK ELSE engines[own.engine].topK
    <2>1. PICK results \in Fused(<<own.bm25, own.vector>>, topK) :
             search' = [search EXCEPT ![s] =
                [pc |-> "fused", bm25 |-> own.bm25, vector |-> own.vector, results |-> results]]
      BY <1>4 DEF FuseResults
    <2>2. own \in LegSearch /\ UNCHANGED <<points, engines, engine, ingesting>>
      BY <1>0, <1>4 DEF FuseResults
    <2>3. topK \in Nat
      BY <2>2 DEF LegSearch, RagInv, RagTypeOK, HybridEngine
    <2> DEFINE x == [pc |-> "fused", bm25 |-> own.bm25, vector |-> own.vector, results |-> results]
    <2>4. search' = [search EXCEPT ![s] = x]
      BY <2>1
    <2> HIDE DEF topK
    <2>5. x.pc = "fused" /\ x.bm25 = own.bm25 /\ x.vector = own.vector /\ x.results = results
      OBVIOUS
    <2> HIDE DEF x
    <2>6. x.bm25 \in Legs /\ x.vector \in Legs /\ x.results \in Fused(<<x.bm25, x.vector>>, topK)
      BY <2>1, <2>2, <2>5 DEF LegSearch
    <2>7. (\A t \in RagSearches : SearchOK(t)') /\ search' = [t \in RagSearches |-> search'[t]]
      BY <2>3, <2>4, <2>5, <2>6, SearchGiven
    <2> QED BY <2>2, <2>7, SearchGoesOn
  <1>5. CASE FilterResults(s) \/ AnswerQuestion(s)
    <2>1. PICK x : search' = [search EXCEPT ![s] = x] /\ x.pc \notin {"legs", "fused"}
      <3>1. CASE FilterResults(s)
        <4>1. PICK seen : search' = [search EXCEPT ![s] = [pc |-> "results", results |-> seen]]
          BY <3>1 DEF FilterResults
        <4> DEFINE x == [pc |-> "results", results |-> seen]
        <4>2. search' = [search EXCEPT ![s] = x] /\ x.pc = "results"
          BY <4>1
        <4> HIDE DEF x
        <4> QED BY <4>2
      <3>2. CASE AnswerQuestion(s)
        <4>1. PICK confident : search' = [search EXCEPT ![s] =
                  [pc |-> "answered", confident |-> confident, results |-> own.results]]
          BY <3>2 DEF AnswerQuestion
        <4> DEFINE x == [pc |-> "answered", confident |-> confident, results |-> own.results]
        <4>2. search' = [search EXCEPT ![s] = x] /\ x.pc = "answered"
          BY <4>1
        <4> HIDE DEF x
        <4> QED BY <4>2
      <3> QED BY <1>5, <3>1, <3>2
    <2>2. UNCHANGED <<points, engines, engine, ingesting>>
      BY <1>5 DEF FilterResults, AnswerQuestion
    <2>3. (\A t \in RagSearches : SearchOK(t)') /\ search' = [t \in RagSearches |-> search'[t]]
      BY <2>1, SearchGiven
    <2> QED BY <2>2, <2>3, SearchGoesOn
  <1> QED BY <1>1, <1>2, <1>3, <1>4, <1>5

LEMMA RagStep == RagInv /\ [RagNext]_ragVars => RagInv'
  <1> SUFFICES ASSUME RagInv, [RagNext]_ragVars PROVE RagInv'
    OBVIOUS
  <1>0. ASSUME search' = search
        PROVE  (\A t \in RagSearches : SearchOK(t)') /\ search' = [t \in RagSearches |-> search'[t]]
    BY <1>0, SearchesKept DEF RagInv, RagTypeOK
  <1>1. CASE UNCHANGED ragVars
    BY <1>0, <1>1, SearchGoesOn DEF ragVars
  <1>2. CASE OtherSearch
    <2>1. PICK k \in TopKs : engines' = [engines EXCEPT ![engine].topK = k]
      BY <1>2 DEF OtherSearch
    <2>2. engine # NoEngine /\ UNCHANGED <<points, engine, ingesting>> /\ search' = search
      BY <1>2 DEF OtherSearch
    <2> QED BY <1>0, <2>1, <2>2, TopKSet
  <1>3. ASSUME NEW i \in RagIngests,
               BeginIngest(i) \/ CreateCollection(i) \/ IngestDoc(i) \/ PublishEngine(i) \/ BuildIndex(i)
        PROVE  RagInv'
    BY <1>3, IngestKeeps
  <1>4. ASSUME NEW s \in RagSearches,
               \/ BeginSearch(s) \/ Bm25Leg(s) \/ VectorLeg(s)
               \/ FuseResults(s) \/ FilterResults(s) \/ AnswerQuestion(s)
        PROVE  RagInv'
    BY <1>4, SearchKeeps
  <1> QED BY <1>1, <1>2, <1>3, <1>4 DEF RagNext

\* The hybrid search can rely on its legs and on their fusion: whatever an engine
\* has indexed is a point of the collection, and nothing one leg found comes
\* before what both found, for any number of ingests, searches, pages and ranks
\* (retriever.py:317-360, integration.py:103-121).  That two hits outweigh one
\* needs no more than TopKEach <= RrfK + 1.
THEOREM SearchIsSound == RagSpec => []SearchSound
  <1>1. RagInv => SearchSound
    <2> SUFFICES ASSUME RagInv PROVE SearchSound
      OBVIOUS
    <2>1. IndexedIsStored
      BY DEF RagInv, IngestStored, AllStored, IndexedIsStored
    <2>2. AgreementFirst
      <3> SUFFICES ASSUME NEW s \in RagSearches, search[s].pc = "fused",
                          NEW a \in ToSet(search[s].bm25) \union ToSet(search[s].vector),
                          NEW b \in ToSet(search[s].bm25) \union ToSet(search[s].vector),
                          Hits(search[s], a) = 1, Hits(search[s], b) > 1,
                          a \in ToSet(search[s].results)
                   PROVE  /\ b \in ToSet(search[s].results)
                          /\ FirstAt(b, search[s].results) < FirstAt(a, search[s].results)
        BY DEF AgreementFirst
      <3> DEFINE own == search[s]
      <3>1. /\ own.bm25 \in Legs /\ own.vector \in Legs
            /\ \E topK \in Nat : own.results \in Fused(<<own.bm25, own.vector>>, topK)
        BY DEF RagInv, SearchOK
      <3> HIDE DEF own
      <3> QED BY <3>1, FusedAgrees DEF own
    <2> QED BY <2>1, <2>2 DEF SearchSound
  <1> QED BY <1>1, InitGivesRagInv, RagStep, PTL DEF RagSpec

-----------------------------------------------------------------------------
(* The analysis agent: a statement names its LIMIT or has none, and the     *)
(* path is a path of the dashboard.                                         *)

IsStatement(s) ==
    /\ {"verb", "words", "semicolons", "limit", "counts", "names"} \subseteq DOMAIN s
    /\ s.limit \in Nat
    /\ s.names \/ s.limit > Stocked

AskedInv ==
    /\ asked.pc \in {"idle", "model", "check", "execute", "answered"}
    /\ asked.pc = "model" => "question" \in DOMAIN asked
    /\ asked.pc \in {"check", "execute"} =>
         /\ asked = [pc |-> asked.pc, question |-> asked.question, statement |-> asked.statement]
         /\ IsStatement(asked.statement)
    /\ RowsAreHonest

Labels == STRING \cup {""}

DashboardInv == facts \in Facts /\ path \in Seq(Labels) /\ cube \in Cubes

\* A statement the keywords make up.
LEMMA BuiltIsStatement == ASSUME NEW q PROVE IsStatement(Built(q))
  BY AnalysisAssumption DEF Built, IsStatement, LimitOf

\* What is answered to a statement that is sent as it is, or with the LIMIT.
LEMMA ReplyIsHonest ==
  ASSUME NEW s, IsStatement(s), NEW matching \in 0..Stocked, NEW sent \in {Sent(s), s},
         NEW fetched, fetched = Wanted(sent, matching), NEW wanted, wanted = Wanted(s, matching),
         NEW kept, kept = Kept(fetched)
  PROVE  /\ kept.rows <= MaxResults
         /\ kept.rows < MaxResults => kept.rows = wanted
         /\ kept.truncated => kept.rows = MaxResults /\ wanted > MaxResults
  <1>1. /\ MaxResults \in Nat \ {0} /\ Stocked \in Nat /\ matching \in Nat /\ matching <= Stocked
        /\ s.limit \in Nat /\ (s.names \/ s.limit > Stocked)
    BY AnalysisAssumption DEF IsStatement
  <1>2. /\ sent.counts = s.counts
        /\ sent = s \/ (~s.names /\ sent.limit = MaxResults)
    BY DEF Sent, IsStatement
  <1>3. wanted \in Nat /\ fetched \in Nat
    BY <1>1, <1>2, MinOfTwo DEF Wanted
  <1>4. fetched = wanted \/ (fetched = Min({matching, MaxResults}) /\ wanted = matching)
    <2>1. CASE s.counts
      BY <1>2, <2>1 DEF Wanted
    <2>2. CASE sent = s
      BY <2>2
    <2>3. CASE ~s.counts /\ ~s.names /\ sent.limit = MaxResults
      <3>1. fetched = Min({matching, MaxResults})
        BY <1>2, <2>3 DEF Wanted
      <3>2. wanted = Min({matching, s.limit}) /\ matching <= s.limit
        BY <1>1, <2>3 DEF Wanted
      <3>3. wanted = matching
        BY <1>1, <3>2, MinOfTwo
      <3> QED BY <3>1, <3>3
    <2> QED BY <1>2, <2>1, <2>2, <2>3
  <1>5. /\ kept.rows = Min({fetched, MaxResults})
        /\ kept.truncated => fetched > MaxResults
    <2>1. kept.rows = Min({fetched, MaxResults})
      BY DEF Kept
    <2>2. kept.truncated => fetched > MaxResults
      BY Zenon DEF Kept
    <2> QED BY <2>1, <2>2
  <1>6. /\ kept.rows <= MaxResults /\ kept.rows <= fetched /\ kept.rows \in {fetched, MaxResults}
    BY <1>1, <1>3, <1>5, MinOfTwo
  <1>7. CASE fetched = wanted
    BY <1>1, <1>3, <1>5, <1>6, <1>7
  <1>8. CASE fetched = Min({matching, MaxResults}) /\ wanted = matching
    <2>1. fetched <= MaxResults /\ fetched \in {matching, MaxResults}
      BY <1>1, <1>8, MinOfTwo
    <2> QED BY <1>1, <1>3, <1>5, <1>6, <1>8, <2>1
  <1> QED BY <1>4, <1>7, <1>8

LEMMA AskedStep == AskedInv /\ DashboardInv /\ [AnalysisNext]_analysisVars => AskedInv'
  <1> SUFFICES ASSUME AskedInv, DashboardInv, [AnalysisNext]_analysisVars PROVE AskedInv'
    OBVIOUS
  <1>1. ASSUME NEW q \in Questions, AskQuestion(q) PROVE AskedInv'
    <2>1. CASE asked' = [pc |-> "model", question |-> q]
      BY <2>1 DEF AskedInv, RowsAreHonest
    <2>2. CASE asked' = [pc |-> "check", question |-> q, statement |-> Built(q)]
      BY <2>2, BuiltIsStatement DEF AskedInv, RowsAreHonest
    <2> QED BY <1>1, <2>1, <2>2 DEF AskQuestion
  <1>2. ASSUME NEW s \in Generated, AskStatement(s) PROVE AskedInv'
    <2>1. IsStatement(s)
      BY AnalysisAssumption DEF IsStatement
    <2> QED BY <1>2, <2>1 DEF AskStatement, AskedInv, RowsAreHonest
  <1>3. ASSUME AskModel PROVE AskedInv'
    <2>1. CASE asked' = Refusal
      BY <2>1 DEF Refusal, AskedInv, RowsAreHonest
    <2>2. ASSUME NEW s \in Generated,
                 asked' = [pc |-> "check", question |-> asked.question, statement |-> s]
          PROVE  AskedInv'
      <3>1. IsStatement(s)
        BY AnalysisAssumption DEF IsStatement
      <3> QED BY <2>2, <3>1 DEF AskedInv, RowsAreHonest
    <2> QED BY <1>3, <2>1, <2>2 DEF AskModel
  <1>4. ASSUME CheckStatement PROVE AskedInv'
    <2>1. CASE asked' = Refusal
      BY <2>1 DEF Refusal, AskedInv, RowsAreHonest
    <2>2. CASE asked' = [asked EXCEPT !.pc = "execute"]
      <3>1. asked' = [pc |-> "execute", question |-> asked.question, statement |-> asked.statement]
        BY <1>4, <2>2 DEF CheckStatement, AskedInv
      <3>2. IsStatement(asked.statement)
        BY <1>4 DEF CheckStatement, AskedInv
      <3> QED BY <3>1, <3>2 DEF AskedInv, RowsAreHonest
    <2> QED BY <1>4, <2>1, <2>2 DEF CheckStatement
  <1>5. ASSUME Execute PROVE AskedInv'
    <2>1. IsStatement(asked.statement)
      BY <1>5 DEF Execute, AskedInv
    <2>2. CASE asked' = Reply(0, 0)
      <3> DEFINE kept == Kept(0)
      <3>1. kept.rows = 0 /\ ~kept.truncated
        <4>1. kept.rows = Min({0, MaxResults}) /\ MaxResults \in Nat \ {0}
          BY AnalysisAssumption DEF Kept
        <4>2. kept.truncated => 0 > MaxResults
          BY Zenon DEF Kept
        <4> HIDE DEF kept
        <4> QED BY <4>1, <4>2, MinOfTwo
      <3>2. asked' = [pc |-> "answered", success |-> TRUE, rows |-> kept.rows,
                      truncated |-> kept.truncated, wanted |-> 0]
        BY <2>2 DEF Reply
      <3> HIDE DEF kept
      <3> QED BY <3>1, <3>2, AnalysisAssumption DEF AskedInv, RowsAreHonest
    <2>3. ASSUME NEW matching \in 0..Stocked, NEW sent \in {Sent(asked.statement), asked.statement},
                 asked' = Reply(Wanted(sent, matching), Wanted(asked.statement, matching))
          PROVE  AskedInv'
      <3> DEFINE fetched == Wanted(sent, matching)
                 wanted == Wanted(asked.statement, matching)
                 kept == Kept(fetched)
      <3>1. /\ kept.rows <= MaxResults
            /\ kept.rows < MaxResults => kept.rows = wanted
            /\ kept.truncated => kept.rows = MaxResults /\ wanted > MaxResults
        BY <2>1, ReplyIsHonest
      <3>2. asked' = [pc |-> "answered", success |-> TRUE, rows |-> kept.rows,
                      truncated |-> kept.truncated, wanted |-> wanted]
        BY <2>3 DEF Reply
      <3> HIDE DEF fetched, wanted, kept
      <3> QED BY <3>1, <3>2 DEF AskedInv, RowsAreHonest
    <2> QED BY <1>5, <2>2, <2>3 DEF Execute
  <1>6. ASSUME NextCall PROVE AskedInv'
    BY <1>6 DEF NextCall, Idle, AskedInv, RowsAreHonest
  <1>7. ASSUME UNCHANGED asked PROVE AskedInv'
    BY <1>7 DEF AskedInv, RowsAreHonest
  <1> QED BY <1>1, <1>2, <1>3, <1>4, <1>5, <1>6, <1>7 DEF AnalysisNext, DrillDown, GoUp, analysisVars

\* What is shown is text.
LEMMA ShownIsText ==
  ASSUME NEW t \in Facts \cup Cubes, NEW n \in DOMAIN t, NEW d
  PROVE  Shown(t[n], d) \in Labels
  <1>1. CASE d \in DOMAIN t[n].at
    <2>1. t[n].at[d] \in [text : BOOLEAN, shown : STRING]
      BY <1>1, AnalysisAssumption
    <2>2. t[n].at[d].shown \in STRING
      BY <2>1
    <2> QED BY <1>1, <2>2 DEF Shown, Labels
  <1>2. CASE d \notin DOMAIN t[n].at
    BY <1>2 DEF Shown, Labels
  <1> QED BY <1>1, <1>2

LEMMA DashboardStep == DashboardInv /\ [AnalysisNext]_analysisVars => DashboardInv'
  <1> SUFFICES ASSUME DashboardInv, [AnalysisNext]_analysisVars PROVE DashboardInv'
    OBVIOUS
  <1>1. facts' = facts /\ cube' = cube
    BY DEF AnalysisNext, analysisVars, AskQuestion, AskStatement, AskModel, CheckStatement, Execute,
           NextCall, DrillDown, GoUp
  <1>2. path' \in Seq(Labels)
    <2>1. CASE UNCHANGED path
      BY <2>1 DEF DashboardInv
    <2>2. ASSUME NEW v \in DOMAIN Groups(path), DrillDown(v) PROVE path' \in Seq(Labels)
      <3> DEFINE at == [n \in Selected(path) |-> Shown(facts[n], Dimensions[Len(path) + 1])]
      <3>1. v \in Range(at)
        <4>1. CASE Len(path) >= Len(Dimensions)
          <5>1. DOMAIN Groups(path) = {}
            BY <4>1 DEF Groups
          <5> QED BY <5>1
        <4>2. CASE ~(Len(path) >= Len(Dimensions))
          BY <4>2 DEF Groups
        <4> QED BY <4>1, <4>2
      <3>2. \A n \in DOMAIN at : at[n] \in Labels
        BY ShownIsText DEF Selected, DashboardInv
      <3> HIDE DEF at
      <3>3. v \in Labels
        BY <3>1, <3>2 DEF Range
      <3> QED BY <2>2, <3>3, AppendProperties DEF DrillDown, DashboardInv
    <2>3. CASE GoUp
      <3>1. path # <<>> /\ path' = SubSeq(path, 1, Len(path) - 1)
        BY <2>3 DEF GoUp, Front
      <3>2. Len(path) \in Nat /\ path \in Seq(Labels) /\ Len(path) # 0
        BY <3>1, EmptySeq, LenProperties DEF DashboardInv
      <3> QED BY <3>1, <3>2, SubSeqProperties
    <2> QED BY <2>1, <2>2, <2>3 DEF AnalysisNext, analysisVars, AskQuestion, AskStatement, AskModel,
               CheckStatement, Execute, NextCall
  <1> QED BY <1>1, <1>2 DEF DashboardInv

-----------------------------------------------------------------------------
(* Totals: the rows of a value are the rows below it, each in one group,    *)
(* and those that it does not select.                                       *)

AmountsOf(t) == [n \in DOMAIN t |-> t[n].amount]

LEMMA TablesAreFinite ==
  ASSUME NEW t \in Facts \cup Cubes
  PROVE  /\ IsFiniteSet(DOMAIN t) /\ DOMAIN AmountsOf(t) = DOMAIN t
         /\ \A n \in DOMAIN t : AmountsOf(t)[n] \in Int
         /\ \A chosen \in SUBSET DOMAIN t : SumOver(t, chosen) = SumAt(AmountsOf(t), chosen)
                                         /\ SumOver(t, chosen) \in Int
  <1>2. /\ t \in Seq(Range(t))
        /\ \A n \in DOMAIN t : t[n].amount \in Int
    BY AnalysisAssumption
  <1>3. IsFiniteSet(DOMAIN t)
    BY <1>2, LenProperties, FS_Interval, 1 \in Int
  <1>4. DOMAIN AmountsOf(t) = DOMAIN t /\ \A n \in DOMAIN t : AmountsOf(t)[n] \in Int
    BY <1>2 DEF AmountsOf
  <1>5. \A chosen \in SUBSET DOMAIN t : SumAt(AmountsOf(t), chosen) \in Int
    BY <1>3, <1>4, SumAtType
  <1> QED BY <1>3, <1>4, <1>5 DEF SumOver, AmountsOf

\* The rows that have some values of a column, by that value.
LEMMA SumByColumn ==
  ASSUME NEW t \in Facts \cup Cubes, NEW chosen \in SUBSET DOMAIN t, NEW at, DOMAIN at = chosen,
         NEW by, by = [v \in Range(at) |-> SumOver(t, {n \in chosen : at[n] = v})]
  PROVE  SumOver(t, chosen) = SumAt(by, DOMAIN by)
  <1> DEFINE V == Range(at)
             D == DOMAIN t
             Amounts == AmountsOf(t)
  <1>1. /\ IsFiniteSet(D) /\ DOMAIN Amounts = D
        /\ \A n \in D : Amounts[n] \in Int
        /\ \A some \in SUBSET D : SumOver(t, some) = SumAt(Amounts, some) /\ SumOver(t, some) \in Int
    BY TablesAreFinite
  <1>2. IsFiniteSet(V)
    <2>1. IsFiniteSet(DOMAIN at)
      BY <1>1, FS_Subset
    <2> QED BY <2>1, FiniteRange DEF Range
  <1>3. DOMAIN by = V /\ \A v \in V : by[v] = SumAt(Amounts, {n \in chosen : at[n] = v}) /\ by[v] \in Int
    <2>1. \A v \in V : {n \in chosen : at[n] = v} \in SUBSET D
      OBVIOUS
    <2> QED BY <1>1, <2>1
  <1>4. \A n \in chosen : at[n] \in V
    BY DEF Range
  <1>5. chosen \in SUBSET D /\ V \in SUBSET V
    OBVIOUS
  <1> HIDE DEF V, D, Amounts
  <1>6. SumAt(Amounts, chosen) = SumAt(by, V)
    <2>1. IsFiniteSet(D) /\ D = DOMAIN Amounts /\ \A n \in D : Amounts[n] \in Int
      BY <1>1
    <2>2. V = DOMAIN by /\ \A v \in V : by[v] \in Int
      BY <1>3
    <2>3. \A v \in V : by[v] = SumAt(Amounts, {n \in chosen : at[n] = v})
      BY <1>3
    <2>4. chosen \in SUBSET D
      BY <1>5
    <2>5. V \in SUBSET V
      OBVIOUS
    <2> QED BY ONLY <2>1, <1>2, <2>2, <2>3, <1>4, <2>4, <2>5, SumAtGroups, SMTT(30)
  <1> QED BY <1>1, <1>3, <1>5, <1>6

\* A value's rows are the rows of the path that goes on with it.
LEMMA RowsBelow ==
  ASSUME DashboardInv, NEW v \in Labels, Len(path) < Len(Dimensions)
  PROVE  Selected(Append(path, v)) =
            {n \in Selected(path) : Raw(facts[n], Dimensions[Len(path) + 1]) = Text(v)}
  <1> DEFINE longer == Append(path, v)
             here == Len(path) + 1
  <1>1. path \in Seq(Labels) /\ Len(path) \in Nat /\ DOMAIN path = 1..Len(path)
    BY LenProperties DEF DashboardInv
  <1>2. /\ DOMAIN longer = 1..here /\ longer[here] = v
        /\ \A k \in DOMAIN path : longer[k] = path[k]
    <2>1. longer \in Seq(Labels) /\ Len(longer) = here
      BY AppendProperties DEF DashboardInv
    <2> QED BY <1>1, <2>1, AppendProperties, LenProperties DEF DashboardInv
  <1>3. DOMAIN longer = DOMAIN path \cup {here}
    BY <1>1, <1>2
  <1> HIDE DEF longer, here
  <1>4. \A n \in DOMAIN facts :
           (\A k \in DOMAIN longer : Raw(facts[n], Dimensions[k]) = Text(longer[k]))
           <=> (/\ \A k \in DOMAIN path : Raw(facts[n], Dimensions[k]) = Text(path[k])
                /\ Raw(facts[n], Dimensions[here]) = Text(v))
    BY <1>2, <1>3
  <1> QED BY <1>4 DEF Selected, longer, here

\* What has a value as text shows it.
LEMMA TextIsShown ==
  ASSUME NEW row, NEW d, NEW v, Raw(row, d) = Text(v)
  PROVE  Shown(row, d) = v
  <1>1. d \in DOMAIN row.at
    BY DEF Raw, Text, Nothing
  <1> QED BY <1>1 DEF Raw, Text, Shown

\* Below a value there is what is shown on it, and what it does not select.
LEMMA LevelsAgree ==
  ASSUME DashboardInv, NEW v \in DOMAIN Groups(path), Len(path) + 1 < Len(Dimensions)
  PROVE  LET below == Groups(Append(path, v))
         IN  Groups(path)[v] = SumAt(below, DOMAIN below) + SumOver(facts, Unopened(path, v))
  <1> DEFINE chosen == Selected(Append(path, v))
             at == [n \in chosen |-> Shown(facts[n], Dimensions[Len(path) + 2])]
             by == [w \in Range(at) |-> SumOver(facts, {n \in chosen : at[n] = w})]
             above == [n \in Selected(path) |-> Shown(facts[n], Dimensions[Len(path) + 1])]
             group == {n \in Selected(path) : above[n] = v}
             rest == Unopened(path, v)
  <1>1. Len(path) \in Nat /\ Len(Dimensions) \in Nat /\ path \in Seq(Labels) /\ facts \in Facts \cup Cubes
    BY AnalysisAssumption, LenProperties DEF DashboardInv
  <1>2. Groups(path) = [w \in Range(above) |-> SumOver(facts, {n \in Selected(path) : above[n] = w})]
    <2>1. ~(Len(path) >= Len(Dimensions))
      BY <1>1
    <2> QED BY <2>1 DEF Groups
  <1>3. v \in Range(above) /\ Groups(path)[v] = SumOver(facts, group)
    <2>1. v \in Range(above)
      BY <1>2
    <2> QED BY <1>2, <2>1
  <1>4. v \in Labels
    <2>1. \A n \in DOMAIN above : above[n] \in Labels
      BY <1>1, ShownIsText DEF Selected
    <2> HIDE DEF above
    <2> QED BY <1>3, <2>1 DEF Range
  <1>5. Len(Append(path, v)) = Len(path) + 1
    BY <1>1, <1>4, AppendProperties
  <1>6. Groups(Append(path, v)) = by
    <2>1. Len(Append(path, v)) + 1 = Len(path) + 2 /\ ~(Len(Append(path, v)) >= Len(Dimensions))
      BY <1>1, <1>5
    <2> QED BY <2>1 DEF Groups
  <1>7. chosen = {n \in Selected(path) : Raw(facts[n], Dimensions[Len(path) + 1]) = Text(v)}
    <2>1. Len(path) < Len(Dimensions)
      BY <1>1
    <2> QED BY <1>4, <2>1, RowsBelow
  <1>8. /\ group = chosen \cup rest /\ chosen \cap rest = {}
        /\ chosen \in SUBSET DOMAIN facts /\ rest \in SUBSET DOMAIN facts
    <2>1. \A n \in Selected(path) : n \in chosen => Shown(facts[n], Dimensions[Len(path) + 1]) = v
      BY <1>7, TextIsShown
    <2>2. Selected(path) \subseteq DOMAIN facts
      BY DEF Selected
    <2> HIDE DEF chosen
    <2> QED BY <1>7, <2>1, <2>2 DEF Unopened
  <1>9. SumOver(facts, chosen) = SumAt(by, DOMAIN by)
    <2>1. chosen \in SUBSET DOMAIN facts /\ DOMAIN at = chosen
      BY <1>8
    <2> HIDE DEF chosen, at
    <2> QED BY <1>1, <2>1, SumByColumn
  <1> HIDE DEF chosen, at, by, above, group, rest
  <1>10. SumOver(facts, group) = SumOver(facts, chosen) + SumOver(facts, rest)
    <2> DEFINE Amounts == AmountsOf(facts)
               D == DOMAIN facts
    <2>1. /\ IsFiniteSet(D) /\ DOMAIN Amounts = D /\ \A n \in D : Amounts[n] \in Int
          /\ \A some \in SUBSET D : SumOver(facts, some) = SumAt(Amounts, some)
      BY <1>1, TablesAreFinite
    <2>2. chosen \in SUBSET D /\ rest \in SUBSET D /\ chosen \cap rest = {} /\ group = chosen \cup rest
      BY <1>8
    <2> HIDE DEF Amounts, D
    <2>3. SumAt(Amounts, chosen \cup rest) = SumAt(Amounts, chosen) + SumAt(Amounts, rest)
      BY <2>1, <2>2, SumAtUnion
    <2> QED BY <2>1, <2>2, <2>3
  <1> QED BY <1>3, <1>6, <1>9, <1>10 DEF rest

\* A row of the pivot has the sum of its group.
LEMMA PivotAgrees ==
  ASSUME DashboardInv, NEW j \in DOMAIN Dimensions, NEW k \in DOMAIN Dimensions,
         NEW v \in DOMAIN GroupBy(Dimensions[j])
  PROVE  LET pivot == Pivot(Dimensions[j], Dimensions[k])
         IN  GroupBy(Dimensions[j])[v] = SumAt(pivot, {c \in DOMAIN pivot : c[1] = v})
  <1> DEFINE D == DOMAIN cube
             Amounts == AmountsOf(cube)
             first == [n \in D |-> Shown(cube[n], Dimensions[j])]
             other == [n \in D |-> Shown(cube[n], Dimensions[k])]
             E == {first[n] : n \in D} \X {other[n] : n \in D}
             pivot == [c \in E |-> SumOver(cube, {n \in D : first[n] = c[1] /\ other[n] = c[2]})]
             chosen == {n \in D : first[n] = v}
             V == {c \in E : c[1] = v}
             group == [n \in D |-> <<first[n], other[n]>>]
  <1>1. /\ IsFiniteSet(D) /\ DOMAIN Amounts = D
        /\ \A n \in D : Amounts[n] \in Int
        /\ \A some \in SUBSET D : SumOver(cube, some) = SumAt(Amounts, some) /\ SumOver(cube, some) \in Int
    BY TablesAreFinite DEF DashboardInv
  <1>2. IsFiniteSet(E)
    <2>1. DOMAIN first = D /\ DOMAIN other = D
      OBVIOUS
    <2> HIDE DEF first, other
    <2>2. IsFiniteSet({first[n] : n \in D}) /\ IsFiniteSet({other[n] : n \in D})
      BY <1>1, <2>1, FiniteRange
    <2> QED BY <2>2, FS_Product
  <1>3. Pivot(Dimensions[j], Dimensions[k]) = pivot
    <2>1. /\ {first[n] : n \in D} = {Shown(cube[n], Dimensions[j]) : n \in D}
          /\ {other[n] : n \in D} = {Shown(cube[n], Dimensions[k]) : n \in D}
      OBVIOUS
    <2>2. \A c \in E : {n \in D : first[n] = c[1] /\ other[n] = c[2]}
                     = {n \in D : Shown(cube[n], Dimensions[j]) = c[1] /\ Shown(cube[n], Dimensions[k]) = c[2]}
      OBVIOUS
    <2> HIDE DEF first, other
    <2> QED BY <2>1, <2>2 DEF Pivot
  <1>4. GroupBy(Dimensions[j])[v] = SumOver(cube, chosen)
    <2>1. GroupBy(Dimensions[j]) = [w \in Range(first) |-> SumOver(cube, {n \in D : first[n] = w})]
      BY DEF GroupBy
    <2> HIDE DEF first, D
    <2>2. v \in Range(first)
      BY <2>1
    <2> QED BY <2>1, <2>2
  <1>5. \A c \in V : {n \in chosen : group[n] = c} = {n \in D : first[n] = c[1] /\ other[n] = c[2]}
    <2> SUFFICES ASSUME NEW c \in V, NEW n \in D
                 PROVE  first[n] = v /\ group[n] = c <=> first[n] = c[1] /\ other[n] = c[2]
      OBVIOUS
    <2>1. c = <<c[1], c[2]>> /\ c[1] = v
      OBVIOUS
    <2>2. group[n] = <<first[n], other[n]>>
      OBVIOUS
    <2> HIDE DEF first, other, group, V
    <2> QED BY <2>1, <2>2
  <1>6. /\ \A c \in V : pivot[c] = SumAt(Amounts, {n \in chosen : group[n] = c})
        /\ \A c \in E : pivot[c] \in Int
    <2>1. \A c \in E : {n \in D : first[n] = c[1] /\ other[n] = c[2]} \in SUBSET D
      OBVIOUS
    <2>2. \A c \in E : pivot[c] = SumOver(cube, {n \in D : first[n] = c[1] /\ other[n] = c[2]})
      OBVIOUS
    <2>3. V \subseteq E
      OBVIOUS
    <2> HIDE DEF first, other, group, V, E, pivot, D, chosen, Amounts
    <2>4. \A c \in E : pivot[c] \in Int /\ pivot[c] = SumAt(Amounts, {n \in D : first[n] = c[1] /\ other[n] = c[2]})
      BY <1>1, <2>1, <2>2
    <2> QED BY <1>5, <2>3, <2>4
  <1>7. \A n \in chosen : group[n] \in V
    OBVIOUS
  <1>8. chosen \in SUBSET D /\ V \in SUBSET E /\ DOMAIN pivot = E
    OBVIOUS
  <1> HIDE DEF first, other, group, V, E, pivot, D, chosen, Amounts
  <1>9. SumAt(Amounts, chosen) = SumAt(pivot, V)
    <2>1. IsFiniteSet(D) /\ D = DOMAIN Amounts /\ \A n \in D : Amounts[n] \in Int
      BY <1>1
    <2>2. E = DOMAIN pivot /\ \A c \in E : pivot[c] \in Int
      BY <1>6, <1>8
    <2>3. \A c \in V : pivot[c] = SumAt(Amounts, {n \in chosen : group[n] = c})
      BY <1>6
    <2>4. chosen \in SUBSET D /\ V \in SUBSET E
      BY <1>8
    <2> QED BY ONLY <1>2, <1>7, <2>1, <2>2, <2>3, <2>4, SumAtGroups, SMTT(30)
  <1>10. V = {c \in DOMAIN pivot : c[1] = v}
    BY <1>8 DEF V
  <1> QED BY <1>1, <1>3, <1>4, <1>8, <1>9, <1>10

\* What is shown is within its bounds and adds up, for any questions, answers of
\* the model, tables and dimensions.
THEOREM AnswersAreSound == AnalysisSpec => []AnswersSound
  <1>1. AnalysisInit => AskedInv /\ DashboardInv
    <2> SUFFICES ASSUME AnalysisInit PROVE AskedInv /\ DashboardInv
      OBVIOUS
    <2>1. AskedInv
      BY DEF AnalysisInit, Idle, AskedInv, RowsAreHonest
    <2> QED BY <2>1, EmptySeq DEF AnalysisInit, DashboardInv
  <1>2. AskedInv /\ DashboardInv => AnswersSound
    BY LevelsAgree, PivotAgrees DEF AskedInv, AnswersSound, TotalsAgree
  <1> QED BY <1>1, <1>2, AskedStep, DashboardStep, PTL DEF AnalysisSpec

-----------------------------------------------------------------------------
(* The splitters: characters with their places, of which the letters must   *)
(* survive.  What splits, merges and gathers keeps the sequence of letters, *)
(* or at least their set where pieces overlap.                              *)

Glyphs == Characters \X Nat
Letters == {Letter} \X Nat
Separators == {<<Newline, Newline>>, <<Newline>>, <<Stop>>}

\* One character more is split off, one piece merged, one unit gathered.
SplitBy(before, e, n, found, width) ==
    IF n \in found THEN [done |-> Append(before.done, before.open), open |-> <<>>]
    ELSE IF \E m \in found : n - m \in 0..(width - 1) THEN before
    ELSE [before EXCEPT !.open = Append(@, e)]

MergeBy(before, p, sep, bound) ==
    LET joined == IF before.buffer = <<>> THEN p ELSE before.buffer \o Glue(sep) \o p
    IN  IF Len(joined) <= bound THEN [before EXCEPT !.buffer = joined]
        ELSE [out |-> Flushed(before), buffer |-> p]

GatherBy(before, unit) ==
    LET chunk == JoinOf(before.now)
    IN  IF Blank(unit) THEN before
        ELSE IF Len(chunk \o unit) > Size /\ before.now # <<>>
             THEN [out |-> Append(before.out, chunk), now |-> Append(Carried(before.now), unit)]
             ELSE [before EXCEPT !.now = Append(@, unit)]

\* What is split of a text up to each place, from what is split before it.
LEMMA SplitStep ==
  ASSUME NEW S, NEW t \in Seq(S), NEW found, NEW width
  PROVE  /\ SplitUpto(t, found, width)[0] = [done |-> <<>>, open |-> <<>>]
         /\ \A n \in 1..Len(t) : SplitUpto(t, found, width)[n] = SplitBy(SplitUpto(t, found, width)[n - 1], t[n], n, found, width)
  <1> DEFINE After(g, n) == SplitBy(g[n - 1], t[n], n, found, width)
             Step(g, n) == IF n = 0 THEN [done |-> <<>>, open |-> <<>>] ELSE After(g, n)
             Solves(g, m) == g = [n \in 0..m |-> Step(g, n)]
             T == {m \in Nat : \E g : Solves(g, m)}
  <1>1. 0 \in T
    <2>1. Solves([n \in 0..0 |-> [done |-> <<>>, open |-> <<>>]], 0)
      OBVIOUS
    <2> QED BY <2>1
  <1>2. ASSUME NEW m \in Nat, m \in T PROVE m + 1 \in T
    <2>1. PICK g : Solves(g, m)
      BY <1>2
    <2> DEFINE h == [n \in 0..(m + 1) |-> IF n \in 0..m THEN g[n] ELSE Step(g, n)]
    <2>2. \A n \in 0..m : g[n] = Step(g, n)
      BY <2>1
    <2>3. \A n \in 0..(m + 1) : h[n] = Step(g, n)
      BY <2>2
    <2>4. \A n \in 0..(m + 1) : Step(g, n) = Step(h, n)
      <3> SUFFICES ASSUME NEW n \in 0..(m + 1), n # 0 PROVE Step(g, n) = Step(h, n)
        OBVIOUS
      <3>1. n - 1 \in 0..m /\ h[n - 1] = g[n - 1]
        OBVIOUS
      <3> HIDE DEF h
      <3> QED BY <3>1, Zenon
    <2>5. Solves(h, m + 1)
      BY <2>3, <2>4
    <2>6. \E gg : Solves(gg, m + 1)
      <3> HIDE DEF h, Solves
      <3> QED BY <2>5
    <2> HIDE DEF h, Solves
    <2> QED BY <2>6
  <1>3. Len(t) \in T
    <2> HIDE DEF T
    <2> QED BY <1>1, <1>2, Counting, LenProperties
  <1>4. \E g : g = [n \in 0..Len(t) |-> Step(g, n)]
    BY <1>3
  <1> DEFINE f == SplitUpto(t, found, width)
             g == [n \in 0..Len(t) |-> Step(f, n)]
  <1>5. f = g
    BY <1>4, Zenon DEF SplitUpto, SplitBy
  <1>6. \A n \in 0..Len(t) : g[n] = Step(f, n)
    OBVIOUS
  <1> HIDE DEF g, f
  <1>7. \A n \in 0..Len(t) : f[n] = Step(f, n)
    BY <1>5, <1>6
  <1>8. Len(t) \in Nat
    BY LenProperties
  <1>9. f[0] = Step(f, 0) /\ \A n \in 1..Len(t) : n # 0 /\ f[n] = Step(f, n)
    <2> HIDE DEF Step
    <2> QED BY <1>7, <1>8
  <1>10. f[0] = [done |-> <<>>, open |-> <<>>] /\ \A n \in 1..Len(t) : f[n] = After(f, n)
    <2> HIDE DEF After
    <2> QED BY <1>9
  <1> QED BY <1>10 DEF f

\* The same of merged pieces.
LEMMA MergeStep ==
  ASSUME NEW S, NEW pieces \in Seq(S), NEW sep, NEW bound
  PROVE  /\ MergeUpto(pieces, sep, bound)[0] = [out |-> <<>>, buffer |-> <<>>]
         /\ \A n \in 1..Len(pieces) : MergeUpto(pieces, sep, bound)[n] = MergeBy(MergeUpto(pieces, sep, bound)[n - 1], pieces[n], sep, bound)
  <1> DEFINE After(g, n) == MergeBy(g[n - 1], pieces[n], sep, bound)
             Step(g, n) == IF n = 0 THEN [out |-> <<>>, buffer |-> <<>>] ELSE After(g, n)
             Solves(g, m) == g = [n \in 0..m |-> Step(g, n)]
             T == {m \in Nat : \E g : Solves(g, m)}
  <1>1. 0 \in T
    <2>1. Solves([n \in 0..0 |-> [out |-> <<>>, buffer |-> <<>>]], 0)
      OBVIOUS
    <2> QED BY <2>1
  <1>2. ASSUME NEW m \in Nat, m \in T PROVE m + 1 \in T
    <2>1. PICK g : Solves(g, m)
      BY <1>2
    <2> DEFINE h == [n \in 0..(m + 1) |-> IF n \in 0..m THEN g[n] ELSE Step(g, n)]
    <2>2. \A n \in 0..m : g[n] = Step(g, n)
      BY <2>1
    <2>3. \A n \in 0..(m + 1) : h[n] = Step(g, n)
      BY <2>2
    <2>4. \A n \in 0..(m + 1) : Step(g, n) = Step(h, n)
      <3> SUFFICES ASSUME NEW n \in 0..(m + 1), n # 0 PROVE Step(g, n) = Step(h, n)
        OBVIOUS
      <3>1. n - 1 \in 0..m /\ h[n - 1] = g[n - 1]
        OBVIOUS
      <3> HIDE DEF h
      <3> QED BY <3>1, Zenon
    <2>5. Solves(h, m + 1)
      BY <2>3, <2>4
    <2>6. \E gg : Solves(gg, m + 1)
      <3> HIDE DEF h, Solves
      <3> QED BY <2>5
    <2> HIDE DEF h, Solves
    <2> QED BY <2>6
  <1>3. Len(pieces) \in T
    <2> HIDE DEF T
    <2> QED BY <1>1, <1>2, Counting, LenProperties
  <1>4. \E g : g = [n \in 0..Len(pieces) |-> Step(g, n)]
    BY <1>3
  <1> DEFINE f == MergeUpto(pieces, sep, bound)
             g == [n \in 0..Len(pieces) |-> Step(f, n)]
  <1>5. f = g
    BY <1>4, Zenon DEF MergeUpto, MergeBy
  <1>6. \A n \in 0..Len(pieces) : g[n] = Step(f, n)
    OBVIOUS
  <1> HIDE DEF g, f
  <1>7. \A n \in 0..Len(pieces) : f[n] = Step(f, n)
    BY <1>5, <1>6
  <1>8. Len(pieces) \in Nat
    BY LenProperties
  <1>9. f[0] = Step(f, 0) /\ \A n \in 1..Len(pieces) : n # 0 /\ f[n] = Step(f, n)
    <2> HIDE DEF Step
    <2> QED BY <1>7, <1>8
  <1>10. f[0] = [out |-> <<>>, buffer |-> <<>>] /\ \A n \in 1..Len(pieces) : f[n] = After(f, n)
    <2> HIDE DEF After
    <2> QED BY <1>9
  <1> QED BY <1>10 DEF f

\* The same of gathered units.
LEMMA GatherStep ==
  ASSUME NEW S, NEW units \in Seq(S)
  PROVE  /\ GatherUpto(units)[0] = [out |-> <<>>, now |-> <<>>]
         /\ \A n \in 1..Len(units) : GatherUpto(units)[n] = GatherBy(GatherUpto(units)[n - 1], units[n])
  <1> DEFINE After(g, n) == GatherBy(g[n - 1], units[n])
             Step(g, n) == IF n = 0 THEN [out |-> <<>>, now |-> <<>>] ELSE After(g, n)
             Solves(g, m) == g = [n \in 0..m |-> Step(g, n)]
             T == {m \in Nat : \E g : Solves(g, m)}
  <1>1. 0 \in T
    <2>1. Solves([n \in 0..0 |-> [out |-> <<>>, now |-> <<>>]], 0)
      OBVIOUS
    <2> QED BY <2>1
  <1>2. ASSUME NEW m \in Nat, m \in T PROVE m + 1 \in T
    <2>1. PICK g : Solves(g, m)
      BY <1>2
    <2> DEFINE h == [n \in 0..(m + 1) |-> IF n \in 0..m THEN g[n] ELSE Step(g, n)]
    <2>2. \A n \in 0..m : g[n] = Step(g, n)
      BY <2>1
    <2>3. \A n \in 0..(m + 1) : h[n] = Step(g, n)
      BY <2>2
    <2>4. \A n \in 0..(m + 1) : Step(g, n) = Step(h, n)
      <3> SUFFICES ASSUME NEW n \in 0..(m + 1), n # 0 PROVE Step(g, n) = Step(h, n)
        OBVIOUS
      <3>1. n - 1 \in 0..m /\ h[n - 1] = g[n - 1]
        OBVIOUS
      <3> HIDE DEF h
      <3> QED BY <3>1, Zenon
    <2>5. Solves(h, m + 1)
      BY <2>3, <2>4
    <2>6. \E gg : Solves(gg, m + 1)
      <3> HIDE DEF h, Solves
      <3> QED BY <2>5
    <2> HIDE DEF h, Solves
    <2> QED BY <2>6
  <1>3. Len(units) \in T
    <2> HIDE DEF T
    <2> QED BY <1>1, <1>2, Counting, LenProperties
  <1>4. \E g : g = [n \in 0..Len(units) |-> Step(g, n)]
    BY <1>3
  <1> DEFINE f == GatherUpto(units)
             g == [n \in 0..Len(units) |-> Step(f, n)]
  <1>5. f = g
    BY <1>4, Zenon DEF GatherUpto, GatherBy
  <1>6. \A n \in 0..Len(units) : g[n] = Step(f, n)
    OBVIOUS
  <1> HIDE DEF g, f
  <1>7. \A n \in 0..Len(units) : f[n] = Step(f, n)
    BY <1>5, <1>6
  <1>8. Len(units) \in Nat
    BY LenProperties
  <1>9. f[0] = Step(f, 0) /\ \A n \in 1..Len(units) : n # 0 /\ f[n] = Step(f, n)
    <2> HIDE DEF Step
    <2> QED BY <1>7, <1>8
  <1>10. f[0] = [out |-> <<>>, now |-> <<>>] /\ \A n \in 1..Len(units) : f[n] = After(f, n)
    <2> HIDE DEF After
    <2> QED BY <1>9
  <1> QED BY <1>10 DEF f

-----------------------------------------------------------------------------
(* Pieces: to split, to merge and to drop what is empty loses no letter.    *)

LettersOf(t) == Keep(t, Letters)

\* The pieces have the letters of t, in their order.
SplitOk(b, k) ==
    /\ b \in [done : Seq(Seq(Glyphs)), open : Seq(Glyphs)]
    /\ LettersOf(JoinOf(b.done) \o b.open) = k

LEMMA SplitByKeeps ==
  ASSUME NEW b, NEW k, SplitOk(b, k), NEW e \in Glyphs, NEW n, NEW found, NEW width,
         (n \in found \/ \E m \in found : n - m \in 0..(width - 1)) => e \notin Letters
  PROVE  SplitOk(SplitBy(b, e, n, found, width), IF e \in Letters THEN Append(k, e) ELSE k)
<1> DEFINE j == JoinOf(b.done)
           o == b.open
           done == Append(b.done, o)
           open == Append(o, e)
<1>1. b.done \in Seq(Seq(Glyphs)) /\ o \in Seq(Glyphs) /\ LettersOf(j \o o) = k
  BY DEF SplitOk
<1>2. j \in Seq(Glyphs) /\ j \o o \in Seq(Glyphs)
  BY <1>1, JoinedLength, ConcatProperties
<1>3. CASE n \in found
  <2>1. SplitBy(b, e, n, found, width) = [done |-> done, open |-> <<>>]
    BY <1>3 DEF SplitBy
  <2>2. done \in Seq(Seq(Glyphs)) /\ <<>> \in Seq(Glyphs)
    BY <1>1, AppendProperties, EmptySeq
  <2>3. JoinOf(done) = j \o o
    BY <1>1, JoinAppend
  <2>4. JoinOf(done) \o <<>> = j \o o
    BY <1>2, <2>3, ConcatEmptySeq
  <2>5. LettersOf(JoinOf(done) \o <<>>) = k
    BY <1>1, <2>4
  <2> HIDE DEF done, o
  <2> QED  BY <1>3, <2>1, <2>2, <2>5 DEF SplitOk
<1>4. CASE n \notin found /\ \E m \in found : n - m \in 0..(width - 1)
  <2>1. SplitBy(b, e, n, found, width) = b
    BY <1>4 DEF SplitBy
  <2> QED  BY <1>4, <2>1
<1>5. CASE n \notin found /\ ~ \E m \in found : n - m \in 0..(width - 1)
  <2>1. SplitBy(b, e, n, found, width) = [b EXCEPT !.open = open]
    BY <1>5 DEF SplitBy
  <2>2. open \in Seq(Glyphs)
    BY <1>1, AppendProperties
  <2>3. j \o open = Append(j \o o, e)
    <3>1. j \in Seq(Glyphs) /\ o \in Seq(Glyphs)
      BY <1>1, <1>2
    <3> HIDE DEF j, o
    <3> QED  BY <3>1, AppendLast
  <2>4. LettersOf(j \o open) = IF e \in Letters THEN Append(k, e) ELSE k
    <3> DEFINE both == j \o o
    <3> HIDE DEF both, open, j, o
    <3>1. both \in Seq(Glyphs) /\ Keep(both, Letters) = k
      BY <1>1, <1>2 DEF both, LettersOf
    <3>2. Keep(Append(both, e), Letters) = IF e \in Letters THEN Append(Keep(both, Letters), e) ELSE Keep(both, Letters)
      BY <3>1, KeepAppend
    <3> QED  BY <2>3, <3>1, <3>2 DEF LettersOf, both
  <2>5. [b EXCEPT !.open = open].done = b.done /\ [b EXCEPT !.open = open].open = open
        /\ [b EXCEPT !.open = open] \in [done : Seq(Seq(Glyphs)), open : Seq(Glyphs)]
    BY <2>2 DEF SplitOk
  <2> HIDE DEF open
  <2> QED  BY <2>1, <2>4, <2>5 DEF SplitOk
<1> QED  BY <1>3, <1>4, <1>5

\* A separator has no letter: where one is found, its characters are no letters.
LEMMA FoundHasNoLetter ==
  ASSUME NEW t \in Seq(Glyphs), NEW sep \in Separators, NEW n \in 1..Len(t), NEW m \in Starts(t, sep),
         n = m \/ n - m \in 0..(Len(sep) - 1)
  PROVE  t[n] \notin Letters
<1>1. Len(sep) \in {1, 2} /\ DOMAIN sep = 1..Len(sep) /\ \A k \in DOMAIN sep : sep[k] # Letter
  BY DEF Separators, Letter, Newline, Stop
<1>2. m \in 1..(Len(t) + 1 - Len(sep)) /\ \A k \in DOMAIN sep : t[m + k - 1][1] = sep[k]
  BY DEF Starts
<1>3. Len(t) \in Nat
  BY LenProperties
<1> DEFINE k == n - m + 1
<1>4. k \in 1..Len(sep) /\ m + k - 1 = n
  <2> DEFINE width == Len(sep)
  <2>1. width \in {1, 2} /\ m \in Nat /\ n \in Nat /\ (n = m \/ n - m \in 0..(width - 1))
    BY <1>1, <1>2, <1>3
  <2> HIDE DEF width
  <2>2. k \in 1..width /\ m + k - 1 = n
    BY <2>1
  <2> QED  BY <2>2 DEF width
<1> HIDE DEF k
<1>5. t[n][1] # Letter
  BY <1>1, <1>2, <1>4
<1> QED  BY <1>5 DEF Letters

LEMMA SplitKeeps ==
  ASSUME NEW t \in Seq(Glyphs), NEW sep \in Separators
  PROVE  Split(t, sep) \in Seq(Seq(Glyphs)) /\ LettersOf(JoinOf(Split(t, sep))) = LettersOf(t)
<1> DEFINE width == Len(sep)
           found == MatchesIn(t, Starts(t, sep), width)[Len(t)]
           upto(n) == SplitUpto(t, found, width)[n]
           kept(n) == Filtered(t, Letters)[n]
           T == {n \in Nat : n <= Len(t) => SplitOk(upto(n), kept(n))}
           all == upto(Len(t))
<1>0. Len(t) \in Nat /\ width \in Nat /\ \A n \in 1..Len(t) : t[n] \in Glyphs
  BY LenProperties, ElementOfSeq DEF Separators
<1>1. found \subseteq Starts(t, sep)
  <2>1. Starts(t, sep) \in SUBSET (1..Len(t))
    <3>1. width \in {1, 2}
      BY DEF Separators
    <3> HIDE DEF width
    <3>2. 1..(Len(t) + 1 - width) \subseteq 1..Len(t)
      BY <1>0, <3>1
    <3> QED  BY <3>2 DEF Starts, width
  <2> QED  BY <1>0, <2>1, MatchesFound
<1> HIDE DEF found
<1>2. upto(0) = [done |-> <<>>, open |-> <<>>] /\ kept(0) = <<>>
  BY SplitStep, FilteredStep
<1>3. \A n \in 1..Len(t) : upto(n) = SplitBy(upto(n - 1), t[n], n, found, width)
  BY SplitStep
<1>4. \A n \in 1..Len(t) : kept(n) = IF t[n] \in Letters THEN Append(kept(n - 1), t[n]) ELSE kept(n - 1)
  BY FilteredStep
<1>5. Split(t, sep) = Append(all.done, all.open) /\ LettersOf(t) = kept(Len(t))
  BY DEF Split, found, LettersOf, Keep
<1> HIDE DEF upto, kept
<1>6. 0 \in T
  <2>1. <<>> \in Seq(Seq(Glyphs)) /\ <<>> \in Seq(Glyphs) /\ JoinOf(<<>>) \o <<>> = <<>>
    BY EmptySeq, JoinEmpty, ConcatEmptySeq
  <2>2. LettersOf(JoinOf(<<>>) \o <<>>) = <<>>
    BY <2>1, KeepEmpty DEF LettersOf
  <2> DEFINE none == <<>>
  <2>3. none \in Seq(Seq(Glyphs)) /\ none \in Seq(Glyphs) /\ LettersOf(JoinOf(none) \o none) = none
    BY <2>1, <2>2
  <2>4. upto(0) = [done |-> none, open |-> none] /\ kept(0) = none
    BY <1>2
  <2> HIDE DEF none
  <2>5. SplitOk(upto(0), kept(0))
    BY <2>3, <2>4 DEF SplitOk
  <2> QED  BY <2>5
<1>7. ASSUME NEW n \in Nat, n \in T PROVE n + 1 \in T
  <2> SUFFICES ASSUME n + 1 <= Len(t) PROVE SplitOk(upto(n + 1), kept(n + 1))
    OBVIOUS
  <2>1. n + 1 \in 1..Len(t) /\ (n + 1) - 1 = n /\ SplitOk(upto(n), kept(n))
    BY <1>0, <1>7
  <2>2. ASSUME n + 1 \in found \/ \E m \in found : (n + 1) - m \in 0..(width - 1)
        PROVE  t[n + 1] \notin Letters
    BY <1>1, <2>1, <2>2, FoundHasNoLetter
  <2>3. upto(n + 1) = SplitBy(upto(n), t[n + 1], n + 1, found, width)
    BY ONLY <1>3, <2>1
  <2>4. kept(n + 1) = IF t[n + 1] \in Letters THEN Append(kept(n), t[n + 1]) ELSE kept(n)
    BY ONLY <1>4, <2>1
  <2>5. t[n + 1] \in Glyphs
    BY <1>0, <2>1
  <2>6. SplitOk(SplitBy(upto(n), t[n + 1], n + 1, found, width), IF t[n + 1] \in Letters THEN Append(kept(n), t[n + 1]) ELSE kept(n))
    BY <2>1, <2>2, <2>5, SplitByKeeps
  <2> QED  BY <2>3, <2>4, <2>6
<1>8. SplitOk(all, LettersOf(t))
  <2>1. Nat \subseteq T
    <3> HIDE DEF T
    <3> QED  BY <1>6, <1>7, Counting
  <2> QED  BY <1>0, <1>5, <2>1
<1> HIDE DEF all
<1>9. all.done \in Seq(Seq(Glyphs)) /\ all.open \in Seq(Glyphs) /\ LettersOf(JoinOf(all.done) \o all.open) = LettersOf(t)
  BY <1>8 DEF SplitOk
<1>10. Append(all.done, all.open) \in Seq(Seq(Glyphs)) /\ JoinOf(Append(all.done, all.open)) = JoinOf(all.done) \o all.open
  <2> DEFINE Y == Seq(Glyphs)
             d == all.done
             o == all.open
  <2>1. d \in Seq(Y) /\ o \in Y
    BY <1>9
  <2> HIDE DEF Y, d, o
  <2>2. Append(d, o) \in Seq(Y)
    BY ONLY <2>1, AppendProperties
  <2>3. JoinOf(Append(d, o)) = JoinOf(d) \o o
    BY ONLY <2>1, JoinAppend
  <2> QED  BY <2>2, <2>3 DEF Y, d, o
<1> QED  BY <1>5, <1>9, <1>10

LEMMA NonEmptyKeeps ==
  ASSUME NEW S, NEW pieces \in Seq(Seq(S))
  PROVE  /\ NonEmpty(pieces) \in Seq(Seq(S)) /\ JoinOf(NonEmpty(pieces)) = JoinOf(pieces)
         /\ Members(NonEmpty(pieces)) \subseteq Members(pieces)
<1> DEFINE K == Range(pieces) \ {<<>>}
<1>1. Range(pieces) = Members(pieces)
  BY RangeEquality DEF Members
<1>2. \A e \in Members(pieces) : e \in K \/ e = <<>>
  BY <1>1
<1> HIDE DEF K
<1>3. JoinOf(Keep(pieces, K)) = JoinOf(pieces)
  BY <1>2, JoinKept
<1>4. Keep(pieces, K) \in Seq(Seq(S)) /\ Members(Keep(pieces, K)) \subseteq Members(pieces)
  <2>1. Keep(pieces, K) \in Seq(Seq(S)) /\ Members(Keep(pieces, K)) = Members(pieces) \cap K
    BY KeepMembers
  <2> QED  BY <2>1
<1> QED  BY <1>3, <1>4 DEF NonEmpty, K

\* One by one, the characters are the text.
LEMMA Singles ==
  ASSUME NEW S, NEW t \in Seq(S)
  PROVE  LET singles == [n \in 1..Len(t) |-> <<t[n]>>]
         IN  /\ singles \in Seq(Seq(S)) /\ JoinOf(singles) = t
             /\ \A x \in Members(singles) : Len(x) = 1
<1> DEFINE singles == [n \in 1..Len(t) |-> <<t[n]>>]
           upto(n) == JoinedUpto(singles)[n]
           Holds(n) == upto(n) \in Seq(S) /\ Len(upto(n)) = n /\ \A i \in 1..n : upto(n)[i] = t[i]
           T == {n \in Nat : n <= Len(t) => Holds(n)}
<1>0. Len(t) \in Nat /\ \A n \in 1..Len(t) : t[n] \in S
  BY LenProperties, ElementOfSeq
<1>1. singles \in Seq(Seq(S)) /\ Len(singles) = Len(t) /\ \A n \in 1..Len(t) : singles[n] = <<t[n]>>
  BY <1>0
<1>2. ASSUME NEW x \in Members(singles) PROVE Len(x) = 1
  <2> HIDE DEF singles
  <2>1. PICK n \in 1..Len(t) : x = singles[n]
    BY <1>1 DEF Members
  <2>2. PICK e : e = t[n]
    OBVIOUS
  <2>3. x = <<e>>
    BY ONLY <1>1, <2>1, <2>2
  <2> QED  BY ONLY <2>3
<1> HIDE DEF singles
<1>3. upto(0) = <<>> /\ \A n \in 1..Len(t) : upto(n) = upto(n - 1) \o <<t[n]>>
  <2>1. upto(0) = <<>> /\ \A n \in 1..Len(t) : upto(n) = upto(n - 1) \o singles[n]
    BY <1>1, JoinedStep
  <2> HIDE DEF upto
  <2> QED  BY <1>1, <2>1
<1>4. JoinOf(singles) = upto(Len(t))
  BY <1>1 DEF JoinOf
<1> HIDE DEF upto
<1>5. 0 \in T
  <2>1. upto(0) \in Seq(S) /\ Len(upto(0)) = 0
    BY <1>3, EmptySeq
  <2> QED  BY <2>1
<1>6. ASSUME NEW n \in Nat, n \in T PROVE n + 1 \in T
  <2> SUFFICES ASSUME n + 1 <= Len(t) PROVE Holds(n + 1)
    OBVIOUS
  <2>1. n + 1 \in 1..Len(t) /\ (n + 1) - 1 = n /\ Holds(n)
    BY <1>0, <1>6
  <2>2. upto(n + 1) = upto(n) \o <<t[n + 1]>>
    BY ONLY <1>3, <2>1
  <2> DEFINE u == upto(n)
             e == t[n + 1]
  <2>3. u \in Seq(S) /\ Len(u) = n /\ e \in S /\ \A i \in 1..n : u[i] = t[i]
    BY <1>0, <2>1
  <2>4. upto(n + 1) = Append(u, e)
    BY <2>2, <2>3, AppendIsConcat
  <2> HIDE DEF u
  <2>5. Append(u, e) \in Seq(S) /\ Len(Append(u, e)) = n + 1 /\ \A i \in 1..(n + 1) : Append(u, e)[i] = t[i]
    BY <2>3, AppendProperties
  <2> QED  BY <2>4, <2>5
<1>7. Holds(Len(t))
  <2>1. Nat \subseteq T
    <3> HIDE DEF T
    <3> QED  BY <1>5, <1>6, Counting
  <2> HIDE DEF Holds
  <2> QED  BY <1>0, <2>1
<1>8. JoinOf(singles) = t
  BY <1>4, <1>7, SeqEqual
<1> QED  BY <1>1, <1>2, <1>8 DEF singles

LEMMA PiecesKeep ==
  ASSUME NEW t \in Seq(Glyphs), NEW sep \in Separators \cup {<<>>}
  PROVE  /\ Pieces(t, sep) \in Seq(Seq(Glyphs)) /\ LettersOf(JoinOf(Pieces(t, sep))) = LettersOf(t)
         /\ sep = <<>> => \A x \in Members(Pieces(t, sep)) : Len(x) = 1
<1> DEFINE ss == IF sep = <<>> THEN [n \in 1..Len(t) |-> <<t[n]>>] ELSE Split(t, sep)
<1>1. /\ ss \in Seq(Seq(Glyphs)) /\ LettersOf(JoinOf(ss)) = LettersOf(t)
      /\ sep = <<>> => \A x \in Members(ss) : Len(x) = 1
  <2>1. CASE sep = <<>>
    BY <2>1, Singles
  <2>2. CASE sep # <<>>
    BY <2>2, SplitKeeps
  <2> QED  BY <2>1, <2>2
<1>2. Pieces(t, sep) = NonEmpty(ss)
  BY DEF Pieces
<1> HIDE DEF ss
<1> QED  BY <1>1, <1>2, NonEmptyKeeps

\* To merge pieces loses no letter, and joins none that together are too long.
MergeTypes == [out : Seq(Seq(Glyphs)), buffer : Seq(Glyphs)]
MergeOk(m, k) == m \in MergeTypes /\ LettersOf(JoinOf(m.out) \o m.buffer) = LettersOf(k)
MergeFits(m, bound) == \A x \in Members(m.out) \cup {m.buffer} : Len(x) <= bound

LEMMA GlueHasNoLetter ==
  ASSUME NEW sep \in Separators \cup {<<>>}
  PROVE  Glue(sep) \in Seq(Glyphs) /\ LettersOf(Glue(sep)) = <<>>
<1>1. /\ Len(sep) \in Nat /\ \A n \in 1..Len(sep) : sep[n] \in Characters \ {Letter}
  BY DEF Separators, Characters, Letter, Newline, Stop
<1>2. \A n \in 1..Len(sep) : Glue(sep)[n] = <<sep[n], 0>>
  BY DEF Glue
<1>3. Glue(sep) \in Seq(Glyphs) /\ Len(Glue(sep)) = Len(sep)
  BY <1>1 DEF Glue, Glyphs
<1>4. ASSUME NEW n \in 1..Len(sep) PROVE Glue(sep)[n] \notin Letters
  BY <1>1, <1>2 DEF Letters
<1>5. Members(Glue(sep)) \cap Letters = {}
  BY <1>3, <1>4 DEF Members
<1> QED  BY <1>3, <1>5, KeepNothing DEF LettersOf

LEMMA FlushedKeeps ==
  ASSUME NEW m \in MergeTypes
  PROVE  /\ Flushed(m) \in Seq(Seq(Glyphs)) /\ JoinOf(Flushed(m)) = JoinOf(m.out) \o m.buffer
         /\ Members(Flushed(m)) \subseteq Members(m.out) \cup {m.buffer}
<1> DEFINE o == m.out
           b == m.buffer
<1>1. o \in Seq(Seq(Glyphs)) /\ b \in Seq(Glyphs)
  BY DEF MergeTypes
<1>2. Flushed(m) = IF b = <<>> THEN o ELSE Append(o, b)
  BY DEF Flushed
<1> HIDE DEF o, b
<1>3. Append(o, b) \in Seq(Seq(Glyphs)) /\ JoinOf(Append(o, b)) = JoinOf(o) \o b /\ Members(Append(o, b)) = Members(o) \cup {b}
  BY <1>1, AppendProperties, JoinAppend, MembersAppend
<1>4. JoinOf(o) \o <<>> = JoinOf(o)
  BY <1>1, JoinedLength, ConcatEmptySeq
<1>5. Flushed(m) \in Seq(Seq(Glyphs)) /\ JoinOf(Flushed(m)) = JoinOf(o) \o b /\ Members(Flushed(m)) \subseteq Members(o) \cup {b}
  BY <1>1, <1>2, <1>3, <1>4
<1> QED  BY <1>5 DEF o, b

Associates(x, y, z) == x \o (y \o z) = (x \o y) \o z

LEMMA Associative ==
  ASSUME NEW S, NEW x \in Seq(S), NEW y \in Seq(S), NEW z \in Seq(S)
  PROVE  Associates(x, y, z)
  BY ConcatAssociative DEF Associates

LEMMA MergeByKeeps ==
  ASSUME NEW m, NEW k \in Seq(Glyphs), MergeOk(m, k), NEW p \in Seq(Glyphs), NEW sep \in Separators \cup {<<>>}, NEW bound
  PROVE  MergeOk(MergeBy(m, p, sep, bound), k \o p)
<1> DEFINE o == m.out
           b == m.buffer
           j == JoinOf(o)
           g == Glue(sep)
           joined == IF b = <<>> THEN p ELSE b \o g \o p
           next == MergeBy(m, p, sep, bound)
<1>1. o \in Seq(Seq(Glyphs)) /\ b \in Seq(Glyphs) /\ LettersOf(j \o b) = LettersOf(k) /\ m \in MergeTypes
  BY DEF MergeOk, MergeTypes
<1>2. g \in Seq(Glyphs) /\ LettersOf(g) = <<>>
  BY GlueHasNoLetter
<1>3. j \in Seq(Glyphs)
  BY <1>1, JoinedLength
<1>4. next = IF Len(joined) <= bound THEN [m EXCEPT !.buffer = joined] ELSE [out |-> Flushed(m), buffer |-> p]
  BY DEF MergeBy
<1>5. [m EXCEPT !.buffer = joined].out = o /\ [m EXCEPT !.buffer = joined].buffer = joined
  BY DEF MergeOk, MergeTypes
<1>6. Flushed(m) \in Seq(Seq(Glyphs)) /\ JoinOf(Flushed(m)) = j \o b
  BY <1>1, FlushedKeeps
<1>7. joined = IF b = <<>> THEN p ELSE b \o g \o p
  OBVIOUS
<1> HIDE DEF o, b, j, g, joined, next
<1>8. \A x, y \in Seq(Glyphs) : x \o y \in Seq(Glyphs) /\ LettersOf(x) \in Seq(Glyphs)
  BY ConcatProperties, KeepMembers DEF LettersOf
<1>9. ASSUME NEW x \in Seq(Glyphs), NEW y \in Seq(Glyphs) PROVE LettersOf(x \o y) = LettersOf(x) \o LettersOf(y)
  BY KeepConcat DEF KeptOfBoth, LettersOf
<1>10. joined \in Seq(Glyphs)
  BY <1>1, <1>2, <1>7, <1>8
<1>11. LettersOf(joined) = LettersOf(b) \o LettersOf(p)
  <2>1. CASE b = <<>>
    <3>1. LettersOf(b) = <<>>
      BY <2>1, KeepEmpty DEF LettersOf
    <3>2. <<>> \o LettersOf(p) = LettersOf(p)
      BY <1>8, ConcatEmptySeq
    <3> QED  BY <1>7, <2>1, <3>1, <3>2
  <2>2. CASE b # <<>>
    <3>1. LettersOf(b \o g) = LettersOf(b) \o <<>>
      BY <1>1, <1>2, <1>9
    <3>2. LettersOf(b) \o <<>> = LettersOf(b)
      BY <1>1, <1>8, ConcatEmptySeq
    <3>3. b \o g \in Seq(Glyphs)
      BY <1>1, <1>2, <1>8
    <3>4. LettersOf((b \o g) \o p) = LettersOf(b \o g) \o LettersOf(p)
      BY <3>3, <1>9
    <3> QED  BY <1>7, <2>2, <3>1, <3>2, <3>4
  <2> QED  BY <2>1, <2>2
<1>12. LettersOf(j \o b) \o LettersOf(p) = LettersOf(k \o p)
  BY <1>1, <1>9
<1>13. LettersOf(j \o joined) = LettersOf(k \o p)
  <2>1. LettersOf(j \o joined) = LettersOf(j) \o (LettersOf(b) \o LettersOf(p))
    BY <1>3, <1>9, <1>10, <1>11
  <2>2. LettersOf(j) \o (LettersOf(b) \o LettersOf(p)) = (LettersOf(j) \o LettersOf(b)) \o LettersOf(p)
    <3>1. LettersOf(j) \in Seq(Glyphs) /\ LettersOf(b) \in Seq(Glyphs) /\ LettersOf(p) \in Seq(Glyphs)
      BY <1>1, <1>3, <1>8
    <3>2. Associates(LettersOf(j), LettersOf(b), LettersOf(p))
      BY <3>1, Associative
    <3> QED  BY <3>2 DEF Associates
  <2>3. LettersOf(j \o b) = LettersOf(j) \o LettersOf(b)
    BY <1>1, <1>3, <1>9
  <2> QED  BY <1>12, <2>1, <2>2, <2>3
<1>14. LettersOf((j \o b) \o p) = LettersOf(k \o p)
  <2>1. j \o b \in Seq(Glyphs)
    BY <1>1, <1>3, <1>8
  <2>2. LettersOf((j \o b) \o p) = LettersOf(j \o b) \o LettersOf(p)
    BY <2>1, <1>9
  <2> QED  BY <1>12, <2>2
<1>15. [m EXCEPT !.buffer = joined] \in MergeTypes
  BY <1>1, <1>10 DEF MergeTypes
<1>16. MergeOk([m EXCEPT !.buffer = joined], k \o p)
  BY <1>5, <1>13, <1>15 DEF MergeOk, j
<1>17. MergeOk([out |-> Flushed(m), buffer |-> p], k \o p)
  BY <1>6, <1>14 DEF MergeOk, MergeTypes
<1>18. MergeOk(next, k \o p)
  BY <1>4, <1>16, <1>17
<1> QED  BY <1>18 DEF next

LEMMA MergeByFits ==
  ASSUME NEW bound \in Nat, NEW m \in MergeTypes, MergeFits(m, bound), NEW p \in Seq(Glyphs), Len(p) <= bound, NEW sep
  PROVE  MergeFits(MergeBy(m, p, sep, bound), bound)
<1> DEFINE joined == IF m.buffer = <<>> THEN p ELSE m.buffer \o Glue(sep) \o p
           longer == [m EXCEPT !.buffer = joined]
           flushed == Flushed(m)
<1>1. MergeBy(m, p, sep, bound) = IF Len(joined) <= bound THEN longer ELSE [out |-> flushed, buffer |-> p]
  BY DEF MergeBy
<1>2. longer.out = m.out /\ longer.buffer = joined
  BY DEF MergeTypes
<1>3. Members(flushed) \subseteq Members(m.out) \cup {m.buffer}
  BY FlushedKeeps
<1> HIDE DEF joined, longer, flushed
<1>4. MergeFits([out |-> flushed, buffer |-> p], bound)
  BY <1>3 DEF MergeFits
<1>5. ASSUME Len(joined) <= bound PROVE MergeFits(longer, bound)
  BY <1>2, <1>5 DEF MergeFits
<1> QED  BY <1>1, <1>4, <1>5

LEMMA MergedKeeps ==
  ASSUME NEW pieces \in Seq(Seq(Glyphs)), NEW sep \in Separators \cup {<<>>}, NEW bound \in Nat
  PROVE  /\ Merged(pieces, sep, bound) \in Seq(Seq(Glyphs))
         /\ LettersOf(JoinOf(Merged(pieces, sep, bound))) = LettersOf(JoinOf(pieces))
         /\ (\A x \in Members(pieces) : Len(x) <= bound)
              => \A x \in Members(Merged(pieces, sep, bound)) : Len(x) <= bound
<1> DEFINE upto(n) == MergeUpto(pieces, sep, bound)[n]
           joined(n) == JoinedUpto(pieces)[n]
           short == \A x \in Members(pieces) : Len(x) <= bound
           Holds(n) == /\ MergeOk(upto(n), joined(n)) /\ joined(n) \in Seq(Glyphs)
                       /\ short => MergeFits(upto(n), bound)
           T == {n \in Nat : n <= Len(pieces) => Holds(n)}
           all == upto(Len(pieces))
<1>0. Len(pieces) \in Nat /\ \A n \in 1..Len(pieces) : pieces[n] \in Seq(Glyphs) /\ pieces[n] \in Members(pieces)
  BY LenProperties, ElementOfSeq DEF Members
<1>1. upto(0) = [out |-> <<>>, buffer |-> <<>>] /\ joined(0) = <<>>
  BY MergeStep, JoinedStep
<1>2. \A n \in 1..Len(pieces) : upto(n) = MergeBy(upto(n - 1), pieces[n], sep, bound)
  BY MergeStep
<1>3. \A n \in 1..Len(pieces) : joined(n) = joined(n - 1) \o pieces[n]
  BY JoinedStep
<1>4. Merged(pieces, sep, bound) = Flushed(all) /\ JoinOf(pieces) = joined(Len(pieces))
  BY DEF Merged, JoinOf
<1> HIDE DEF upto, joined, short
<1>5. 0 \in T
  <2> DEFINE none == <<>>
             start == [out |-> none, buffer |-> none]
  <2>1. none \in Seq(Seq(Glyphs)) /\ none \in Seq(Glyphs) /\ JoinOf(none) \o none = none /\ Len(none) = 0 /\ Members(none) = {}
    BY EmptySeq, JoinEmpty, ConcatEmptySeq, MembersEmpty
  <2>2. upto(0) = start /\ joined(0) = none
    BY <1>1
  <2> HIDE DEF none
  <2>3. start \in MergeTypes /\ start.out = none /\ start.buffer = none
    BY <2>1 DEF MergeTypes
  <2> HIDE DEF start
  <2>4. MergeOk(start, none)
    BY <2>1, <2>3 DEF MergeOk
  <2>5. MergeFits(start, bound)
    BY <2>1, <2>3 DEF MergeFits
  <2> QED  BY <2>1, <2>2, <2>4, <2>5
<1>6. ASSUME NEW n \in Nat, n \in T PROVE n + 1 \in T
  <2> SUFFICES ASSUME n + 1 <= Len(pieces) PROVE Holds(n + 1)
    OBVIOUS
  <2>1. n + 1 \in 1..Len(pieces) /\ (n + 1) - 1 = n /\ Holds(n)
    BY <1>0, <1>6
  <2>2. upto(n + 1) = MergeBy(upto(n), pieces[n + 1], sep, bound)
    BY ONLY <1>2, <2>1
  <2>3. joined(n + 1) = joined(n) \o pieces[n + 1]
    BY ONLY <1>3, <2>1
  <2>4. pieces[n + 1] \in Seq(Glyphs) /\ pieces[n + 1] \in Members(pieces) /\ upto(n) \in MergeTypes
    BY <1>0, <2>1 DEF MergeOk
  <2>5. joined(n) \o pieces[n + 1] \in Seq(Glyphs)
    BY <2>1, <2>4, ConcatProperties
  <2>6. MergeOk(MergeBy(upto(n), pieces[n + 1], sep, bound), joined(n) \o pieces[n + 1])
    BY <2>1, <2>4, MergeByKeeps
  <2>7. ASSUME short PROVE MergeFits(MergeBy(upto(n), pieces[n + 1], sep, bound), bound)
    <3>1. Len(pieces[n + 1]) <= bound
      BY <2>4, <2>7 DEF short
    <3> QED  BY <2>1, <2>4, <2>7, <3>1, MergeByFits
  <2> QED  BY <2>2, <2>3, <2>5, <2>6, <2>7
<1>7. Holds(Len(pieces))
  <2>1. Nat \subseteq T
    <3> HIDE DEF T
    <3> QED  BY <1>5, <1>6, Counting
  <2> HIDE DEF Holds
  <2> QED  BY <1>0, <2>1
<1>8. /\ all \in MergeTypes /\ LettersOf(JoinOf(all.out) \o all.buffer) = LettersOf(JoinOf(pieces))
      /\ short => MergeFits(all, bound)
  BY <1>4, <1>7 DEF MergeOk
<1> HIDE DEF all
<1>9. /\ Flushed(all) \in Seq(Seq(Glyphs)) /\ JoinOf(Flushed(all)) = JoinOf(all.out) \o all.buffer
      /\ Members(Flushed(all)) \subseteq Members(all.out) \cup {all.buffer}
  BY <1>8, FlushedKeeps
<1>10. short => \A x \in Members(Flushed(all)) : Len(x) <= bound
  BY <1>8, <1>9 DEF MergeFits
<1> QED  BY <1>4, <1>8, <1>9, <1>10 DEF short

-----------------------------------------------------------------------------
(* Chunks that lose no letter, have each once, and are short enough.        *)

Whole(chunks, t) == chunks \in Seq(Seq(Glyphs)) /\ LettersOf(JoinOf(chunks)) = LettersOf(t)
Chunked(chunks, t) == Whole(chunks, t) /\ \A x \in Members(chunks) : Len(x) <= Size

LEMMA BlankHasNoLetter ==
  ASSUME NEW t \in Seq(Glyphs), Blank(t)
  PROVE  LettersOf(t) = <<>>
<1>1. DOMAIN t = 1..Len(t)
  BY LenProperties
<1>2. \A n \in 1..Len(t) : t[n] \notin Letters
  BY <1>1 DEF Blank, Letters, Letter, Newline
<1>3. Members(t) \cap Letters = {}
  BY <1>2 DEF Members
<1> QED  BY <1>3, KeepNothing DEF LettersOf

LEMMA JoinOne ==
  ASSUME NEW S, NEW t \in Seq(S)
  PROVE  JoinOf(<<t>>) = t /\ <<t>> \in Seq(Seq(S)) /\ Members(<<t>>) = {t}
<1>1. <<>> \in Seq(Seq(S)) /\ Append(<<>>, t) = <<t>>
  BY EmptySeq
<1> DEFINE none == <<>>
           one == Append(none, t)
<1>2. none \in Seq(Seq(S)) /\ one = <<t>> /\ JoinOf(none) = <<>> /\ Members(none) = {}
  BY <1>1, JoinEmpty, MembersEmpty
<1> HIDE DEF none
<1>3. one \in Seq(Seq(S)) /\ JoinOf(one) = JoinOf(none) \o t /\ Members(one) = Members(none) \cup {t}
  <2> DEFINE Y == Seq(S)
  <2>1. none \in Seq(Y) /\ t \in Y
    BY <1>2
  <2> HIDE DEF Y
  <2>2. one \in Seq(Y) /\ JoinOf(one) = JoinOf(none) \o t
    BY <2>1, AppendProperties, JoinAppend
  <2>3. Members(one) = Members(none) \cup {t}
    BY <2>1, MembersAppend
  <2> QED  BY <2>2, <2>3 DEF Y
<1> HIDE DEF one
<1>4. <<>> \o t = t
  BY ConcatEmptySeq
<1> QED  BY <1>2, <1>3, <1>4

LEMMA SmallIsChunked ==
  ASSUME NEW t \in Seq(Glyphs), Len(t) <= Size
  PROVE  Chunked(IF Blank(t) THEN <<>> ELSE <<t>>, t)
<1>1. CASE Blank(t)
  <2>1. <<>> \in Seq(Seq(Glyphs)) /\ JoinOf(<<>>) = <<>> /\ Members(<<>>) = {}
    BY EmptySeq, JoinEmpty, MembersEmpty
  <2>2. LettersOf(<<>>) = <<>> /\ LettersOf(t) = <<>>
    BY <1>1, KeepEmpty, BlankHasNoLetter DEF LettersOf
  <2> DEFINE none == <<>>
  <2>3. none \in Seq(Seq(Glyphs)) /\ LettersOf(JoinOf(none)) = LettersOf(t) /\ Members(none) = {}
    BY <2>1, <2>2
  <2> HIDE DEF none
  <2>4. Chunked(none, t)
    BY <2>3 DEF Chunked, Whole
  <2> QED  BY <1>1, <2>4 DEF none
<1>2. CASE ~Blank(t)
  <2> DEFINE one == <<t>>
  <2>1. one \in Seq(Seq(Glyphs)) /\ JoinOf(one) = t /\ Members(one) = {t}
    BY JoinOne
  <2> HIDE DEF one
  <2>2. Chunked(one, t)
    BY <2>1 DEF Chunked, Whole
  <2> QED  BY <1>2, <2>2 DEF one
<1> QED  BY <1>1, <1>2

\* The parts of a text are chunked, each for itself: so is the text.
LEMMA PartsAreChunked ==
  ASSUME NEW t \in Seq(Glyphs), NEW parts \in Seq(Seq(Glyphs)), LettersOf(JoinOf(parts)) = LettersOf(t),
         NEW css, DOMAIN css = 1..Len(parts), css = [n \in 1..Len(parts) |-> css[n]],
         \A n \in 1..Len(parts) : Chunked(css[n], parts[n])
  PROVE  Chunked(JoinOf(css), t)
<1>1. Len(parts) \in Nat /\ \A n \in 1..Len(parts) : css[n] \in Seq(Seq(Glyphs))
  BY LenProperties DEF Chunked, Whole
<1>2. css \in Seq(Seq(Seq(Glyphs))) /\ Len(css) = Len(parts)
  BY <1>1
<1>3. \A n \in 1..Len(parts) : Keep(JoinOf(css[n]), Letters) = Keep(parts[n], Letters)
  BY DEF Chunked, Whole, LettersOf
<1>4. Keep(JoinOf(JoinOf(css)), Letters) = Keep(JoinOf(parts), Letters)
  BY <1>2, <1>3, KeepCut
<1>5. JoinOf(css) \in Seq(Seq(Glyphs))
  BY <1>2, JoinedLength
<1>6. ASSUME NEW x \in Members(JoinOf(css)) PROVE Len(x) <= Size
  <2> DEFINE Y == Seq(Glyphs)
  <2>3. css \in Seq(Seq(Y))
    BY <1>2
  <2> HIDE DEF Y
  <2>4. Members(JoinOf(css)) = UNION {Members(y) : y \in Members(css)}
    BY <2>3, JoinMembers
  <2>1. PICK cs \in Members(css) : x \in Members(cs)
    BY <1>6, <2>4
  <2>2. PICK n \in 1..Len(parts) : cs = css[n]
    BY <1>2, <2>1 DEF Members
  <2> QED  BY <2>1, <2>2 DEF Chunked
<1> QED  BY <1>4, <1>5, <1>6 DEF Chunked, Whole, LettersOf

\* The parts a text is cut into have its letters; single characters make short parts.
LEMMA PartsKeep ==
  ASSUME NEW t \in Seq(Glyphs), NEW sep \in Separators \cup {<<>>}
  PROVE  LET parts == Merged(Pieces(t, sep), sep, Size)
         IN  /\ parts \in Seq(Seq(Glyphs)) /\ LettersOf(JoinOf(parts)) = LettersOf(t)
             /\ sep = <<>> => \A x \in Members(parts) : Len(x) <= Size
<1> DEFINE pieces == Pieces(t, sep)
<1>1. /\ pieces \in Seq(Seq(Glyphs)) /\ LettersOf(JoinOf(pieces)) = LettersOf(t)
      /\ sep = <<>> => \A x \in Members(pieces) : Len(x) = 1
  BY PiecesKeep
<1>2. Size \in Nat /\ 1 <= Size
  BY TextsAssumption
<1> HIDE DEF pieces
<1>3. sep = <<>> => \A x \in Members(pieces) : Len(x) <= Size
  BY <1>1, <1>2
<1>4. LettersOf(JoinOf(Merged(pieces, sep, Size))) = LettersOf(JoinOf(pieces)) /\ Merged(pieces, sep, Size) \in Seq(Seq(Glyphs))
  BY <1>1, <1>2, MergedKeeps
<1>5. sep = <<>> => \A x \in Members(Merged(pieces, sep, Size)) : Len(x) <= Size
  BY <1>1, <1>2, <1>3, MergedKeeps
<1> QED  BY <1>1, <1>4, <1>5 DEF pieces

LEMMA WindowsSuffice ==
  ASSUME NEW t \in Seq(Glyphs), Len(t) <= Size
  PROVE  Chunked(ByWindows(t), t)
<1>1. ByWindows(t) = IF Blank(t) THEN <<>> ELSE <<t>>
  BY DEF ByWindows, FixedChunks
<1> QED  BY <1>1, SmallIsChunked

LEMMA CharactersAreChunked ==
  ASSUME NEW t \in Seq(Glyphs)
  PROVE  Chunked(ByCharacters(t), t)
<1> DEFINE parts == Merged(Pieces(t, <<>>), <<>>, Size)
           css == [n \in 1..Len(parts) |-> ByWindows(parts[n])]
<1>1. ByCharacters(t) = IF Len(t) <= Size THEN (IF Blank(t) THEN <<>> ELSE <<t>>) ELSE JoinOf(css)
  BY DEF ByCharacters, ChunksBy, SingleCharacter
<1>2. parts \in Seq(Seq(Glyphs)) /\ LettersOf(JoinOf(parts)) = LettersOf(t) /\ \A x \in Members(parts) : Len(x) <= Size
  BY PartsKeep
<1> HIDE DEF parts
<1>3. ASSUME NEW n \in 1..Len(parts) PROVE Chunked(css[n], parts[n])
  <2>1. parts[n] \in Seq(Glyphs) /\ Len(parts[n]) <= Size
    BY <1>2, ElementOfSeq DEF Members
  <2> QED  BY <2>1, WindowsSuffice
<1>4. DOMAIN css = 1..Len(parts) /\ css = [n \in 1..Len(parts) |-> css[n]]
  OBVIOUS
<1> HIDE DEF css
<1>5. Chunked(JoinOf(css), t)
  BY <1>2, <1>3, <1>4, PartsAreChunked
<1> QED  BY <1>1, <1>5, SmallIsChunked

LEMMA SentencesAreChunked ==
  ASSUME NEW t \in Seq(Glyphs)
  PROVE  Chunked(BySentences(t), t)
<1> DEFINE parts == Merged(Pieces(t, Sentence), Sentence, Size)
           css == [n \in 1..Len(parts) |-> ByCharacters(parts[n])]
<1>1. BySentences(t) = IF Len(t) <= Size THEN (IF Blank(t) THEN <<>> ELSE <<t>>) ELSE JoinOf(css)
  BY DEF BySentences, ChunksBy
<1>2. parts \in Seq(Seq(Glyphs)) /\ LettersOf(JoinOf(parts)) = LettersOf(t)
  <2>1. Sentence \in Separators
    BY DEF Separators, Sentence
  <2> QED  BY <2>1, PartsKeep
<1> HIDE DEF parts
<1>3. ASSUME NEW n \in 1..Len(parts) PROVE Chunked(css[n], parts[n])
  <2>1. parts[n] \in Seq(Glyphs)
    BY <1>2, ElementOfSeq
  <2> QED  BY <2>1, CharactersAreChunked
<1>4. DOMAIN css = 1..Len(parts) /\ css = [n \in 1..Len(parts) |-> css[n]]
  OBVIOUS
<1> HIDE DEF css
<1>5. Chunked(JoinOf(css), t)
  BY <1>2, <1>3, <1>4, PartsAreChunked
<1> QED  BY <1>1, <1>5, SmallIsChunked

LEMMA LinesAreChunked ==
  ASSUME NEW t \in Seq(Glyphs)
  PROVE  Chunked(ByLines(t), t)
<1> DEFINE parts == Merged(Pieces(t, Line), Line, Size)
           css == [n \in 1..Len(parts) |-> BySentences(parts[n])]
<1>1. ByLines(t) = IF Len(t) <= Size THEN (IF Blank(t) THEN <<>> ELSE <<t>>) ELSE JoinOf(css)
  BY DEF ByLines, ChunksBy
<1>2. parts \in Seq(Seq(Glyphs)) /\ LettersOf(JoinOf(parts)) = LettersOf(t)
  <2>1. Line \in Separators
    BY DEF Separators, Line
  <2> QED  BY <2>1, PartsKeep
<1> HIDE DEF parts
<1>3. ASSUME NEW n \in 1..Len(parts) PROVE Chunked(css[n], parts[n])
  <2>1. parts[n] \in Seq(Glyphs)
    BY <1>2, ElementOfSeq
  <2> QED  BY <2>1, SentencesAreChunked
<1>4. DOMAIN css = 1..Len(parts) /\ css = [n \in 1..Len(parts) |-> css[n]]
  OBVIOUS
<1> HIDE DEF css
<1>5. Chunked(JoinOf(css), t)
  BY <1>2, <1>3, <1>4, PartsAreChunked
<1> QED  BY <1>1, <1>5, SmallIsChunked

LEMMA RecursiveIsChunked ==
  ASSUME NEW t \in Seq(Glyphs)
  PROVE  Chunked(RecursiveChunks(t), t)
<1> DEFINE parts == Merged(Pieces(t, Paragraph), Paragraph, Size)
           css == [n \in 1..Len(parts) |-> ByLines(parts[n])]
<1>1. RecursiveChunks(t) = IF Len(t) <= Size THEN (IF Blank(t) THEN <<>> ELSE <<t>>) ELSE JoinOf(css)
  BY DEF RecursiveChunks, ChunksBy
<1>2. parts \in Seq(Seq(Glyphs)) /\ LettersOf(JoinOf(parts)) = LettersOf(t)
  <2>1. Paragraph \in Separators
    BY DEF Separators, Paragraph
  <2> QED  BY <2>1, PartsKeep
<1> HIDE DEF parts
<1>3. ASSUME NEW n \in 1..Len(parts) PROVE Chunked(css[n], parts[n])
  <2>1. parts[n] \in Seq(Glyphs)
    BY <1>2, ElementOfSeq
  <2> QED  BY <2>1, LinesAreChunked
<1>4. DOMAIN css = 1..Len(parts) /\ css = [n \in 1..Len(parts) |-> css[n]]
  OBVIOUS
<1> HIDE DEF css
<1>5. Chunked(JoinOf(css), t)
  BY <1>2, <1>3, <1>4, PartsAreChunked
<1> QED  BY <1>1, <1>5, SmallIsChunked

-----------------------------------------------------------------------------
(* Semantic chunks: every unit is in a chunk.                               *)

LEMMA EndedKeeps ==
  ASSUME NEW pieces \in Seq(Seq(Glyphs)), NEW sep \in Separators
  PROVE  Ended(pieces, sep) \in Seq(Seq(Glyphs)) /\ LettersOf(JoinOf(Ended(pieces, sep))) = LettersOf(JoinOf(pieces))
<1> DEFINE g == Glue(sep)
           ss == [n \in 1..Len(pieces) |-> IF n < Len(pieces) /\ pieces[n] # <<>> THEN pieces[n] \o g ELSE pieces[n]]
<1>1. g \in Seq(Glyphs) /\ LettersOf(g) = <<>>
  BY GlueHasNoLetter
<1>2. Len(pieces) \in Nat /\ \A n \in 1..Len(pieces) : pieces[n] \in Seq(Glyphs)
  BY LenProperties, ElementOfSeq
<1>3. Ended(pieces, sep) = NonEmpty(ss)
  BY DEF Ended
<1> HIDE DEF g
<1>4. ASSUME NEW n \in 1..Len(pieces)
      PROVE  ss[n] \in Seq(Glyphs) /\ Keep(ss[n], Letters) = Keep(pieces[n], Letters)
  <2>1. pieces[n] \in Seq(Glyphs)
    BY <1>2
  <2>2. pieces[n] \o g \in Seq(Glyphs)
    BY <1>1, <2>1, ConcatProperties
  <2>3. KeptOfBoth(pieces[n], g, Letters)
    BY <1>1, <2>1, KeepConcat
  <2>4. Keep(pieces[n] \o g, Letters) = Keep(pieces[n], Letters) \o <<>>
    BY <1>1, <2>3 DEF KeptOfBoth, LettersOf
  <2>5. Keep(pieces[n], Letters) \in Seq(Glyphs)
    BY <2>1, KeepMembers
  <2>6. Keep(pieces[n], Letters) \o <<>> = Keep(pieces[n], Letters)
    BY <2>5, ConcatEmptySeq
  <2>7. ss[n] \in {pieces[n] \o g, pieces[n]}
    OBVIOUS
  <2> HIDE DEF ss
  <2> QED  BY <2>1, <2>2, <2>4, <2>6, <2>7
<1>5. ss \in Seq(Seq(Glyphs)) /\ Len(ss) = Len(pieces)
  BY <1>2, <1>4
<1> HIDE DEF ss
<1>6. Keep(JoinOf(ss), Letters) = Keep(JoinOf(pieces), Letters)
  BY <1>4, <1>5, KeepEach
<1>7. NonEmpty(ss) \in Seq(Seq(Glyphs)) /\ JoinOf(NonEmpty(ss)) = JoinOf(ss)
  BY <1>5, NonEmptyKeeps
<1> QED  BY <1>3, <1>6, <1>7 DEF LettersOf

LEMMA UnitsByKeeps ==
  ASSUME NEW units \in Seq(Seq(Glyphs)), NEW sep \in Separators
  PROVE  UnitsBy(units, sep) \in Seq(Seq(Glyphs)) /\ LettersOf(JoinOf(UnitsBy(units, sep))) = LettersOf(JoinOf(units))
<1> DEFINE css == [n \in 1..Len(units) |->
                     IF 2 * Len(units[n]) > 3 * Size THEN Ended(Split(units[n], sep), sep) ELSE <<units[n]>>]
<1>1. Len(units) \in Nat /\ \A n \in 1..Len(units) : units[n] \in Seq(Glyphs)
  BY LenProperties, ElementOfSeq
<1>2. UnitsBy(units, sep) = JoinOf(css)
  BY DEF UnitsBy
<1>3. ASSUME NEW n \in 1..Len(units)
      PROVE  css[n] \in Seq(Seq(Glyphs)) /\ Keep(JoinOf(css[n]), Letters) = Keep(units[n], Letters)
  <2> DEFINE u == units[n]
             parts == Split(u, sep)
             one == <<u>>
  <2>1. css[n] \in {Ended(parts, sep), one}
    OBVIOUS
  <2>2. u \in Seq(Glyphs)
    BY <1>1
  <2> HIDE DEF css, u
  <2>3. parts \in Seq(Seq(Glyphs)) /\ LettersOf(JoinOf(parts)) = LettersOf(u)
    BY <2>2, SplitKeeps
  <2>4. one \in Seq(Seq(Glyphs)) /\ JoinOf(one) = u
    BY <2>2, JoinOne
  <2> HIDE DEF parts, one
  <2>5. Ended(parts, sep) \in Seq(Seq(Glyphs)) /\ LettersOf(JoinOf(Ended(parts, sep))) = LettersOf(JoinOf(parts))
    BY <2>3, EndedKeeps
  <2>6. css[n] \in Seq(Seq(Glyphs)) /\ LettersOf(JoinOf(css[n])) = LettersOf(u)
    BY <2>1, <2>3, <2>4, <2>5
  <2> QED  BY <2>6 DEF LettersOf, u
<1>4. css \in Seq(Seq(Seq(Glyphs))) /\ Len(css) = Len(units)
  <2> DEFINE Y == Seq(Seq(Glyphs))
  <2>1. DOMAIN css = 1..Len(units) /\ css = [n \in 1..Len(units) |-> css[n]] /\ \A n \in 1..Len(units) : css[n] \in Y
    BY <1>3
  <2> HIDE DEF css, Y
  <2>2. css \in Seq(Y) /\ Len(css) = Len(units)
    BY <1>1, <2>1
  <2> QED  BY <2>2 DEF Y
<1> HIDE DEF css
<1>5. Keep(JoinOf(JoinOf(css)), Letters) = Keep(JoinOf(units), Letters)
  <2>1. units \in Seq(Seq(Glyphs)) /\ css \in Seq(Seq(Seq(Glyphs))) /\ Len(css) = Len(units)
    BY <1>4
  <2>2. \A n \in 1..Len(units) : Keep(JoinOf(css[n]), Letters) = Keep(units[n], Letters)
    BY <1>3
  <2> QED  BY ONLY <2>1, <2>2, KeepCut
<1>6. JoinOf(css) \in Seq(Seq(Glyphs))
  BY <1>4, JoinedLength
<1> QED  BY <1>2, <1>5, <1>6 DEF LettersOf

LEMMA UnitsKeep ==
  ASSUME NEW t \in Seq(Glyphs)
  PROVE  Whole(Units(t), t)
<1> DEFINE one == <<t>>
           byParagraph == UnitsBy(one, Paragraph)
           byLine == UnitsBy(byParagraph, Line)
           bySentence == UnitsBy(byLine, Sentence)
<1>1. one \in Seq(Seq(Glyphs)) /\ JoinOf(one) = t
  BY JoinOne
<1>2. Units(t) = bySentence
  BY DEF Units
<1>3. Paragraph \in Separators /\ Line \in Separators /\ Sentence \in Separators
  BY DEF Separators, Paragraph, Line, Sentence
<1> HIDE DEF one
<1>4. byParagraph \in Seq(Seq(Glyphs)) /\ LettersOf(JoinOf(byParagraph)) = LettersOf(t)
  BY <1>1, <1>3, UnitsByKeeps
<1> HIDE DEF byParagraph
<1>5. byLine \in Seq(Seq(Glyphs)) /\ LettersOf(JoinOf(byLine)) = LettersOf(t)
  BY <1>3, <1>4, UnitsByKeeps
<1> HIDE DEF byLine
<1>6. bySentence \in Seq(Seq(Glyphs)) /\ LettersOf(JoinOf(bySentence)) = LettersOf(t)
  BY <1>3, <1>5, UnitsByKeeps
<1> QED  BY <1>2, <1>6 DEF Whole

\* What is carried over is of the chunk before.
LEMMA CarriedIsPart ==
  ASSUME NEW units \in Seq(Seq(Glyphs))
  PROVE  Carried(units) \in Seq(Seq(Glyphs)) /\ Members(JoinOf(Carried(units))) \subseteq Members(JoinOf(units))
<1> DEFINE L == Len(units)
           fits == {n \in 0..L : Len(JoinOf(SubSeq(units, n + 1, L))) <= Overlap}
           least == Min(fits)
           rest == SubSeq(units, least + 1, L)
<1>1. L \in Nat /\ \A n \in 1..L : units[n] \in Seq(Glyphs) /\ units[n] \in Members(units)
  BY LenProperties, ElementOfSeq DEF Members
<1>2. L \in fits
  <2>1. SubSeq(units, L + 1, L) = <<>>
    BY <1>1, SubSeqEmpty
  <2>2. Len(JoinOf(<<>>)) = 0
    BY JoinEmpty, EmptySeq
  <2>3. 0 <= Overlap
    BY TextsAssumption
  <2>4. Len(JoinOf(SubSeq(units, L + 1, L))) <= Overlap
    BY <2>1, <2>2, <2>3
  <2>5. L \in 0..L
    BY <1>1
  <2> HIDE DEF L
  <2> QED  BY <2>4, <2>5
<1>3. least \in 0..L
  <2>1. fits \subseteq Nat /\ fits # {} /\ fits \subseteq 0..L
    BY <1>1, <1>2
  <2> HIDE DEF fits
  <2>2. PICK x \in fits : \A y \in fits : x <= y
    BY <2>1, Least
  <2>3. least \in fits
    BY <2>2 DEF Min
  <2> QED  BY <2>1, <2>3
<1>4. Carried(units) = rest
  BY DEF Carried
<1> HIDE DEF least, L
<1> DEFINE Y == Seq(Glyphs)
<1>5. rest \in Seq(Y) /\ Members(rest) \subseteq Members(units)
  <2>1. \A i \in (least + 1)..L : units[i] \in Members(units)
    BY <1>1, <1>3
  <2>2. rest \in Seq(Members(units))
    BY <1>1, <1>3, <2>1, SubSeqProperties
  <2>3. Members(units) \subseteq Y
    BY <1>1 DEF Members, L
  <2> HIDE DEF rest, Y
  <2>4. Members(rest) \subseteq Members(units)
    <3>1. \A i \in 1..Len(rest) : rest[i] \in Members(units)
      BY <2>2, ElementOfSeq
    <3> QED  BY <3>1 DEF Members
  <2>5. rest \in Seq(Y)
    BY <2>2, <2>3, SeqMonotonic
  <2> QED  BY <2>4, <2>5
<1> HIDE DEF rest
<1>6. /\ Members(JoinOf(rest)) = UNION {Members(x) : x \in Members(rest)}
      /\ Members(JoinOf(units)) = UNION {Members(x) : x \in Members(units)}
  BY <1>5, JoinMembers
<1>7. Members(JoinOf(rest)) \subseteq Members(JoinOf(units))
  BY <1>5, <1>6
<1> QED  BY <1>4, <1>5, <1>7

\* The units gathered so far are in the chunks, or in the one under way.
GatherTypes == [out : Seq(Seq(Glyphs)), now : Seq(Seq(Glyphs))]
GatherOk(g, k) ==
    /\ g \in GatherTypes
    /\ (Members(JoinOf(g.out)) \cup Members(JoinOf(g.now))) \cap Letters = Members(k) \cap Letters

LEMMA GatherByKeeps ==
  ASSUME NEW g, NEW k \in Seq(Glyphs), GatherOk(g, k), NEW u \in Seq(Glyphs)
  PROVE  GatherOk(GatherBy(g, u), k \o u)
<1> DEFINE o == g.out
           w == g.now
           chunk == JoinOf(w)
           outs == Append(o, chunk)
           after == Append(Carried(w), u)
           more == Append(w, u)
           flush == [out |-> outs, now |-> after]
           grown == [g EXCEPT !.now = more]
           next == GatherBy(g, u)
<1>1. /\ o \in Seq(Seq(Glyphs)) /\ w \in Seq(Seq(Glyphs)) /\ g \in GatherTypes
      /\ (Members(JoinOf(o)) \cup Members(chunk)) \cap Letters = Members(k) \cap Letters
  BY DEF GatherOk, GatherTypes
<1>2. next = IF Blank(u) THEN g ELSE IF Len(chunk \o u) > Size /\ w # <<>> THEN flush ELSE grown
  BY DEF GatherBy
<1>3. Members(k \o u) = Members(k) \cup Members(u)
  BY MembersConcat
<1>4. chunk \in Seq(Glyphs) /\ Carried(w) \in Seq(Seq(Glyphs)) /\ Members(JoinOf(Carried(w))) \subseteq Members(chunk)
  BY <1>1, JoinedLength, CarriedIsPart
<1>5. ASSUME NEW ss \in Seq(Seq(Glyphs)), NEW x \in Seq(Glyphs)
      PROVE  Append(ss, x) \in Seq(Seq(Glyphs)) /\ Members(JoinOf(Append(ss, x))) = Members(JoinOf(ss)) \cup Members(x)
  <2>1. JoinOf(Append(ss, x)) = JoinOf(ss) \o x /\ JoinOf(ss) \in Seq(Glyphs)
    BY JoinAppend, JoinedLength
  <2>2. Members(JoinOf(ss) \o x) = Members(JoinOf(ss)) \cup Members(x)
    BY <2>1, MembersConcat
  <2> QED  BY <2>1, <2>2, AppendProperties
<1>6. ASSUME Blank(u) PROVE GatherOk(g, k \o u)
  <2>1. Members(u) \cap Letters = {}
    BY <1>6, BlankHasNoLetter, KeepNothing DEF LettersOf
  <2> QED  BY <1>1, <1>3, <1>6, <2>1 DEF GatherOk
<1>7. GatherOk(flush, k \o u)
  <2>1. outs \in Seq(Seq(Glyphs)) /\ Members(JoinOf(outs)) = Members(JoinOf(o)) \cup Members(chunk)
    BY <1>1, <1>4, <1>5
  <2>2. after \in Seq(Seq(Glyphs)) /\ Members(JoinOf(after)) = Members(JoinOf(Carried(w))) \cup Members(u)
    BY <1>4, <1>5
  <2> HIDE DEF outs, after
  <2>3. flush \in GatherTypes /\ flush.out = outs /\ flush.now = after
    BY <2>1, <2>2 DEF GatherTypes
  <2> HIDE DEF flush, chunk, o
  <2>4. (Members(JoinOf(outs)) \cup Members(JoinOf(after))) \cap Letters = Members(k \o u) \cap Letters
    BY <1>1, <1>3, <1>4, <2>1, <2>2
  <2> QED  BY <2>3, <2>4 DEF GatherOk
<1>8. GatherOk(grown, k \o u)
  <2>1. more \in Seq(Seq(Glyphs)) /\ Members(JoinOf(more)) = Members(chunk) \cup Members(u)
    BY <1>1, <1>5
  <2> HIDE DEF more
  <2>2. grown \in GatherTypes /\ grown.out = o /\ grown.now = more
    BY <1>1, <2>1 DEF GatherTypes
  <2> HIDE DEF grown, chunk, o
  <2>3. (Members(JoinOf(o)) \cup Members(JoinOf(more))) \cap Letters = Members(k \o u) \cap Letters
    BY <1>1, <1>3, <2>1
  <2> QED  BY <2>2, <2>3 DEF GatherOk
<1>9. GatherOk(next, k \o u)
  <2> HIDE DEF next, flush, grown, chunk
  <2> QED  BY <1>2, <1>6, <1>7, <1>8
<1> QED  BY <1>9

LEMMA SemanticKeeps ==
  ASSUME NEW t \in Seq(Glyphs)
  PROVE  /\ SemanticChunks(t) \in Seq(Seq(Glyphs))
         /\ Members(JoinOf(SemanticChunks(t))) \cap Letters = Members(t) \cap Letters
<1> DEFINE units == Units(t)
           upto(n) == GatherUpto(units)[n]
           joined(n) == JoinedUpto(units)[n]
           Holds(n) == GatherOk(upto(n), joined(n)) /\ joined(n) \in Seq(Glyphs)
           T == {n \in Nat : n <= Len(units) => Holds(n)}
           all == upto(Len(units))
<1>a. units \in Seq(Seq(Glyphs)) /\ LettersOf(JoinOf(units)) = LettersOf(t)
  BY UnitsKeep DEF Whole
<1>b. SemanticChunks(t) = IF all.now = <<>> THEN all.out ELSE Append(all.out, JoinOf(all.now))
  BY DEF SemanticChunks
<1> HIDE DEF units
<1>0. Len(units) \in Nat /\ \A n \in 1..Len(units) : units[n] \in Seq(Glyphs)
  BY <1>a, LenProperties, ElementOfSeq
<1>1. upto(0) = [out |-> <<>>, now |-> <<>>] /\ joined(0) = <<>>
  BY <1>a, GatherStep, JoinedStep
<1>2. \A n \in 1..Len(units) : upto(n) = GatherBy(upto(n - 1), units[n])
  BY <1>a, GatherStep
<1>3. \A n \in 1..Len(units) : joined(n) = joined(n - 1) \o units[n]
  BY <1>a, JoinedStep
<1>4. JoinOf(units) = joined(Len(units))
  BY DEF JoinOf
<1> HIDE DEF upto, joined
<1>5. 0 \in T
  <2> DEFINE none == <<>>
             start == [out |-> none, now |-> none]
  <2>1. none \in Seq(Seq(Glyphs)) /\ none \in Seq(Glyphs) /\ JoinOf(none) = none /\ Members(none) = {}
    BY EmptySeq, JoinEmpty, MembersEmpty
  <2>2. upto(0) = start /\ joined(0) = none
    BY <1>1
  <2> HIDE DEF none
  <2>3. start \in GatherTypes /\ start.out = none /\ start.now = none
    BY <2>1 DEF GatherTypes
  <2> HIDE DEF start
  <2>4. GatherOk(start, none)
    BY <2>1, <2>3 DEF GatherOk
  <2> QED  BY <2>1, <2>2, <2>4
<1>6. ASSUME NEW n \in Nat, n \in T PROVE n + 1 \in T
  <2> SUFFICES ASSUME n + 1 <= Len(units) PROVE Holds(n + 1)
    OBVIOUS
  <2>1. n + 1 \in 1..Len(units) /\ (n + 1) - 1 = n /\ Holds(n)
    BY <1>0, <1>6
  <2>2. upto(n + 1) = GatherBy(upto(n), units[n + 1])
    BY ONLY <1>2, <2>1
  <2>3. joined(n + 1) = joined(n) \o units[n + 1]
    BY ONLY <1>3, <2>1
  <2>4. units[n + 1] \in Seq(Glyphs)
    BY <1>0, <2>1
  <2>5. joined(n) \o units[n + 1] \in Seq(Glyphs)
    BY <2>1, <2>4, ConcatProperties
  <2>6. GatherOk(GatherBy(upto(n), units[n + 1]), joined(n) \o units[n + 1])
    BY <2>1, <2>4, GatherByKeeps
  <2> QED  BY <2>2, <2>3, <2>5, <2>6
<1>7. Holds(Len(units))
  <2>1. Nat \subseteq T
    <3> HIDE DEF T
    <3> QED  BY <1>5, <1>6, Counting
  <2> HIDE DEF Holds
  <2> QED  BY <1>0, <2>1
<1> DEFINE o == all.out
           w == all.now
<1>8. /\ o \in Seq(Seq(Glyphs)) /\ w \in Seq(Seq(Glyphs))
      /\ (Members(JoinOf(o)) \cup Members(JoinOf(w))) \cap Letters = Members(JoinOf(units)) \cap Letters
  BY <1>4, <1>7 DEF GatherOk, GatherTypes
<1>9. Members(JoinOf(units)) \cap Letters = Members(t) \cap Letters
  <2>1. JoinOf(units) \in Seq(Glyphs)
    BY <1>a, JoinedLength
  <2>2. Members(Keep(JoinOf(units), Letters)) = Members(JoinOf(units)) \cap Letters
    BY <2>1, KeepMembers
  <2>3. Members(Keep(t, Letters)) = Members(t) \cap Letters
    BY KeepMembers
  <2> QED  BY <1>a, <2>2, <2>3 DEF LettersOf
<1>10. SemanticChunks(t) = IF w = <<>> THEN o ELSE Append(o, JoinOf(w))
  BY <1>b
<1> HIDE DEF o, w
<1>11. JoinOf(o) \in Seq(Glyphs) /\ JoinOf(w) \in Seq(Glyphs)
  BY <1>8, JoinedLength
<1>12. CASE w = <<>>
  BY <1>8, <1>9, <1>10, <1>12, JoinEmpty, MembersEmpty
<1>13. CASE w # <<>>
  <2>1. Append(o, JoinOf(w)) \in Seq(Seq(Glyphs)) /\ JoinOf(Append(o, JoinOf(w))) = JoinOf(o) \o JoinOf(w)
    BY <1>8, <1>11, AppendProperties, JoinAppend
  <2>2. Members(JoinOf(o) \o JoinOf(w)) = Members(JoinOf(o)) \cup Members(JoinOf(w))
    BY <1>11, MembersConcat
  <2> QED  BY <1>8, <1>9, <1>10, <1>13, <2>1, <2>2
<1> QED  BY <1>12, <1>13

-----------------------------------------------------------------------------
(* Windows meet.                                                            *)

\* Windows of `width', a step of at most `width' apart, reach every place.
LEMMA WindowsMeet ==
  ASSUME NEW L \in Nat, NEW width \in Nat, NEW step \in Nat, 1 <= step, step <= width, width < L,
         NEW i \in 1..L
  PROVE  LET q == (L - width + step - 1) \div step
         IN  q \in Nat /\ \E n \in 1..(q + 1) : 1 + (n - 1) * step <= i /\ i <= (n - 1) * step + width
<1>1. PICK a \in Nat, b \in Nat : a = L - width + step - 1 /\ b = i - 1
  OBVIOUS
<1>2. PICK q \in Nat, d \in Nat : q = a \div step /\ d = b \div step
  OBVIOUS
<1>3. a < (q + 1) * step /\ d * step <= b /\ b < (d + 1) * step
  BY <1>2
<1>4. PICK x \in Nat, y \in Nat : x = q * step /\ y = d * step
  OBVIOUS
<1>5. (q + 1) * step = x + step /\ (d + 1) * step = y + step
  BY <1>4
<1>6. L - width <= x /\ y <= i - 1 /\ i - 1 < y + step
  BY <1>1, <1>3, <1>4, <1>5
<1>7. \E n \in 1..(q + 1) : 1 + (n - 1) * step <= i /\ i <= (n - 1) * step + width
  <2>1. CASE d <= q
    <3>1. d + 1 \in 1..(q + 1) /\ (d + 1) - 1 = d
      BY <2>1
    <3>2. 1 + y <= i /\ i <= y + width
      BY <1>6
    <3> QED  BY <1>4, <3>1, <3>2
  <2>2. CASE q < d
    <3>1. x <= y
      BY <1>4, <2>2
    <3>2. q + 1 \in 1..(q + 1) /\ (q + 1) - 1 = q
      OBVIOUS
    <3>3. 1 + x <= i /\ i <= x + width
      BY <1>6, <3>1
    <3> QED  BY <1>4, <3>2, <3>3
  <2> QED  BY <2>1, <2>2
<1> QED  BY <1>1, <1>2, <1>7

LEMMA AdvanceIs ==
  ASSUME NEW width \in Nat \ {0}, NEW overlap \in Nat
  PROVE  Advance(width, overlap) \in Nat /\ 1 <= Advance(width, overlap) /\ Advance(width, overlap) <= width
<1> DEFINE S == {1, width - overlap}
           most(x) == x \in S /\ \A y \in S : x >= y
<1>1. \E x : most(x)
  <2>1. most(1) \/ most(width - overlap)
    OBVIOUS
  <2> HIDE DEF most
  <2> QED  BY <2>1
<1>2. Advance(width, overlap) = CHOOSE x : most(x)
  BY DEF Advance, Max
<1>3. most(Advance(width, overlap))
  <2> HIDE DEF most
  <2> QED  BY <1>1, <1>2
<1> QED  BY <1>3

LEMMA PieceIs ==
  ASSUME NEW S, NEW t \in Seq(S), NEW from \in Nat \ {0}, NEW to \in Nat
  PROVE  /\ Piece(t, from, to) \in Seq(S)
         /\ Members(Piece(t, from, to)) = {t[i] : i \in {j \in 1..Len(t) : from <= j /\ j <= to}}
         /\ Len(Piece(t, from, to)) <= (IF from <= to THEN to - from + 1 ELSE 0)
<1> DEFINE L == Len(t)
           last == Min({to, L})
           p == SubSeq(t, from, last)
<1>1. L \in Nat /\ \A i \in 1..L : t[i] \in S
  BY LenProperties, ElementOfSeq
<1>2. last = IF to <= L THEN to ELSE L
  <2> DEFINE least(x) == x \in {to, L} /\ \A y \in {to, L} : x <= y
  <2>1. \E x : least(x)
    <3>1. least(to) \/ least(L)
      BY <1>1
    <3> HIDE DEF least
    <3> QED  BY <3>1
  <2>2. last = CHOOSE x : least(x)
    BY DEF Min
  <2>3. least(last)
    <3> HIDE DEF least, last
    <3> QED  BY <2>1, <2>2
  <2> HIDE DEF last, L
  <2> QED  BY <1>1, <2>3
<1> HIDE DEF last, L
<1>3. last \in Nat /\ last <= to /\ last <= L /\ \A i \in from..last : t[i] \in S
  BY <1>1, <1>2
<1>4. /\ p \in Seq(S) /\ Len(p) = IF from <= last THEN last - from + 1 ELSE 0
      /\ \A i \in 1..(last - from + 1) : p[i] = t[from + i - 1]
  BY <1>3, SubSeqProperties
<1>5. Piece(t, from, to) = p
  BY DEF Piece, last, L
<1> HIDE DEF p
<1>6. ASSUME NEW x \in Members(p) PROVE \E i \in 1..L : from <= i /\ i <= to /\ x = t[i]
  <2>1. PICK k \in 1..Len(p) : x = p[k]
    BY <1>6 DEF Members
  <2>2. k \in 1..(last - from + 1)
    BY <1>3, <1>4, <2>1
  <2>3. from + k - 1 \in 1..L /\ from <= from + k - 1 /\ from + k - 1 <= to /\ x = t[from + k - 1]
    BY <1>1, <1>3, <1>4, <2>1, <2>2
  <2> QED  BY <2>3
<1>7. ASSUME NEW i \in 1..L, from <= i, i <= to PROVE t[i] \in Members(p)
  <2> DEFINE k == i - from + 1
  <2>1. k \in 1..(last - from + 1) /\ from + k - 1 = i /\ from <= last
    BY <1>1, <1>2, <1>7
  <2> HIDE DEF k
  <2>2. k \in 1..Len(p) /\ p[k] = t[i]
    BY <1>4, <2>1
  <2> QED  BY <2>2 DEF Members
<1>8. Members(p) = {t[i] : i \in {j \in 1..L : from <= j /\ j <= to}}
  BY <1>6, <1>7
<1>9. Len(p) <= (IF from <= to THEN to - from + 1 ELSE 0)
  BY <1>1, <1>3, <1>4
<1> QED  BY <1>4, <1>5, <1>8, <1>9 DEF L

\* Windows keep what is in a text, and none is longer than asked for.
Windowed(windows, S, t, width) ==
    /\ windows \in Seq(Seq(S)) /\ Members(JoinOf(windows)) = Members(t)
    /\ \A x \in Members(windows) : Len(x) <= width

LEMMA WindowsKeep ==
  ASSUME NEW S, NEW t \in Seq(S), NEW width \in Nat \ {0}, NEW overlap \in Nat
  PROVE  Windowed(Windows(t, width, overlap), S, t, width)
<1> DEFINE L == Len(t)
           step == Advance(width, overlap)
           q == (L - width + step - 1) \div step
           count == IF L <= width THEN 1 ELSE 1 + q
           windows == Windows(t, width, overlap)
           from(n) == 1 + (n - 1) * step
           to(n) == (n - 1) * step + width
<1>1. L \in Nat /\ step \in Nat /\ 1 <= step /\ step <= width
  BY LenProperties, AdvanceIs
<1>2. windows = [n \in 1..count |-> Piece(t, from(n), to(n))]
  BY DEF Windows
<1> HIDE DEF step, windows
<1>3. count \in Nat
  <2>1. CASE L <= width
    BY <2>1
  <2>2. CASE width < L
    <3> HIDE DEF L
    <3>1. 1 \in 1..L
      BY <1>1, <2>2
    <3>2. q \in Nat
      BY <1>1, <2>2, <3>1, WindowsMeet
    <3> HIDE DEF q
    <3> QED  BY <3>2
  <2> HIDE DEF L
  <2> QED  BY <1>1, <2>1, <2>2
<1>4. ASSUME NEW i \in 1..L PROVE \E n \in 1..count : from(n) <= i /\ i <= to(n)
  <2>1. CASE L <= width
    <3>1. (1 - 1) * step = 0
      BY <1>1
    <3>2. from(1) = 1 /\ to(1) = width
      BY <3>1
    <3> HIDE DEF from, to, L
    <3>3. count = 1 /\ from(1) <= i /\ i <= to(1)
      BY <1>1, <2>1, <3>2
    <3> QED  BY <3>3
  <2>2. CASE width < L
    <3> HIDE DEF L
    <3>1. q \in Nat /\ \E n \in 1..(q + 1) : 1 + (n - 1) * step <= i /\ i <= (n - 1) * step + width
      BY <1>1, <2>2, WindowsMeet
    <3> HIDE DEF q
    <3>2. count = q + 1
      BY <1>1, <2>2, <3>1
    <3> QED  BY <3>1, <3>2
  <2> HIDE DEF L, count, from, to
  <2> QED  BY <1>1, <2>1, <2>2
<1> HIDE DEF count
<1>5. ASSUME NEW n \in 1..count PROVE from(n) \in Nat \ {0} /\ to(n) \in Nat /\ from(n) <= to(n) /\ to(n) - from(n) + 1 = width
  <2>1. PICK p \in Nat : p = (n - 1) * step
    BY <1>1, <1>3
  <2>2. from(n) = 1 + p /\ to(n) = p + width
    BY <2>1
  <2> HIDE DEF from, to
  <2> QED  BY <2>2
<1> HIDE DEF from, to
<1>6. ASSUME NEW n \in 1..count
      PROVE  /\ windows[n] \in Seq(S) /\ Len(windows[n]) <= width
             /\ Members(windows[n]) = {t[i] : i \in {j \in 1..L : from(n) <= j /\ j <= to(n)}}
  <2>1. windows[n] = Piece(t, from(n), to(n))
    BY <1>2
  <2>2. /\ Piece(t, from(n), to(n)) \in Seq(S)
        /\ Members(Piece(t, from(n), to(n))) = {t[i] : i \in {j \in 1..L : from(n) <= j /\ j <= to(n)}}
        /\ Len(Piece(t, from(n), to(n))) <= (IF from(n) <= to(n) THEN to(n) - from(n) + 1 ELSE 0)
    BY <1>5, PieceIs
  <2> QED  BY <1>5, <2>1, <2>2
<1>7. windows \in Seq(Seq(S)) /\ Len(windows) = count
  <2> DEFINE Y == Seq(S)
  <2>1. DOMAIN windows = 1..count /\ windows = [n \in 1..count |-> windows[n]] /\ \A n \in 1..count : windows[n] \in Y
    BY <1>2, <1>6
  <2> HIDE DEF Y
  <2>2. windows \in Seq(Y) /\ Len(windows) = count
    BY <1>3, <2>1
  <2> QED  BY <2>2 DEF Y
<1>8. Members(JoinOf(windows)) = UNION {Members(x) : x \in Members(windows)}
  BY <1>7, JoinMembers
<1>9. Members(windows) = {windows[n] : n \in 1..count}
  BY <1>7 DEF Members
<1>10. \A x \in Members(windows) : Len(x) <= width
  BY <1>6, <1>9
<1>11. ASSUME NEW e \in Members(t) PROVE e \in Members(JoinOf(windows))
  <2>1. PICK i \in 1..L : e = t[i]
    BY <1>11 DEF Members
  <2>2. PICK n \in 1..count : from(n) <= i /\ i <= to(n)
    BY <1>4
  <2>3. e \in Members(windows[n])
    BY <1>6, <2>1, <2>2
  <2> QED  BY <1>8, <1>9, <2>3
<1>12. ASSUME NEW e \in Members(JoinOf(windows)) PROVE e \in Members(t)
  <2>1. PICK n \in 1..count : e \in Members(windows[n])
    BY <1>8, <1>9, <1>12
  <2>2. e \in {t[i] : i \in {j \in 1..L : from(n) <= j /\ j <= to(n)}}
    BY <1>6, <2>1
  <2>3. PICK i \in 1..L : e = t[i]
    BY <2>2
  <2> QED  BY <2>3 DEF Members
<1>13. windows \in Seq(Seq(S)) /\ Members(JoinOf(windows)) = Members(t) /\ \A x \in Members(windows) : Len(x) <= width
  BY <1>7, <1>10, <1>11, <1>12
<1> QED  BY <1>13 DEF windows, Windowed

LEMMA FixedKeep ==
  ASSUME NEW t \in Seq(Glyphs)
  PROVE  /\ FixedChunks(t) \in Seq(Seq(Glyphs))
         /\ Members(JoinOf(FixedChunks(t))) \cap Letters = Members(t) \cap Letters
         /\ \A x \in Members(FixedChunks(t)) : Len(x) <= Size
<1>1. Size \in Nat \ {0} /\ Overlap \in Nat
  BY TextsAssumption
<1>2. CASE ~Blank(t)
  <2>1. FixedChunks(t) = Windows(t, Size, Overlap)
    BY <1>2 DEF FixedChunks
  <2>2. Windowed(FixedChunks(t), Glyphs, t, Size)
    BY <1>1, <2>1, WindowsKeep
  <2> QED  BY <2>2 DEF Windowed
<1>3. CASE Blank(t)
  <2>1. FixedChunks(t) = <<>>
    BY <1>3 DEF FixedChunks
  <2>2. Members(t) \cap Letters = {}
    BY <1>3, BlankHasNoLetter, KeepNothing DEF LettersOf
  <2>3. <<>> \in Seq(Seq(Glyphs)) /\ JoinOf(<<>>) = <<>> /\ Members(<<>>) = {}
    BY EmptySeq, JoinEmpty, MembersEmpty
  <2> QED  BY <2>1, <2>2, <2>3
<1> QED  BY <1>2, <1>3

LEMMA ChildrenKeep ==
  ASSUME NEW t \in Seq(Glyphs)
  PROVE  /\ ChildChunks(t) \in Seq(Seq(Glyphs))
         /\ Members(JoinOf(ChildChunks(t))) \cap Letters = Members(t) \cap Letters
         /\ \A x \in Members(ChildChunks(t)) : Len(x) <= ChildSize
<1> DEFINE parents == Parents(t)
           pieces == Pieces(t, Line)
           css == [n \in 1..Len(parents) |-> Children(parents[n])]
           Y == Seq(Glyphs)
<1>1. ChildSize \in Nat \ {0} /\ ChildOverlap \in Nat /\ MaxParent \in Nat
  BY TextsAssumption
<1>2. parents \in Seq(Seq(Glyphs)) /\ LettersOf(JoinOf(parents)) = LettersOf(t)
  <2>1. Line \in Separators
    BY DEF Separators, Line
  <2>2. pieces \in Seq(Seq(Glyphs)) /\ LettersOf(JoinOf(pieces)) = LettersOf(t)
    BY <2>1, PiecesKeep
  <2>3. parents = Merged(pieces, Line, MaxParent)
    BY DEF Parents
  <2> HIDE DEF pieces, parents
  <2> QED  BY <1>1, <2>1, <2>2, <2>3, MergedKeeps
<1>3. ChildChunks(t) = JoinOf(css)
  BY DEF ChildChunks
<1> HIDE DEF parents
<1>4. Len(parents) \in Nat /\ \A n \in 1..Len(parents) : parents[n] \in Seq(Glyphs)
  BY <1>2, LenProperties, ElementOfSeq
<1>5. ASSUME NEW n \in 1..Len(parents)
      PROVE  /\ css[n] \in Seq(Y) /\ Members(JoinOf(css[n])) = Members(parents[n])
             /\ \A x \in Members(css[n]) : Len(x) <= ChildSize
  <2>1. css[n] = Windows(parents[n], ChildSize, ChildOverlap) /\ parents[n] \in Seq(Glyphs)
    BY <1>4 DEF Children
  <2>2. Windowed(css[n], Glyphs, parents[n], ChildSize)
    BY <1>1, <2>1, WindowsKeep
  <2> QED  BY <2>2 DEF Windowed
<1>6. css \in Seq(Seq(Y)) /\ Len(css) = Len(parents)
  <2> DEFINE Z == Seq(Y)
  <2>1. DOMAIN css = 1..Len(parents) /\ css = [n \in 1..Len(parents) |-> css[n]] /\ \A n \in 1..Len(parents) : css[n] \in Z
    BY <1>5
  <2> HIDE DEF css, Z
  <2>2. css \in Seq(Z) /\ Len(css) = Len(parents)
    BY <1>4, <2>1
  <2> QED  BY <2>2 DEF Z
<1> HIDE DEF css
<1>7. Members(css) = {css[n] : n \in 1..Len(parents)} /\ Members(parents) = {parents[n] : n \in 1..Len(parents)}
  BY <1>6 DEF Members
<1>8. JoinOf(css) \in Seq(Y) /\ Members(JoinOf(css)) = UNION {Members(x) : x \in Members(css)}
  <2> HIDE DEF Y
  <2> QED  BY <1>6, JoinedLength, JoinMembers
<1>9. Members(JoinOf(JoinOf(css))) = UNION {Members(x) : x \in Members(JoinOf(css))}
  BY <1>8, JoinMembers
<1>10. Members(JoinOf(parents)) = UNION {Members(x) : x \in Members(parents)}
  BY <1>2, JoinMembers
<1>11. \A n \in 1..Len(parents) : Members(parents[n]) = UNION {Members(x) : x \in Members(css[n])}
  BY <1>5, JoinMembers
<1>12. Members(JoinOf(JoinOf(css))) = Members(JoinOf(parents))
  <2>1. ASSUME NEW e \in Members(JoinOf(JoinOf(css))) PROVE e \in Members(JoinOf(parents))
    <3>1. PICK x \in Members(JoinOf(css)) : e \in Members(x)
      BY <1>9, <2>1
    <3>2. PICK n \in 1..Len(parents) : x \in Members(css[n])
      BY <1>7, <1>8, <3>1
    <3> QED  BY <1>7, <1>10, <1>11, <3>1, <3>2
  <2>2. ASSUME NEW e \in Members(JoinOf(parents)) PROVE e \in Members(JoinOf(JoinOf(css)))
    <3>1. PICK n \in 1..Len(parents) : e \in Members(parents[n])
      BY <1>7, <1>10, <2>2
    <3>2. PICK x \in Members(css[n]) : e \in Members(x)
      BY <1>11, <3>1
    <3>3. x \in Members(JoinOf(css))
      BY <1>7, <1>8, <3>2
    <3> QED  BY <1>9, <3>2, <3>3
  <2> QED  BY <2>1, <2>2
<1>13. Members(JoinOf(parents)) \cap Letters = Members(t) \cap Letters
  <2>1. JoinOf(parents) \in Seq(Glyphs)
    BY <1>2, JoinedLength
  <2>2. Members(Keep(JoinOf(parents), Letters)) = Members(JoinOf(parents)) \cap Letters
    BY <2>1, KeepMembers
  <2>3. Members(Keep(t, Letters)) = Members(t) \cap Letters
    BY KeepMembers
  <2> QED  BY <1>2, <2>2, <2>3 DEF LettersOf
<1>14. ASSUME NEW x \in Members(JoinOf(css)) PROVE Len(x) <= ChildSize
  <2>1. PICK n \in 1..Len(parents) : x \in Members(css[n])
    BY <1>7, <1>8, <1>14
  <2> QED  BY <1>5, <2>1
<1> QED  BY <1>3, <1>8, <1>12, <1>13, <1>14

-----------------------------------------------------------------------------
(* Nothing is repeated, and every letter is in its place.                   *)

\* No element is in a sequence twice.
Unrepeated(s) == \A i, j \in 1..Len(s) : s[i] = s[j] => i = j

LEMMA UnrepeatedAppend ==
  ASSUME NEW S, NEW s \in Seq(S), NEW e \in S
  PROVE  Unrepeated(Append(s, e)) <=> Unrepeated(s) /\ e \notin Members(s)
<1> DEFINE t == Append(s, e)
           L == Len(s)
<1>1. L \in Nat /\ Len(t) = L + 1 /\ t[L + 1] = e /\ \A i \in 1..L : t[i] = s[i]
  BY LenProperties, AppendProperties
<1> HIDE DEF t, L
<1>2. ASSUME Unrepeated(t) PROVE Unrepeated(s) /\ e \notin Members(s)
  <2>1. \A i, j \in 1..L : s[i] = s[j] => i = j
    BY <1>1, <1>2 DEF Unrepeated
  <2>2. \A i \in 1..L : s[i] # e
    BY <1>1, <1>2 DEF Unrepeated
  <2> QED  BY <2>1, <2>2 DEF Unrepeated, Members, L
<1>3. ASSUME Unrepeated(s), e \notin Members(s) PROVE Unrepeated(t)
  <2>1. \A i \in 1..L : s[i] # e
    BY <1>3 DEF Members, L
  <2>2. \A i, j \in 1..L : s[i] = s[j] => i = j
    BY <1>3 DEF Unrepeated, L
  <2> QED  BY <1>1, <2>1, <2>2 DEF Unrepeated
<1> QED  BY <1>2, <1>3 DEF t

\* What is kept of a sequence repeats nothing if the sequence does not.
LEMMA KeepUnrepeated ==
  ASSUME NEW S, NEW s \in Seq(S), NEW K, Unrepeated(s)
  PROVE  Unrepeated(Keep(s, K))
<1> DEFINE Holds(u) == Unrepeated(u) => Unrepeated(Keep(u, K))
           T == {u \in Seq(S) : Holds(u)}
<1>1. <<>> \in T
  BY EmptySeq, KeepEmpty
<1>2. ASSUME NEW u \in Seq(S), NEW e \in S, u \in T PROVE Append(u, e) \in T
  <2> DEFINE k == Keep(u, K)
  <2>1. Append(u, e) \in Seq(S)
    BY AppendProperties
  <2>2. k \in Seq(S) /\ Members(k) \subseteq Members(u)
    <3>1. Keep(u, K) \in Seq(S) /\ Members(Keep(u, K)) = Members(u) \cap K
      BY KeepMembers
    <3> QED  BY <3>1
  <2>3. Keep(Append(u, e), K) = IF e \in K THEN Append(k, e) ELSE k
    BY KeepAppend
  <2>4. Unrepeated(u) => Unrepeated(k)
    BY <1>2
  <2> HIDE DEF k
  <2>5. Unrepeated(Append(u, e)) => Unrepeated(u) /\ e \notin Members(u)
    BY UnrepeatedAppend
  <2>6. Unrepeated(k) /\ e \notin Members(k) => Unrepeated(Append(k, e))
    BY <2>2, UnrepeatedAppend
  <2> QED  BY <2>1, <2>2, <2>3, <2>4, <2>5, <2>6
<1>3. Seq(S) \subseteq T
  <2> HIDE DEF T
  <2> QED  BY <1>1, <1>2, Growing
<1> QED  BY <1>3

LEMMA UnrepeatedParts ==
  ASSUME NEW S, NEW s \in Seq(S), NEW t \in Seq(S), Unrepeated(s \o t)
  PROVE  Members(s) \cap Members(t) = {}
<1> DEFINE both == s \o t
           L == Len(s)
           M == Len(t)
<1>1. /\ L \in Nat /\ M \in Nat /\ Len(both) = L + M
      /\ \A i \in 1..(L + M) : both[i] = IF i <= L THEN s[i] ELSE t[i - L]
  BY LenProperties, ConcatProperties
<1>2. Unrepeated(both)
  OBVIOUS
<1> HIDE DEF both
<1>3. ASSUME NEW i \in 1..L, NEW j \in 1..M PROVE s[i] # t[j]
  <2>1. i \in 1..(L + M) /\ L + j \in 1..(L + M) /\ i # L + j /\ ~(L + j <= L) /\ (L + j) - L = j
    BY <1>1
  <2> HIDE DEF L, M
  <2>2. both[i] = s[i] /\ both[L + j] = t[j]
    BY <1>1, <2>1
  <2> QED  BY <1>1, <1>2, <2>1, <2>2 DEF Unrepeated
<1> QED  BY <1>3 DEF Members

\* Of the chunks of a text that repeats nothing, no two have the same letter.
LEMMA ChunksApart ==
  ASSUME NEW t \in Seq(Glyphs), Unrepeated(t), NEW chunks, Whole(chunks, t),
         NEW m \in 1..Len(chunks), NEW n \in 1..Len(chunks), m < n
  PROVE  Members(chunks[m]) \cap Members(chunks[n]) \cap Letters = {}
<1> DEFINE L == Len(chunks)
           Y == Seq(Glyphs)
           a == SubSeq(chunks, 1, m)
           b == SubSeq(chunks, m + 1, L)
           ja == JoinOf(a)
           jb == JoinOf(b)
<1>1. chunks \in Seq(Y) /\ L \in Nat /\ LettersOf(JoinOf(chunks)) = LettersOf(t)
  BY LenProperties DEF Whole
<1>2. \A i \in 1..L : chunks[i] \in Y
  BY <1>1, ElementOfSeq
<1> HIDE DEF Y, L
<1>3. m \in 1..L /\ n \in 1..L
  BY DEF L
<1>4. a \in Seq(Y) /\ Len(a) = m /\ \A i \in 1..m : a[i] = chunks[i]
  <2>1. \A i \in 1..m : chunks[i] \in Y
    BY <1>1, <1>2, <1>3
  <2>2. /\ a \in Seq(Y) /\ Len(a) = IF 1 <= m THEN m - 1 + 1 ELSE 0
        /\ \A i \in 1..(m - 1 + 1) : a[i] = chunks[1 + i - 1]
    BY <1>3, <2>1, SubSeqProperties
  <2> HIDE DEF a
  <2> QED  BY <1>1, <1>3, <2>2
<1>5. b \in Seq(Y) /\ Len(b) = L - m /\ \A i \in 1..(L - m) : b[i] = chunks[m + i]
  <2>1. \A i \in (m + 1)..L : chunks[i] \in Y
    BY <1>1, <1>2, <1>3
  <2>2. /\ b \in Seq(Y) /\ Len(b) = IF m + 1 <= L THEN L - (m + 1) + 1 ELSE 0
        /\ \A i \in 1..(L - (m + 1) + 1) : b[i] = chunks[(m + 1) + i - 1]
    <3>1. m + 1 \in Int /\ L \in Int
      BY <1>1, <1>3
    <3> QED  BY ONLY <2>1, <3>1, SubSeqProperties
  <2>3. /\ L - (m + 1) + 1 = L - m /\ (IF m + 1 <= L THEN L - (m + 1) + 1 ELSE 0) = L - m
        /\ \A i \in 1..(L - m) : (m + 1) + i - 1 = m + i
    BY ONLY <1>1, <1>3
  <2> HIDE DEF b
  <2>4. \A i \in 1..(L - m) : b[i] = chunks[(m + 1) + i - 1]
    BY ONLY <2>2, <2>3
  <2>5. \A i \in 1..(L - m) : b[i] = chunks[m + i]
    BY ONLY <2>3, <2>4
  <2> QED  BY ONLY <2>2, <2>3, <2>5
<1>6. a \o b = chunks
  <2>1. 1 \in 1..(Len(chunks) + 1) /\ m \in (1 - 1)..Len(chunks) /\ Len(chunks) \in m..Len(chunks)
    BY <1>1, <1>3 DEF L
  <2>2. a \o b = SubSeq(chunks, 1, Len(chunks))
    BY <1>1, <2>1, ConcatAdjacentSubSeq DEF L
  <2> QED  BY <1>1, <2>2, SubSeqFull
<1> HIDE DEF a, b
<1>7. ja \in Seq(Glyphs) /\ jb \in Seq(Glyphs) /\ JoinOf(chunks) = ja \o jb
  <2>1. a \in Seq(Seq(Glyphs)) /\ b \in Seq(Seq(Glyphs))
    BY <1>4, <1>5 DEF Y
  <2>2. JoinOf(a \o b) = ja \o jb
    BY <2>1, JoinConcat
  <2> QED  BY <1>6, <2>1, <2>2, JoinedLength
<1> HIDE DEF ja, jb
<1>8. Keep(ja, Letters) \in Seq(Glyphs) /\ Keep(jb, Letters) \in Seq(Glyphs)
      /\ Members(Keep(ja, Letters)) = Members(ja) \cap Letters
      /\ Members(Keep(jb, Letters)) = Members(jb) \cap Letters
  BY <1>7, KeepMembers
<1>9. Members(Keep(ja, Letters)) \cap Members(Keep(jb, Letters)) = {}
  <2>1. KeptOfBoth(ja, jb, Letters)
    BY <1>7, KeepConcat
  <2>2. Keep(ja, Letters) \o Keep(jb, Letters) = Keep(t, Letters)
    BY <1>1, <1>7, <2>1 DEF KeptOfBoth, LettersOf
  <2>3. Unrepeated(Keep(t, Letters))
    BY KeepUnrepeated
  <2>4. Unrepeated(Keep(ja, Letters) \o Keep(jb, Letters))
    BY <2>2, <2>3
  <2> QED  BY <1>8, <2>4, UnrepeatedParts
<1>10. Members(chunks[m]) \subseteq Members(ja)
  <2>1. m \in 1..Len(a) /\ a[m] = chunks[m]
    BY <1>3, <1>4, <1>1
  <2>2. chunks[m] \in Members(a)
    BY <2>1 DEF Members
  <2>3. Members(ja) = UNION {Members(x) : x \in Members(a)}
    BY <1>4, JoinMembers DEF ja, Y
  <2> QED  BY <2>2, <2>3
<1>11. Members(chunks[n]) \subseteq Members(jb)
  <2>1. n - m \in 1..(L - m) /\ m + (n - m) = n
    BY <1>1, <1>3
  <2>2. n - m \in 1..Len(b) /\ b[n - m] = chunks[n]
    BY <1>5, <2>1
  <2>3. chunks[n] \in Members(b)
    BY <2>2 DEF Members
  <2>4. Members(jb) = UNION {Members(x) : x \in Members(b)}
    BY <1>5, JoinMembers DEF jb, Y
  <2> QED  BY <2>3, <2>4
<1> QED  BY <1>8, <1>9, <1>10, <1>11

\* The places of the letters of a text.
LEMMA PlacesAre ==
  ASSUME NEW t \in Seq(Glyphs)
  PROVE  Places(t) = {x[2] : x \in Members(t) \cap Letters}
<1>1. DOMAIN t = 1..Len(t) /\ \A n \in 1..Len(t) : t[n] \in Glyphs
  BY LenProperties, ElementOfSeq
<1>2. \A x \in Glyphs : x \in Letters <=> x[1] = Letter
  BY DEF Glyphs, Letters, Characters
<1>3. ASSUME NEW p \in Places(t) PROVE p \in {x[2] : x \in Members(t) \cap Letters}
  <2>1. PICK n \in 1..Len(t) : t[n][1] = Letter /\ p = t[n][2]
    BY <1>1, <1>3 DEF Places
  <2>2. t[n] \in Members(t) /\ t[n] \in Letters
    BY <1>1, <1>2, <2>1 DEF Members
  <2> QED  BY <2>1, <2>2
<1>4. ASSUME NEW x \in Members(t) \cap Letters PROVE x[2] \in Places(t)
  <2>1. PICK n \in 1..Len(t) : x = t[n]
    BY DEF Members
  <2>2. t[n][1] = Letter
    BY <1>1, <1>2, <2>1
  <2> QED  BY <1>1, <2>1, <2>2 DEF Places
<1> QED  BY <1>3, <1>4

LEMMA CoversWhen ==
  ASSUME NEW t \in Seq(Glyphs), NEW chunks \in Seq(Seq(Glyphs)),
         Members(JoinOf(chunks)) \cap Letters = Members(t) \cap Letters
  PROVE  Covers(chunks, t)
<1> DEFINE Y == Seq(Glyphs)
<1>1. DOMAIN chunks = 1..Len(chunks) /\ \A n \in 1..Len(chunks) : chunks[n] \in Seq(Glyphs)
  <2>1. chunks \in Seq(Y)
    OBVIOUS
  <2> HIDE DEF Y
  <2>2. DOMAIN chunks = 1..Len(chunks) /\ \A n \in 1..Len(chunks) : chunks[n] \in Y
    BY <2>1, LenProperties, ElementOfSeq
  <2> QED  BY <2>2 DEF Y
<1>2. Members(JoinOf(chunks)) = UNION {Members(x) : x \in Members(chunks)}
  BY JoinMembers
<1>3. \A n \in 1..Len(chunks) : Places(chunks[n]) = {x[2] : x \in Members(chunks[n]) \cap Letters}
  BY <1>1, PlacesAre
<1>4. Places(t) = {x[2] : x \in Members(t) \cap Letters}
  BY PlacesAre
<1>5. ASSUME NEW n \in 1..Len(chunks), NEW p \in Places(chunks[n]) PROVE p \in Places(t)
  <2>1. PICK x \in Members(chunks[n]) \cap Letters : p = x[2]
    BY <1>3
  <2>2. chunks[n] \in Members(chunks)
    BY DEF Members
  <2>3. x \in Members(JoinOf(chunks))
    BY <1>2, <2>1, <2>2
  <2>4. x \in Members(t) \cap Letters
    BY <2>1, <2>3
  <2> QED  BY <1>4, <2>1, <2>4
<1>6. ASSUME NEW p \in Places(t) PROVE \E n \in 1..Len(chunks) : p \in Places(chunks[n])
  <2>1. PICK x \in Members(t) \cap Letters : p = x[2]
    BY <1>4
  <2>2. PICK y \in Members(chunks) : x \in Members(y)
    BY <1>2, <2>1
  <2>3. PICK n \in 1..Len(chunks) : y = chunks[n]
    BY DEF Members
  <2> QED  BY <1>3, <2>1, <2>2, <2>3
<1>7. UNION {Places(chunks[n]) : n \in DOMAIN chunks} = Places(t)
  BY <1>1, <1>5, <1>6
<1> QED  BY <1>7 DEF Covers

-----------------------------------------------------------------------------
(* Headers                                                                  *)

\* Titles that are not numbered keep keys of their own.
LEMMA HeadersApart ==
  ASSUME NEW row \in Seq(Names), \A n \in DOMAIN row : Len(row[n]) < 2
  PROVE  IsInjective(Headers(row))
<1> DEFINE L == Len(row)
           M == {"h", "col"} \cup Int
           bases == [n \in 1..L |-> IF row[n] = <<>> THEN <<"col", n - 1>> ELSE row[n]]
           Before(n) == {m \in 1..(n - 1) : bases[m] = bases[n]}
           times(n) == Cardinality(Before(n))
           heads == [n \in 1..L |-> IF times(n) = 0 THEN bases[n] ELSE Append(bases[n], times(n))]
<1>1. L \in Nat /\ DOMAIN row = 1..L /\ \A n \in 1..L : row[n] \in Names /\ Len(row[n]) < 2
  BY LenProperties, ElementOfSeq
<1>2. Headers(row) = heads
  BY DEF Headers
<1>3. ASSUME NEW n \in 1..L
      PROVE  bases[n] = <<"h">> \/ bases[n] = <<"col", n - 1>>
  <2>1. row[n] \in {<<>>, <<"h">>, <<"h", 1>>}
    BY <1>1 DEF Names
  <2>2. row[n] # <<"h", 1>>
    <3> DEFINE x == <<"h", 1>>
    <3>1. Len(x) = 2
      OBVIOUS
    <3>2. Len(row[n]) < 2
      BY <1>1
    <3> HIDE DEF x
    <3>3. row[n] # x
      <4> SUFFICES ASSUME row[n] = x PROVE FALSE
        OBVIOUS
      <4>1. Len(row[n]) = 2
        BY ONLY <3>1, row[n] = x
      <4>2. ~(2 < 2)
        OBVIOUS
      <4> QED BY ONLY <3>2, <4>1, <4>2
    <3> QED  BY <3>3 DEF x
  <2> QED  BY <2>1, <2>2
<1> HIDE DEF bases
<1>4. ASSUME NEW n \in 1..L
      PROVE  /\ bases[n] \in Seq(M) /\ Len(bases[n]) \in {1, 2}
             /\ bases[n] = <<"h">> \/ (Len(bases[n]) = 2 /\ bases[n][1] = "col" /\ bases[n][2] = n - 1)
  <2>1. CASE bases[n] = <<"h">>
    BY <2>1
  <2>2. CASE bases[n] = <<"col", n - 1>>
    BY <1>1, <2>2
  <2> QED  BY <1>3, <2>1, <2>2
<1>5. ASSUME NEW n \in 1..L PROVE IsFiniteSet(Before(n)) /\ times(n) \in Nat
  <2>1. IsFiniteSet(1..(n - 1))
    BY <1>1, FS_Interval
  <2>2. Before(n) \in SUBSET (1..(n - 1))
    OBVIOUS
  <2> QED  BY <2>1, <2>2, FS_Subset, FS_CardinalityType
<1>6. ASSUME NEW a \in 1..L, NEW b \in 1..L, a < b, bases[a] = bases[b] PROVE times(a) < times(b)
  <2>1. Before(a) \cup {a} \subseteq Before(b) /\ a \notin Before(a)
    BY <1>1, <1>6
  <2> DEFINE A == Before(a)
             B == Before(b)
  <2>2. IsFiniteSet(A) /\ IsFiniteSet(B) /\ Cardinality(A) \in Nat /\ Cardinality(B) \in Nat /\ A \cup {a} \in SUBSET B /\ a \notin A
    BY <1>5, <2>1
  <2>3. times(a) = Cardinality(A) /\ times(b) = Cardinality(B)
    OBVIOUS
  <2> HIDE DEF A, B, times
  <2>4. Cardinality(A \cup {a}) = Cardinality(A) + 1
    BY <2>2, FS_AddElement
  <2>5. Cardinality(A \cup {a}) <= Cardinality(B)
    BY <2>2, FS_Subset
  <2> QED  BY <2>2, <2>3, <2>4, <2>5
<1> HIDE DEF times
<1>7. ASSUME NEW n \in 1..L
      PROVE  /\ heads[n] = (IF times(n) = 0 THEN bases[n] ELSE Append(bases[n], times(n)))
             /\ heads[n] \in Seq(M)
             /\ Len(heads[n]) = (IF times(n) = 0 THEN Len(bases[n]) ELSE Len(bases[n]) + 1)
             /\ \A i \in 1..Len(bases[n]) : heads[n][i] = bases[n][i]
  <2>1. times(n) \in M /\ bases[n] \in Seq(M)
    <3>1. times(n) \in Nat
      BY <1>5
    <3>2. bases[n] \in Seq(M)
      BY <1>4
    <3>3. times(n) \in M
      BY <3>1
    <3> QED  BY <3>2, <3>3
  <2>2. heads[n] = (IF times(n) = 0 THEN bases[n] ELSE Append(bases[n], times(n)))
    OBVIOUS
  <2> HIDE DEF heads, M
  <2>3. /\ Append(bases[n], times(n)) \in Seq(M) /\ Len(Append(bases[n], times(n))) = Len(bases[n]) + 1
        /\ \A i \in 1..Len(bases[n]) : Append(bases[n], times(n))[i] = bases[n][i]
    BY <2>1, AppendProperties
  <2> QED  BY <2>1, <2>2, <2>3
<1> HIDE DEF heads
<1>8. ASSUME NEW a \in 1..L, NEW b \in 1..L, a < b, heads[a] = heads[b] PROVE FALSE
  <2>1. CASE bases[a] = bases[b]
    <3>1. times(a) < times(b) /\ times(a) \in Nat /\ times(b) \in Nat
      BY <1>5, <1>6, <1>8, <2>1
    <3>2. Len(bases[a]) \in {1, 2} /\ Len(bases[b]) = Len(bases[a])
      BY <1>4, <2>1
    <3>3. times(a) # 0
      <4> SUFFICES ASSUME times(a) = 0 PROVE FALSE
        OBVIOUS
      <4>1. times(b) # 0
        BY <3>1
      <4>2. Len(heads[a]) = Len(bases[a])
        BY <1>7
      <4>3. Len(heads[b]) = Len(bases[b]) + 1
        BY <1>7, <4>1
      <4> QED  BY <1>8, <3>2, <4>2, <4>3
    <3>4. Append(bases[a], times(a)) = Append(bases[a], times(b))
      <4>1. times(b) # 0
        BY <3>1
      <4>2. heads[a] = Append(bases[a], times(a))
        BY <1>7, <3>3
      <4>3. heads[b] = Append(bases[b], times(b))
        BY <1>7, <4>1
      <4> QED  BY <1>8, <2>1, <4>2, <4>3
    <3>5. bases[a] \in Seq(M) /\ times(a) \in M /\ times(b) \in M
      BY <1>4, <3>1
    <3>6. times(a) = times(b)
      <4> HIDE DEF M
      <4> QED  BY <3>4, <3>5, AppendInjective
    <3> QED  BY <3>1, <3>6
  <2>2. CASE bases[a] # bases[b]
    <3>1. Len(bases[a]) \in {1, 2} /\ Len(bases[b]) \in {1, 2}
      BY <1>4
    <3>2. heads[a][1] = bases[a][1] /\ heads[b][1] = bases[b][1]
      BY <1>7, <3>1
    <3>3. bases[a][1] = bases[b][1]
      BY <1>8, <3>2
    <3>4. "h" # "col" /\ \A n \in 1..L : bases[n] = <<"h">> => bases[n][1] = "h"
      OBVIOUS
    <3>5. CASE bases[a] = <<"h">>
      <4>1. bases[b] = <<"h">>
        BY <1>4, <3>3, <3>4, <3>5
      <4> QED  BY <2>2, <3>5, <4>1
    <3>6. CASE bases[a] # <<"h">>
      <4>1. bases[b] # <<"h">>
        BY <1>4, <3>3, <3>4, <3>6
      <4>2. Len(bases[a]) = 2 /\ Len(bases[b]) = 2 /\ bases[a][2] = a - 1 /\ bases[b][2] = b - 1
        BY <1>4, <3>6, <4>1
      <4>3. heads[a][2] = a - 1 /\ heads[b][2] = b - 1
        BY <1>7, <4>2
      <4> QED  BY <1>1, <1>8, <4>3
    <3> QED  BY <3>5, <3>6
  <2> QED  BY <2>1, <2>2
<1>9. DOMAIN heads = 1..L
  BY DEF heads
<1>10. \A a, b \in 1..L : heads[a] = heads[b] => a = b
  <2> SUFFICES ASSUME NEW a \in 1..L, NEW b \in 1..L, heads[a] = heads[b], a # b PROVE FALSE
    OBVIOUS
  <2>1. a < b \/ b < a
    BY <1>1
  <2> QED  BY <1>8, <2>1
<1> QED  BY <1>2, <1>9, <1>10 DEF IsInjective

-----------------------------------------------------------------------------
(* The theorem                                                              *)

\* What is typed are characters, each with its place, and names.
TextsInv ==
    /\ typed \in Seq(Glyphs) /\ \A n \in 1..Len(typed) : typed[n][2] = n
    /\ cells \in Seq(Names)

LEMMA TextsInvHolds == TextsSpec => []TextsInv
<1>1. TextsInit => TextsInv
  BY EmptySeq DEF TextsInit, TextsInv
<1>2. TextsInv /\ [TextsNext]_textVars => TextsInv'
  <2> SUFFICES ASSUME TextsInv, [TextsNext]_textVars PROVE TextsInv'
    OBVIOUS
  <2>1. CASE TypeCharacter
    <3>1. PICK c \in Characters : typed' = Append(typed, <<c, Len(typed) + 1>>)
      BY <2>1 DEF TypeCharacter
    <3> DEFINE e == <<c, Len(typed) + 1>>
    <3>2. typed \in Seq(Glyphs) /\ Len(typed) \in Nat /\ cells \in Seq(Names) /\ cells' = cells
      BY <2>1, LenProperties DEF TextsInv, TypeCharacter
    <3>3. e \in Glyphs /\ e[2] = Len(typed) + 1
      BY <3>2 DEF Glyphs
    <3> HIDE DEF e
    <3>4. /\ typed' \in Seq(Glyphs) /\ Len(typed') = Len(typed) + 1
          /\ typed'[Len(typed) + 1] = e /\ \A n \in 1..Len(typed) : typed'[n] = typed[n]
      BY <3>1, <3>2, <3>3, AppendProperties DEF e
    <3>5. ASSUME NEW n \in 1..Len(typed') PROVE typed'[n][2] = n
      <4>1. n \in 1..Len(typed) \/ n = Len(typed) + 1
        BY <3>2, <3>4
      <4> QED  BY <3>3, <3>4, <4>1 DEF TextsInv
    <3> QED  BY <3>2, <3>4, <3>5 DEF TextsInv
  <2>2. CASE AddColumn
    <3>1. PICK name \in Names : cells' = Append(cells, name)
      BY <2>2 DEF AddColumn
    <3>2. cells' \in Seq(Names) /\ typed' = typed
      BY <2>2, <3>1, AppendProperties DEF TextsInv, AddColumn
    <3> QED  BY <3>2 DEF TextsInv
  <2>3. CASE UNCHANGED textVars
    BY <2>3 DEF textVars, TextsInv
  <2> QED  BY <2>1, <2>2, <2>3 DEF TextsNext
<1> QED  BY <1>1, <1>2, PTL DEF TextsSpec

LEMMA TextsInvIsEnough == TextsInv => TextsSurvive
<1> SUFFICES ASSUME TextsInv PROVE TextsSurvive
  OBVIOUS
<1>1. typed \in Seq(Glyphs) /\ cells \in Seq(Names)
  BY DEF TextsInv
<1>2. Unrepeated(typed)
  BY DEF TextsInv, Unrepeated
<1>3. Chunked(RecursiveChunks(typed), typed)
  BY <1>1, RecursiveIsChunked
<1> DEFINE chunks == RecursiveChunks(typed)
           Y == Seq(Glyphs)
<1>4. chunks \in Seq(Y) /\ LettersOf(JoinOf(chunks)) = LettersOf(typed)
  BY <1>3 DEF Chunked, Whole
<1>5. DOMAIN chunks = 1..Len(chunks) /\ \A n \in 1..Len(chunks) : chunks[n] \in Y
  <2> HIDE DEF Y, chunks
  <2> QED  BY <1>4, LenProperties, ElementOfSeq
<1>6. ChunksCoverText
  <2>1. Covers(FixedChunks(typed), typed)
    BY <1>1, FixedKeep, CoversWhen
  <2>2. Covers(chunks, typed)
    <3> HIDE DEF chunks
    <3>1. JoinOf(chunks) \in Seq(Glyphs)
      BY <1>4, JoinedLength
    <3>2. Members(JoinOf(chunks)) \cap Letters = Members(typed) \cap Letters
      <4>1. Members(Keep(JoinOf(chunks), Letters)) = Members(JoinOf(chunks)) \cap Letters
        BY <3>1, KeepMembers
      <4>2. Members(Keep(typed, Letters)) = Members(typed) \cap Letters
        BY <1>1, KeepMembers
      <4> QED  BY <1>4, <4>1, <4>2 DEF LettersOf
    <3> QED  BY <1>1, <1>4, <3>2, CoversWhen
  <2>3. Covers(SemanticChunks(typed), typed)
    BY <1>1, SemanticKeeps, CoversWhen
  <2>4. Covers(ChildChunks(typed), typed)
    BY <1>1, ChildrenKeep, CoversWhen
  <2> QED  BY <2>1, <2>2, <2>3, <2>4 DEF ChunksCoverText
<1>7. \A n \in DOMAIN chunks : Len(chunks[n]) <= Size
  <2>1. \A x \in Members(chunks) : Len(x) <= Size
    BY <1>3 DEF Chunked
  <2> HIDE DEF chunks
  <2> QED  BY <1>5, <2>1 DEF Members
<1>8. ASSUME NEW m \in DOMAIN chunks, NEW n \in DOMAIN chunks, m # n
      PROVE  Places(chunks[m]) \cap Places(chunks[n]) = {}
  <2>1. m \in 1..Len(chunks) /\ n \in 1..Len(chunks) /\ chunks[m] \in Seq(Glyphs) /\ chunks[n] \in Seq(Glyphs)
    BY <1>5
  <2>2. Whole(chunks, typed)
    BY <1>3 DEF Chunked
  <2> HIDE DEF chunks
  <2>3. m \in Int /\ n \in Int
    BY <2>1
  <2>4. m < n \/ n < m
    BY <1>8, <2>3
  <2>5. Members(chunks[m]) \cap Members(chunks[n]) \cap Letters = {}
    <3>1. CASE m < n
      BY <1>1, <1>2, <2>1, <2>2, <3>1, ChunksApart
    <3>2. CASE n < m
      <4>1. Members(chunks[n]) \cap Members(chunks[m]) \cap Letters = {}
        BY <1>1, <1>2, <2>1, <2>2, <3>2, ChunksApart
      <4> QED  BY <4>1
    <3> QED  BY <2>4, <3>1, <3>2
  <2>6. /\ Places(chunks[m]) = {x[2] : x \in Members(chunks[m]) \cap Letters}
        /\ Places(chunks[n]) = {x[2] : x \in Members(chunks[n]) \cap Letters}
    BY <2>1, PlacesAre
  <2>7. \A x, y \in Letters : x[2] = y[2] => x = y
    BY DEF Letters
  <2> SUFFICES ASSUME NEW p \in Places(chunks[m]) \cap Places(chunks[n]) PROVE FALSE
    OBVIOUS
  <2>8. PICK x \in Members(chunks[m]) \cap Letters : p = x[2]
    BY <2>6
  <2>9. PICK y \in Members(chunks[n]) \cap Letters : p = y[2]
    BY <2>6
  <2> QED  BY <2>5, <2>7, <2>8, <2>9
<1>9. \A n \in DOMAIN FixedChunks(typed) : Len(FixedChunks(typed)[n]) <= Size
  <2> DEFINE w == FixedChunks(typed)
  <2>1. w \in Seq(Y) /\ \A x \in Members(w) : Len(x) <= Size
    BY <1>1, FixedKeep
  <2> HIDE DEF w, Y
  <2>2. DOMAIN w = 1..Len(w)
    BY <2>1, LenProperties
  <2>3. \A n \in DOMAIN w : Len(w[n]) <= Size
    BY <2>1, <2>2 DEF Members
  <2> QED  BY <2>3 DEF w
<1>10. \A n \in DOMAIN ChildChunks(typed) : Len(ChildChunks(typed)[n]) <= ChildSize
  <2> DEFINE w == ChildChunks(typed)
  <2>1. w \in Seq(Y) /\ \A x \in Members(w) : Len(x) <= ChildSize
    BY <1>1, ChildrenKeep
  <2> HIDE DEF w, Y
  <2>2. DOMAIN w = 1..Len(w)
    BY <2>1, LenProperties
  <2>3. \A n \in DOMAIN w : Len(w[n]) <= ChildSize
    BY <2>1, <2>2 DEF Members
  <2> QED  BY <2>3 DEF w
<1>11. ChunksFit
  BY <1>7, <1>8, <1>9, <1>10 DEF ChunksFit
<1>12. HeadersDistinct
  BY <1>1, HeadersApart DEF HeadersDistinct
<1> QED  BY <1>6, <1>11, <1>12 DEF TextsSurvive

\* Whatever is typed, no chunker loses a letter, no chunk is longer than asked
\* for, no two recursive chunks share a letter, and every title that is not
\* numbered keeps a key of its own (rag_agent/chunking.py:163-433,
\* ingestion_agent/chunking.py:115-143, ingestion_agent/parsers.py, _grid_to_table).
THEOREM TextsAreKept == TextsSpec => []TextsSurvive
  BY TextsInvHolds, TextsInvIsEnough, PTL
=============================================================================
