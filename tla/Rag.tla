-------------------------------- MODULE Rag --------------------------------
(***************************************************************************)
(* The tools of the RAG agent: rag_ingest works in a thread, rag_search    *)
(* and rag_answer in the event loop.  A call of rag_ingest names the Qdrant*)
(* collection it stores in; they all share one hybrid engine, which every  *)
(* ingest replaces whatever its collection, and whose vector leg asks the  *)
(* default collection only; its setting top_k_final belongs to all the     *)
(* searches that use it.  A text is told by its                            *)
(* document and page; a chunk's id by its source and its number within its *)
(* page, since the parsers give a page no id of its own.                   *)
(***************************************************************************)
EXTENDS Integers, Sequences, FiniteSets, FiniteSetsExt, SequencesExt, Filters

CONSTANTS
    RagIngests,     \* calls of rag_ingest
    RagCollections, \* names of collections, DefaultCollection ("fde_knowledge") among them
    DefaultCollection,
    RagSearches,    \* calls of rag_search and rag_answer
    DocLists,       \* lists of documents a call may ask for
    PagesOf,        \* chunks of each page of a document
    MaxChunks,      \* of a page at most
    TopKs,          \* values of top_k
    RrfK,           \* the constant of the fusion (60)
    TopKEach        \* results of each leg at most (20)

ASSUME RagAssumption ==
    /\ DefaultCollection \in RagCollections
    /\ IsFiniteSet(DOMAIN PagesOf) /\ DocLists \subseteq Seq(DOMAIN PagesOf)
    /\ MaxChunks \in Nat /\ \A d \in DOMAIN PagesOf : PagesOf[d] \in Seq(0..MaxChunks)
    /\ TopKs \subseteq Nat /\ RrfK \in Nat /\ TopKEach \in 1..(RrfK + 1)

VARIABLES
    created,    \* the collections that exist
    points,     \* the page whose text each point of a collection holds
    engines,    \* the engine of each ingest
    engine,     \* the ingest whose engine is current, NoEngine at first
    ingesting,  \* calls of rag_ingest
    search      \* calls of rag_search and rag_answer

ragVars == <<created, points, engines, engine, ingesting, search>>

NoEngine == "none"
RagSources == DOMAIN PagesOf
ChunkIds == RagSources \X (1..MaxChunks)
NoPage == 0

Chunks(d) ==
    {c \in [id : {d} \X (1..MaxChunks), page : DOMAIN PagesOf[d]] : c.id[2] <= PagesOf[d][c.page]}

\* A batch is upserted in order: the last page keeps a contested id.
Upserted(has, d) ==
    [id \in ChunkIds |->
        LET pages == {c.page : c \in {c \in Chunks(d) : c.id = id}}
        IN  IF pages = {} THEN has[id] ELSE Max(pages)]

RagInit ==
    /\ created = {} /\ points = [k \in RagCollections |-> [id \in ChunkIds |-> NoPage]]
    /\ engines = [i \in RagIngests |-> [built |-> FALSE, entries |-> {}, topK |-> 10]]
    /\ engine = NoEngine
    /\ \E named \in [RagIngests -> RagCollections] :
          ingesting = [i \in RagIngests |-> [pc |-> "new", into |-> named[i], left |-> <<>>,
                                             texts |-> {}, ingested |-> {}]]
    /\ search = [s \in RagSearches |-> [pc |-> "new"]]

-----------------------------------------------------------------------------
(* rag_ingest *)

IngestGoes(i, pc) == ingesting' = [ingesting EXCEPT ![i].pc = pc]

StorePoints(i, d) == points' = [points EXCEPT ![ingesting[i].into] = Upserted(@, d)]

\* An error of Qdrant makes it look as if there were no collection.
BeginIngest(i) ==
    /\ ingesting[i].pc = "new"
    /\ \E docs \in DocLists, seen \in {ingesting[i].into \in created, FALSE} :
          ingesting' = [ingesting EXCEPT ![i].left = docs,
                                         ![i].pc = IF seen THEN "docs" ELSE "create"]
    /\ UNCHANGED <<created, points, engines, engine, search>>

\* The collection is there by now, or Qdrant is not, or its answer is lost: no
\* such error is among those the handler catches.
CreateCollection(i) ==
    LET k == ingesting[i].into
    IN  /\ ingesting[i].pc = "create"
        /\ \/ k \notin created /\ created' = created \union {k} /\ IngestGoes(i, "docs")
           \/ created' \in {created, created \union {k}} /\ IngestGoes(i, "raised")
        /\ UNCHANGED <<points, engines, engine, search>>

\* Mutant of IngestDoc: the texts are collected before they are embedded.
IngestDocEarly(i) ==
    LET d == Head(ingesting[i].left)
        next == [ingesting[i] EXCEPT !.left = Tail(@), !.texts = @ \union Chunks(d)]
    IN  /\ ingesting[i].pc = "docs" /\ ingesting[i].left # <<>>
        /\ \/ /\ StorePoints(i, d)
              /\ ingesting' = [ingesting EXCEPT ![i] = [next EXCEPT !.ingested = @ \union {d}]]
           \/ ingesting' = [ingesting EXCEPT ![i] = next] /\ UNCHANGED points
        /\ UNCHANGED <<created, engines, engine, search>>

\* One document: stored; an error that is noted; or an error of the parser,
\* the model or Qdrant, which ends the call although documents are stored.  An
\* upsert that raises may have taken effect.
IngestDoc(i) ==
    LET d == Head(ingesting[i].left)
        next == [ingesting[i] EXCEPT !.left = Tail(@)]
    IN  /\ ingesting[i].pc = "docs" /\ ingesting[i].left # <<>>
        /\ \/ /\ StorePoints(i, d)
              /\ ingesting' = [ingesting EXCEPT ![i] =
                    [next EXCEPT !.texts = @ \union Chunks(d), !.ingested = @ \union {d}]]
           \/ /\ StorePoints(i, d) \/ UNCHANGED points
              /\ ingesting' = [ingesting EXCEPT ![i] = next] \/ IngestGoes(i, "raised")
        /\ UNCHANGED <<created, engines, engine, search>>

\* _rebuild_bm25_index: the new engine is published before it has its index,
\* which holds the texts of this call only.
PublishEngine(i) ==
    /\ ingesting[i].pc = "docs" /\ ingesting[i].left = <<>>
    /\ IF ingesting[i].texts = {} THEN engine' = engine /\ IngestGoes(i, "done")
                                  ELSE engine' = i /\ IngestGoes(i, "index")
    /\ UNCHANGED <<created, points, engines, search>>

BuildIndex(i) ==
    /\ ingesting[i].pc = "index"
    /\ engines' = [engines EXCEPT ![i].built = TRUE, ![i].entries = ingesting[i].texts]
    /\ IngestGoes(i, "done")
    /\ UNCHANGED <<created, points, engine, search>>

-----------------------------------------------------------------------------
(* rag_search and rag_answer *)

\* A search without an engine has one of its own, with no index.
BeginSearch(s) ==
    /\ search[s].pc = "new"
    /\ \E k \in TopKs :
          /\ search' = [search EXCEPT ![s] =
                [pc |-> "legs", topK |-> k, engine |-> engine,
                 bm25 |-> <<>>, vector |-> <<>>, ran |-> {}]]
          /\ engines' = IF engine = NoEngine THEN engines ELSE [engines EXCEPT ![engine].topK = k]
    /\ UNCHANGED <<created, points, engine, ingesting>>

\* A search that is not followed further sets the engine's top_k.
OtherSearch ==
    /\ engine # NoEngine
    /\ \E k \in TopKs : engines' = [engines EXCEPT ![engine].topK = k]
    /\ UNCHANGED <<created, points, engine, ingesting, search>>

Rankings(S) == {r \in UNION {[1..n -> S] : n \in 0..Min({TopKEach, Cardinality(S)})} : IsInjective(r)}

Bm25Leg(s) ==
    /\ search[s].pc = "legs" /\ "bm25" \notin search[s].ran
    /\ \E found \in IF search[s].engine # NoEngine /\ engines[search[s].engine].built
                    THEN Rankings(engines[search[s].engine].entries) ELSE {<<>>} :
          search' = [search EXCEPT ![s].bm25 = [n \in DOMAIN found |-> found[n].id],
                                   ![s].ran = @ \union {"bm25"}]
    /\ UNCHANGED <<created, points, engines, engine, ingesting>>

\* Of the default collection.  Any failure of the model or of Qdrant leaves this
\* leg empty.
VectorLeg(s) ==
    /\ search[s].pc = "legs" /\ "vector" \notin search[s].ran
    /\ \E found \in Rankings({id \in ChunkIds : points[DefaultCollection][id] # NoPage}) :
          search' = [search EXCEPT ![s].vector = found, ![s].ran = @ \union {"vector"}]
    /\ UNCHANGED <<created, points, engines, engine, ingesting>>

\* The share 1 / (k + rank) of a rank, over a common denominator: the product of
\* k + r over all the other ranks.
Weight(rank) == ProductOf([r \in 1..TopKEach |-> IF r = rank THEN 1 ELSE RrfK + r])

ShareIn(leg, id) == SumOf([n \in DOMAIN leg |-> IF leg[n] = id THEN Weight(n) ELSE 0])
Score(id, legs) == ShareIn(legs[1], id) + ShareIn(legs[2], id)

FirstAt(id, list) == Min({n \in DOMAIN list : list[n] = id})

\* What was found, by score, and among equals as it was found.
Ranked(legs) ==
    LET all == legs[1] \o legs[2]
        before(a, b) == \/ Score(a, legs) > Score(b, legs)
                        \/ Score(a, legs) = Score(b, legs) /\ FirstAt(a, all) < FirstAt(b, all)
    IN  {r \in [1..Cardinality(ToSet(all)) -> ToSet(all)] :
            \A m, n \in DOMAIN r : m < n => before(r[m], r[n])}

\* rrf_fusion
Fused(legs, topK) ==
    {SubSeq(ranked, 1, Min({topK, Len(ranked)})) : ranked \in Ranked(legs)}

\* top_k is read when the legs are in: another search may have set it since.
FuseResults(s) ==
    LET own == search[s]
        topK == IF own.engine = NoEngine THEN own.topK ELSE engines[own.engine].topK
    IN  /\ own.pc = "legs" /\ own.ran = {"bm25", "vector"}
        /\ \E results \in Fused(<<own.bm25, own.vector>>, topK) :
              search' = [search EXCEPT ![s] =
                  [pc |-> "fused", bm25 |-> own.bm25, vector |-> own.vector, results |-> results]]
        /\ UNCHANGED <<created, points, engines, engine, ingesting>>

\* What a result keeps is what its first leg said: one that BM25 found has no
\* source and no similarity.
Sourced(own, id) == id \notin ToSet(own.bm25)

\* filter_by_permission: a user the database knows sees what it grants; one it
\* does not know, or nobody (authentication is off), sees everything.
FilterResults(s) ==
    LET own == search[s]
        permitted(granted) ==
            SelectSeq(own.results, LAMBDA id : Sourced(own, id) /\ id[1] \in granted)
    IN  /\ own.pc = "fused"
        /\ \E seen \in {permitted(granted) : granted \in SUBSET RagSources} \union {own.results} :
              search' = [search EXCEPT ![s] = [pc |-> "results", results |-> seen]]
        /\ UNCHANGED <<created, points, engines, engine, ingesting>>

\* rag_answer is not filtered.  It is confident by the similarity of the first
\* result or, without one, by its score in the fusion, which is always below
\* the threshold.
AnswerQuestion(s) ==
    LET own == search[s]
    IN  /\ own.pc = "fused"
        /\ \E confident \in IF own.results # <<>> /\ Sourced(own, Head(own.results))
                            THEN BOOLEAN ELSE {FALSE} :
              search' = [search EXCEPT ![s] =
                  [pc |-> "answered", confident |-> confident, results |-> own.results]]
        /\ UNCHANGED <<created, points, engines, engine, ingesting>>

RagNext ==
    \/ \E i \in RagIngests :
          BeginIngest(i) \/ CreateCollection(i) \/ IngestDoc(i) \/ PublishEngine(i) \/ BuildIndex(i)
    \/ \E s \in RagSearches :
          \/ BeginSearch(s) \/ Bm25Leg(s) \/ VectorLeg(s)
          \/ FuseResults(s) \/ FilterResults(s) \/ AnswerQuestion(s)
    \/ OtherSearch

RagSpec == RagInit /\ [][RagNext]_ragVars

-----------------------------------------------------------------------------
(* Properties. *)

\* Whatever an engine has in its index is a point, under the same id, of the
\* collection its ingest named, although a call may end between storing and
\* indexing, note errors, or overlap another.  So the ids of the two legs mean
\* the same chunks; what an ingest into another collection has stored is found
\* by the lexical leg alone, for the other asks the default collection.
IndexedIsStored ==
    \A i \in RagIngests : \A c \in engines[i].entries : points[ingesting[i].into][c.id] # NoPage

Hits(own, id) ==
    Cardinality({n \in DOMAIN own.bm25 : own.bm25[n] = id})
    + Cardinality({n \in DOMAIN own.vector : own.vector[n] = id})

\* The fusion prefers agreement: no chunk that was found once comes before,
\* or is kept instead of, one that both legs found, whatever their ranks.
AgreementFirst ==
    \A s \in RagSearches : search[s].pc = "fused" =>
        \A a, b \in ToSet(search[s].bm25) \union ToSet(search[s].vector) :
            /\ Hits(search[s], a) = 1 /\ Hits(search[s], b) > 1
            /\ a \in ToSet(search[s].results)
            => /\ b \in ToSet(search[s].results)
               /\ FirstAt(b, search[s].results) < FirstAt(a, search[s].results)

\* A hybrid search can rely on its two legs and on their fusion
\* (retriever.py:317-360, integration.py:103-121).
SearchSound == IndexedIsStored /\ AgreementFirst

\* _generate_chunk_id makes "a unique chunk ID" (chunking.py): every page of a
\* document that was ingested can be found in the collection.
EveryPageStored ==
    \A i \in RagIngests : ingesting[i].pc = "done" =>
        \A d \in ingesting[i].ingested : \A c \in Chunks(d) : points[ingesting[i].into][c.id] = c.page
=============================================================================
