----------------------------- MODULE Embedding -----------------------------
(***************************************************************************)
(* The embedding models of a process and the Qdrant collections their      *)
(* vectors go to (embeddings.py, vector_store.py, ingestion_agent/store.py,*)
(* training_data.py).  A process has two models, each loaded when it is    *)
(* first used: "rag" is the RAG agent's, "shared" that of the ingestion    *)
(* and of the examples for questions to SQL.  A collection takes vectors   *)
(* of the size it was made with; it outlives the processes, which may be   *)
(* started with other models.                                              *)
(***************************************************************************)
EXTENDS Integers, FiniteSets

CONSTANTS
    Procs,          \* processes
    Setups,         \* the environments a process may be started in
    Works,          \* ingests, and the storing of the examples
    DefaultSize,    \* 1024, told of a model that is not loaded or says nothing
    OnnxDefault     \* 512, told of an ONNX model whose config.json says nothing

\* The size of each model's vectors, 0 when its library is not installed, and
\* the size it tells (an ONNX model its config.json), 0 when it tells none; the
\* backend of the shared one, whether its ONNX file has a config.json beside
\* it; and FDE_NL2SQL_USE_QDRANT.
ASSUME EmbeddingAssumption ==
    /\ Setups \subseteq [rag : Nat, shared : Nat, tells : [rag : Nat, shared : Nat],
                         onnx : BOOLEAN, config : BOOLEAN, semantic : BOOLEAN]
    /\ DefaultSize \in Nat \ {0} /\ OnnxDefault \in Nat \ {0}

VARIABLES
    size,       \* of each collection, 0 when it is not there
    stocked,       \* whether it holds points
    setup,      \* of each process
    model,      \* how far its models are loaded
    prepared,   \* _initialised and _qdrant_ready of training_data.py
    work

embeddingVars == <<size, stocked, setup, model, prepared, work>>

Stores == {"knowledge", "documents", "examples"}
ModelFor(store) == IF store = "knowledge" THEN "rag" ELSE "shared"

-----------------------------------------------------------------------------
(* Loading. *)

\* Outcomes of the first use of a model.  Without a config.json the dimension of
\* an ONNX model is asked of a tokenizer that is not called this way: by then
\* _loaded is set, and the model stays "half" loaded, of dimension 0.
LoadOutcomes(p, m) ==
    IF model[p][m] # "none" THEN {model[p][m]}
    ELSE IF setup[p][m] = 0 THEN {"none"}
    ELSE {"none", "loaded"}
         \union (IF m = "shared" /\ setup[p].onnx /\ ~setup[p].config THEN {"half"} ELSE {})

LoadRaises(p, m, after) == after = "none" \/ (after = "half" /\ model[p][m] = "none")

\* The size a loaded model tells, which need not be the size of its vectors: an
\* ONNX model measures one only when it has no config.json.
Told(p, m) ==
    LET onnx == m = "shared" /\ setup[p].onnx
    IN  IF onnx /\ ~setup[p].config THEN setup[p][m]
        ELSE IF setup[p].tells[m] # 0 THEN setup[p].tells[m]
        ELSE IF onnx THEN OnnxDefault ELSE DefaultSize

\* get_dimension
Dimension(p, m, state) ==
    CASE state = "loaded" -> Told(p, m) [] state = "half" -> 0 [] OTHER -> DefaultSize

\* Mutant of SizeFor: the dimension is asked for before the model is loaded.
SizeForUnloaded(p, store, after) == Dimension(p, ModelFor(store), model[p][ModelFor(store)])

\* The size a collection would be made with; the examples measure a vector.
SizeFor(p, store, after) ==
    IF store = "examples" THEN setup[p].shared ELSE Dimension(p, ModelFor(store), after)

-----------------------------------------------------------------------------

EmbeddingInit ==
    /\ size = [c \in Stores |-> 0] /\ stocked = [c \in Stores |-> FALSE]
    /\ setup \in [Procs -> Setups]
    /\ model = [p \in Procs |-> [rag |-> "none", shared |-> "none"]]
    /\ prepared = [p \in Procs |-> [initialised |-> FALSE, ready |-> FALSE]]
    /\ work = [w \in Works |-> [pc |-> "new"]]

Goes(w, pc) == work' = [work EXCEPT ![w].pc = pc]

\* The work w of p on a collection begins by loading the model.  A library that
\* is missing does not stop rag_ingest here.
LoadFor(w, p, store) ==
    \E after \in LoadOutcomes(p, ModelFor(store)) :
        /\ model' = [model EXCEPT ![p][ModelFor(store)] = after]
        /\ work' = [work EXCEPT ![w] =
              [pc |-> IF LoadRaises(p, ModelFor(store), after)
                         /\ ~(store = "knowledge" /\ setup[p].rag = 0)
                      THEN "failed" ELSE "look",
               by |-> p, store |-> store, made |-> FALSE, size |-> SizeFor(p, store, after)]]

\* _rag_ingest_sync, and the vectors of IngestionPipeline.
BeginEmbedding(w) ==
    /\ work[w].pc = "new"
    /\ \E p \in Procs, store \in {"knowledge", "documents"} : LoadFor(w, p, store)
    /\ UNCHANGED <<size, stocked, setup, prepared>>

\* _ensure_initialised: once, whatever comes of it, and without a word about
\* those who ask meanwhile.
BeginExamples(w, p) ==
    /\ work[w].pc = "new" /\ ~prepared[p].initialised
    /\ prepared' = [prepared EXCEPT ![p].initialised = TRUE]
    /\ IF setup[p].semantic THEN LoadFor(w, p, "examples") ELSE UNCHANGED <<model, work>>
    /\ UNCHANGED <<size, stocked, setup>>

\* collection_exists: an error of Qdrant makes it look as if there were none.
LookUp(w) ==
    /\ work[w].pc = "look"
    /\ \E seen \in {size[work[w].store] # 0, FALSE} : Goes(w, IF seen THEN "store" ELSE "make")
    /\ UNCHANGED <<size, stocked, setup, model, prepared>>

\* It may be there by now; and Qdrant makes none of vectors without components.
MakeCollection(w) ==
    /\ work[w].pc = "make"
    /\ \/ /\ size[work[w].store] = 0 /\ work[w].size > 0
          /\ size' = [size EXCEPT ![work[w].store] = work[w].size]
          /\ work' = [work EXCEPT ![w].pc = "store", ![w].made = TRUE]
       \/ Goes(w, "failed") /\ UNCHANGED size
    /\ UNCHANGED <<stocked, setup, model, prepared>>

\* Qdrant takes vectors of the collection's size only.
Fits(p, store) == setup[p][ModelFor(store)] = size[store]

StoreVectors(w) ==
    LET p == work[w].by
        store == work[w].store
    IN  /\ work[w].pc = "store"
        /\ \/ /\ Fits(p, store)
              /\ stocked' = [stocked EXCEPT ![store] = TRUE]
              /\ prepared' = IF store = "examples" THEN [prepared EXCEPT ![p].ready = TRUE] ELSE prepared
              /\ Goes(w, "stored")
           \/ Goes(w, "failed") /\ UNCHANGED <<stocked, prepared>>
        /\ UNCHANGED <<size, setup, model>>

\* A process ends, with the work it does, and another is started in its place.
Replace(p) ==
    /\ \E s \in Setups : setup' = [setup EXCEPT ![p] = s]
    /\ model' = [model EXCEPT ![p] = [rag |-> "none", shared |-> "none"]]
    /\ prepared' = [prepared EXCEPT ![p] = [initialised |-> FALSE, ready |-> FALSE]]
    /\ work' = [w \in Works |->
          IF work[w].pc \in {"look", "make", "store"} /\ work[w].by = p THEN [pc |-> "lost"] ELSE work[w]]
    /\ UNCHANGED <<size, stocked>>

\* Where the examples for a question come from; any failure falls back to the
\* keywords.
ExamplesFrom(p) == {"keywords"} \union (IF prepared[p].ready THEN {"semantic"} ELSE {})

EmbeddingNext ==
    \/ \E w \in Works :
        \/ BeginEmbedding(w) \/ LookUp(w) \/ MakeCollection(w) \/ StoreVectors(w)
        \/ \E p \in Procs : BeginExamples(w, p)
    \/ \E p \in Procs : Replace(p)

EmbeddingSpec == EmbeddingInit /\ [][EmbeddingNext]_embeddingVars

-----------------------------------------------------------------------------
(* Properties. *)

(* A process that searches for examples by meaning finds them: the          *)
(* collection holds some, of the size of the vectors it asks with, although *)
(* other processes, of other models, made or filled the collection          *)
(* (training_data.py:245-290).                                              *)
ReadyIsSearchable ==
    \A p \in Procs : "semantic" \in ExamplesFrom(p) => stocked["examples"] /\ Fits(p, "examples")

(* "Force-load the model so we know its true embedding dimension, then      *)
(* create the collection with a matching vector size" (integration.py:313): *)
(* who makes a collection can store in it, even when Qdrant failed or       *)
(* others made collections meanwhile, but for two cases.  The model tells   *)
(* another size than its vectors have (embeddings.py:287, :361), and then   *)
(* the collection has the size told; the examples are not made this way.    *)
(* Or the library of the RAG agent is not installed, and then the knowledge *)
(* base has the default size.                                               *)
MadeToFit ==
    \A w \in Works : work[w].pc = "store" /\ work[w].made =>
        LET p == work[w].by
            store == work[w].store
            m == ModelFor(store)
        IN  \/ Fits(p, store)
            \/ store # "examples" /\ Told(p, m) # setup[p][m] /\ size[store] = Told(p, m)
            \/ store = "knowledge" /\ setup[p].rag = 0 /\ size["knowledge"] = DefaultSize

(* The collections fit the vectors that go to them (embeddings.py:47-49).   *)
VectorsSound == ReadyIsSearchable /\ MadeToFit
=============================================================================
