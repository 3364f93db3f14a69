----------------------------- MODULE MCKnowledge -----------------------------
(* What answers questions, for TLC: the cache of answers, the indexes of the  *)
(* RAG agent, the cutting of texts, the analysis agent, the inspector, and    *)
(* the collections their vectors go to.                                       *)
(* They share no state, so a behaviour is of one of them: `focus' says which. *)
EXTENDS QueryCache, Rag, Texts, Analysis, Inspector, Embedding, TLC

VARIABLE focus

\* Of one page and of two.
Pages == "d1" :> <<1>> @@ "d2" :> <<1, 1>>
DocumentLists == {<<"d1", "d2">>}

WordedQuestions ==
    {<<table, column, op, number>> : table \in {"employees", "nothing"}, column \in {"salary", "price"},
                                     op \in Operators, number \in {"5"}}
    \union {<<"employees", "count">>, <<"products", "top1">>, <<"products", "price", "more", "5", "name", "notEqual", "9">>}
Statements ==
    {[verb |-> verb, words |-> words, semicolons |-> semicolons, names |-> names,
      limit |-> NoLimit, counts |-> FALSE]
        : verb \in {"SELECT", "WITH", "UPDATE"}, words \in {{}, {"DROP"}},
          semicolons \in {"none", "end", "inside"}, names \in BOOLEAN}
\* A cell is text, or a number that looks like one; months and products may miss.
\* The amounts of two rows differ, that a sum tells them apart.
Cells == {Text("1"), Text("2"), [text |-> FALSE, shown |-> "1"]}
RowsOver(Ds) == UNION {[D -> Cells] : D \in Ds}
TablesOver(Ds) ==
    {<<>>} \union {<<[at |-> a, amount |-> 1], [at |-> b, amount |-> 2]>> : a, b \in RowsOver(Ds)}
Explored == TablesOver({{"region"}, {"region", "product"}, {"region", "month", "product"}})
Aggregated == TablesOver({{"region"}, {"region", "month"}})
RegionMonthProduct == <<"region", "month", "product">>

\* The models tell their sizes; the shared one has no config.json; the default
\* size is right, and asked for by who has no library; both defaults are wrong;
\* and the config.json is another model's.
Installed ==
    [rag |-> 4, shared |-> 2, tells |-> [rag |-> 4, shared |-> 2],
     onnx |-> TRUE, config |-> TRUE, semantic |-> TRUE]
Environments ==
    {Installed, [Installed EXCEPT !.config = FALSE],
     [Installed EXCEPT !.rag = 0, !.shared = 4, !.onnx = FALSE, !.tells.shared = 0],
     [Installed EXCEPT !.rag = 2, !.semantic = FALSE, !.tells = [rag |-> 0, shared |-> 0]],
     [Installed EXCEPT !.tells.shared = 4]}

KnowledgeInit ==
    /\ focus \in {"cache", "rag", "texts", "analysis", "inspector", "vectors"}
    /\ \/ focus = "analysis" /\ cube = <<>>
       \/ facts = <<>> /\ cube \in IF focus = "analysis" THEN Cubes ELSE {<<>>}
    /\ Init /\ RagInit /\ TextsInit /\ AnalysisInit /\ InspectorInit /\ EmbeddingInit
    /\ focus # "cache" => ~degraded
    /\ focus # "rag" => \A i \in RagIngests : ingesting[i].into = DefaultCollection
    /\ focus # "vectors" => setup = [p \in Procs |-> Installed]

KnowledgeNext ==
    /\ \/ focus = "cache" /\ Next /\ UNCHANGED <<ragVars, textVars, analysisVars, inspectorVars, embeddingVars>>
       \/ focus = "rag" /\ RagNext /\ UNCHANGED <<vars, textVars, analysisVars, inspectorVars, embeddingVars>>
       \/ focus = "texts" /\ TextsNext /\ UNCHANGED <<vars, ragVars, analysisVars, inspectorVars, embeddingVars>>
       \/ focus = "analysis" /\ AnalysisNext /\ UNCHANGED <<vars, ragVars, textVars, inspectorVars, embeddingVars>>
       \/ focus = "inspector" /\ InspectorNext /\ UNCHANGED <<vars, ragVars, textVars, analysisVars, embeddingVars>>
       \/ /\ focus = "vectors" /\ EmbeddingNext
          /\ UNCHANGED <<vars, ragVars, textVars, analysisVars, inspectorVars>>
    /\ UNCHANGED focus

KnowledgeSpec ==
    KnowledgeInit /\ [][KnowledgeNext]_<<vars, ragVars, textVars, analysisVars, inspectorVars, embeddingVars, focus>>

\* Bounds.  A dashboard is explored, and a table aggregated, while no question is asked.  Three asks at
\* most are under way at a time.  Asks and keys are
\* numbered in the order in which they come: any other order is the same
\* behaviour with other names.
Focus ==
    /\ facts # <<>> \/ cube # <<>> => asked = Idle
    /\ Cardinality({i \in Asks : ask[i].stage \in {"getting", "searching", "setting"}}) <= 3
    /\ \A i \in Asks : ask[i].stage # "new" =>
          /\ \A j \in 1..(i - 1) : ask[j].stage # "new"
          /\ ask[i].key \in 1..(1 + Max({0} \union {ask[j].key : j \in 1..(i - 1)}))
=============================================================================
