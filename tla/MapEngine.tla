----------------------------- MODULE MapEngine -----------------------------
(***************************************************************************)
(* What an analysis of the map agent computes (engine.py, interpreter.py,  *)
(* langgraph_nodes.py, location_enrich.py, foolproof.py), and the analysis *)
(* contexts of its sessions (routes.py).  A pipeline runs on the event     *)
(* loop without an await, so an analysis is one step; but the demo         *)
(* entities it reads, enriches and answers with are the process's own.     *)
(***************************************************************************)
EXTENDS Integers, Sequences, FiniteSets, SequencesExt, Functions, Filters

CONSTANTS
    Places,         \* the demo entities
    Own,            \* their numeric properties
    Asked,          \* lists of ids that are asked for
    Inline,         \* lists of entities that are sent along instead
    Runs,           \* analyses
    PoiCounts,      \* how many points of interest are found, 0 when a call failed
    SessionIds, Marked,     \* sessions, and the entities put in their contexts
    SessionTTL,     \* _SESSION_TTL
    LastMoment      \* bound on time

ASSUME MapEngineAssumption ==
    /\ DOMAIN Own = Places
    /\ \A p \in Places : Own[p] \in [DOMAIN Own[p] -> Int] /\ "poi" \notin DOMAIN Own[p]
    /\ \A ids \in Asked : ids \in Seq(Range(ids))
    /\ \A list \in Inline : list \in Seq(Range(list)) /\ \A e \in Range(list) :
          e \in [id : {e.id}, shared : {FALSE}, located : BOOLEAN, props : [DOMAIN e.props -> Int]]
    /\ PoiCounts \subseteq Nat /\ {SessionTTL, LastMoment} \subseteq Nat

VARIABLES
    demo,       \* properties of the demo entities
    run,        \* the analyses
    moment,
    contexts,   \* _sessions
    touched,    \* _session_timestamps
    basket,     \* history: what each session put in its context since it began
    lastUse     \* history: when each session last asked for it

analysisVars == <<demo, run>>
contextVars == <<moment, contexts, touched, basket, lastUse>>
engineVars == <<analysisVars, contextVars>>

-----------------------------------------------------------------------------
(* Correlation. *)

Smaller(x, y) == IF x < y THEN x ELSE y
Larger(x, y) == IF x < y THEN y ELSE x
Magnitude(x) == IF x < 0 THEN -x ELSE x

\* _compute_coefficient: 2 * ratio - 1, here as a fraction.
Coefficient(x, y) ==
    LET small == Smaller(Magnitude(x), Magnitude(y))
        large == Larger(Magnitude(x), Magnitude(y))
    IN  IF large = 0 THEN [over |-> 1, under |-> 1] ELSE [over |-> 2 * small - large, under |-> large]

StrengthFrom(thresholds, c) ==
    LET reached == {t \in DOMAIN thresholds : 10 * Magnitude(c.over) >= thresholds[t][1] * c.under}
    IN  thresholds[CHOOSE t \in reached : \A u \in reached : t <= u][2]

Strength(x, y) ==
    StrengthFrom(<<<<8, "very_strong">>, <<6, "strong">>, <<3, "moderate">>, <<0, "weak">>>>, Coefficient(x, y))

\* The words go by the sign of the coefficient.
Direction(x, y) ==
    LET c == Coefficient(x, y)
    IN  CASE 20 * c.over > c.under -> "positive" [] 20 * c.over < -c.under -> "negative" [] OTHER -> "none"

\* _auto_pair: of each two entities, but not of one with itself, the properties
\* both have.  `props' are the properties of the entities, one by one.
AutoPairs(es, props) ==
    {pair \in (DOMAIN es) \X (DOMAIN es) \X UNION {DOMAIN props[k] : k \in DOMAIN es} :
        /\ pair[1] <= pair[2] /\ es[pair[1]].id # es[pair[2]].id
        /\ pair[3] \in DOMAIN props[pair[1]] \intersect DOMAIN props[pair[2]]}

\* _compute_pair looks for the first entity with the pair's id; a property that is
\* not there counts as 0.
FirstNamed(es, n) ==
    CHOOSE m \in DOMAIN es : es[m].id = es[n].id /\ \A k \in DOMAIN es : es[k].id = es[n].id => m <= k
ValueIn(own, name) == IF name \in DOMAIN own THEN own[name] ELSE 0
Correlate(es, props) ==
    {LET x == ValueIn(props[FirstNamed(es, pair[1])], pair[3])
         y == ValueIn(props[FirstNamed(es, pair[2])], pair[3])
     IN  [pair |-> pair, x |-> x, y |-> y, strength |-> Strength(x, y)]
        : pair \in AutoPairs(es, props)}

-----------------------------------------------------------------------------
(* The pipeline. *)

\* References to the demo entities.
DemoEntities(ids) == [n \in 1..Len(ids) |-> [id |-> ids[n], shared |-> TRUE, located |-> TRUE, props |-> <<>>]]

\* fetch_entities: the entities that were sent, or the demo entities themselves.
\* Those that are not known are left out, each with an error.
Fetched(ids, sent) ==
    IF sent # <<>> THEN sent ELSE DemoEntities(Keep(ids, Places))

Properties(e, shared) == IF e.shared THEN shared[e.id] ELSE e.props

\* What a profile adds to the properties (to_properties).
Counted(own, count) == [name \in DOMAIN own \union {"poi"} |-> IF name = "poi" THEN count ELSE own[name]]

\* The entities that were sent are enriched each, the demo entities in place: one
\* that is asked for twice ends with its second count.
Enriched(es, counts) ==
    [n \in DOMAIN es |-> IF es[n].shared \/ ~es[n].located THEN es[n]
                         ELSE [es[n] EXCEPT !.props = Counted(es[n].props, counts[n])]]
EnrichedDemo(es, counts) ==
    [p \in Places |->
        LET at == {n \in DOMAIN es : es[n].shared /\ es[n].id = p}
        IN  IF at = {} THEN demo[p]
            ELSE Counted(demo[p], counts[CHOOSE n \in at : \A m \in at : m <= n])]

\* A blank id, or fewer than two; ids that repeat are only warned of.
Refusable(ids, background) == Len(ids) < 2 \/ (background /\ "" \in Range(ids))

\* generate_interpretation: without a correlation its words are the errors; else
\* they are the model's or, when that fails or is not there, the rules'.
Words(es) == IF Len(es) < 2 THEN {"errors"} ELSE {"model", "rules"}

RefuseAnalysis(a) ==
    /\ run[a].pc = "new"
    /\ \E ids \in Asked, background \in BOOLEAN :
        /\ Refusable(ids, background)
        /\ run' = [run EXCEPT ![a] = [pc |-> "refused"]]
    /\ UNCHANGED demo

\* run_pipeline.  Enrichment may fail as a whole, and the wait for the model may
\* run out, which nothing catches: the entities stay enriched.
Analyse(a) ==
    /\ run[a].pc = "new"
    /\ \E ids \in Asked, sent \in Inline \union {<<>>}, background \in BOOLEAN :
        LET es == Fetched(ids, sent)
        IN  /\ ~Refusable(ids, background)
            /\ \E outcome \in {"enriched", "not enriched"}, counts \in [DOMAIN es -> PoiCounts] :
                LET now == IF outcome = "enriched" THEN EnrichedDemo(es, counts) ELSE demo
                    have == IF outcome = "enriched" THEN Enriched(es, counts) ELSE es
                    props == [n \in DOMAIN have |-> Properties(have[n], now)]
                IN  /\ demo' = now
                    /\ \/ \E words \in Words(es) :
                            run' = [run EXCEPT ![a] =
                                [pc |-> "done", ids |-> ids, entities |-> have, words |-> words,
                                 results |-> IF Len(es) < 2 THEN {} ELSE Correlate(have, props),
                                 unknown |-> IF sent # <<>> THEN 0 ELSE Len(ids) - Len(es)]]
                       \/ Len(es) >= 2 /\ run' = [run EXCEPT ![a] = [pc |-> "raised"]]

\* map_correlate, the tool: the demo entities as they are, each once, in their order.
CorrelateTool(a) ==
    /\ run[a].pc = "new"
    /\ \E ids \in Asked : \E order \in SetToSeqs(Places \intersect Range(ids)) :
        LET es == DemoEntities(order)
            props == [n \in DOMAIN es |-> Properties(es[n], demo)]
        IN  run' = [run EXCEPT ![a] =
                IF Len(es) < 2 THEN [pc |-> "refused"]
                ELSE [pc |-> "done", ids |-> ids, entities |-> es, words |-> "rules",
                      results |-> Correlate(es, props), unknown |-> 0]]
    /\ UNCHANGED demo

-----------------------------------------------------------------------------
(* Contexts. *)

Alive(s) == s \in DOMAIN touched => moment - touched[s] <= SessionTTL

\* Mutant of Kept: the one who asks is not swept.
KeptAsker(s) == {r \in DOMAIN contexts : r = s \/ Alive(r)}

\* _cleanup_stale_sessions, before the session is looked up.
Kept(s) == {r \in DOMAIN contexts : Alive(r)}

\* _get_or_create_session, and what is put in or taken out then.
Touch(s, put, taken) ==
    LET before == IF s \in Kept(s) THEN contexts[s] ELSE {}
        begun == IF moment - lastUse[s] > SessionTTL THEN {} ELSE basket[s]
    IN  /\ contexts' = [r \in Kept(s) \union {s} |-> IF r = s THEN (before \union put) \ taken ELSE contexts[r]]
        /\ touched' = [r \in (Kept(s) \intersect DOMAIN touched) \union {s} |-> IF r = s THEN moment ELSE touched[r]]
        /\ basket' = [basket EXCEPT ![s] = (begun \union put) \ taken]
        /\ lastUse' = [lastUse EXCEPT ![s] = moment]
        /\ UNCHANGED moment

GetContext(s) == Touch(s, {}, {})
AddToContext(s, e) == Touch(s, {e}, {})

\* One that is not there is answered with 404, the session being made first.
RemoveFromContext(s, e) == Touch(s, {}, {e})

\* DELETE /context sweeps nothing and sets no timestamp: a session that begins
\* with it is not swept before it is used.
ClearContext(s) ==
    /\ contexts' = [r \in DOMAIN contexts \union {s} |-> IF r = s THEN {} ELSE contexts[r]]
    /\ basket' = [basket EXCEPT ![s] = {}]
    /\ UNCHANGED <<moment, touched, lastUse>>

MomentPasses == moment < LastMoment /\ moment' = moment + 1 /\ UNCHANGED <<contexts, touched, basket, lastUse>>

-----------------------------------------------------------------------------

EngineInit ==
    /\ demo = Own
    /\ run = [a \in Runs |-> [pc |-> "new"]]
    /\ moment = 0 /\ contexts = <<>> /\ touched = <<>>
    /\ basket = [s \in SessionIds |-> {}] /\ lastUse = [s \in SessionIds |-> 0]

AnalysesNext ==
    /\ \E a \in Runs : RefuseAnalysis(a) \/ Analyse(a) \/ CorrelateTool(a)
    /\ UNCHANGED contextVars

ContextsNext ==
    /\ \/ MomentPasses
       \/ \E s \in SessionIds :
            \/ GetContext(s) \/ ClearContext(s)
            \/ \E e \in Marked : AddToContext(s, e) \/ RemoveFromContext(s, e)
    /\ UNCHANGED analysisVars

EngineSpec == EngineInit /\ [][AnalysesNext \/ ContextsNext]_engineVars

-----------------------------------------------------------------------------
(* Properties. *)

(* Analyses enrich the very entities that other requests read and that      *)
(* answers were given with (langgraph_nodes.py:169-173), and yet what was   *)
(* answered stands: a value it was computed from is still the one it shows, *)
(* but for the counts of a demo entity, which later analyses overwrite; and *)
(* no entity is correlated with itself, although ids may repeat.            *)
ResultsStand ==
    /\ \A p \in Places : Restrict(demo[p], DOMAIN Own[p]) = Own[p]
    /\ \A a \in Runs : run[a].pc = "done" =>
        \A r \in run[a].results :
            LET e == run[a].entities[FirstNamed(run[a].entities, r.pair[1])]
                f == run[a].entities[FirstNamed(run[a].entities, r.pair[2])]
            IN  /\ e.id # f.id
                /\ (e.shared /\ r.pair[3] = "poi") \/ r.x = ValueIn(Properties(e, demo), r.pair[3])
                /\ (f.shared /\ r.pair[3] = "poi") \/ r.y = ValueIn(Properties(f, demo), r.pair[3])

(* How strong a relation is called does not depend on the order of the two  *)
(* or on their unit; and it is called very strong of values a tenth apart   *)
(* as well as of values tenfold apart, and of two lookups that both failed  *)
(* (engine.py:140-160).                                                     *)
StrengthSound ==
    \A a \in Runs : run[a].pc = "done" =>
        \A r \in run[a].results :
            /\ \A unit \in 1..3 : r.strength = Strength(unit * r.y, unit * r.x)
            /\ LET small == Smaller(Magnitude(r.x), Magnitude(r.y))
                   large == Larger(Magnitude(r.x), Magnitude(r.y))
               IN  /\ r.strength = "very_strong" <=> 10 * small >= 9 * large \/ 10 * small <= large
                   /\ Direction(r.x, r.y) = "negative" => 2 * small < large

(* An analysis explains what it found, and what it could not do: it is      *)
(* without results and with the errors for words when fewer than two of the *)
(* entities are known, however many were asked for, or but one was sent     *)
(* (foolproof.py:70).                                                       *)
ExplainsItself ==
    \A a \in Runs : run[a].pc = "done" =>
        /\ run[a].words = "errors" <=> Len(run[a].entities) < 2
        /\ run[a].words = "errors" =>
             run[a].results = {} /\ (run[a].unknown > 0 \/ \E e \in Range(run[a].entities) : ~e.shared)

(* A context has what its session put into it, for as long as SessionTTL    *)
(* after each use, whatever the requests of others sweep; and nothing of    *)
(* what it was before it ran out (routes.py:52-72, 160-168).                *)
ContextsLast ==
    /\ \A s \in SessionIds :
        moment - lastUse[s] <= SessionTTL =>
            (IF s \in DOMAIN contexts THEN contexts[s] ELSE {}) = basket[s]
    /\ DOMAIN touched \subseteq DOMAIN contexts
    /\ \A s \in DOMAIN contexts \ DOMAIN touched : contexts[s] = {}

(* What the map agent computes and what it remembers of a session are right *)
(* (langgraph_nodes.py:340-376, routes.py:52-168).                          *)
AnalysesSound == ResultsStand /\ StrengthSound /\ ExplainsItself /\ ContextsLast
=============================================================================
