---------------------------- MODULE Orchestrator ----------------------------
(***************************************************************************)
(* The orchestrator graph on one request: the supervisor plans, a worker   *)
(* runs, the supervisor plans again, until it finishes; then the conflict  *)
(* detector, the resolver and the response generator run in a chain.       *)
(*                                                                         *)
(* A plan is the sequence of the workers its steps name.  The supervisor   *)
(* has keyword rules, or an LLM that may answer any plan or fail, in a way *)
(* the supervisor catches or in one that ends the run with an exception.   *)
(***************************************************************************)
EXTENDS ConflictResolution, FiniteSets, Filters

CONSTANTS Planners,       \* how graphs are built: with an LLM (TRUE) or without
          MaxIterations,  \* max_iterations
          Topics,         \* workers whose keywords the request may contain
          Named,          \* names the LLM may put into a plan
          MaxSteps,       \* bound: steps in a plan of the LLM
          Outcome         \* what executing a step may leave in worker_outputs

ASSUME OrchestratorAssumption ==
    /\ Planners \subseteq BOOLEAN
    /\ MaxIterations \in Nat
    /\ Topics \subseteq Worker
    /\ MaxSteps \in Nat

\* An output is never the value of a missing one, and a score that a worker
\* states is a number.
ASSUME OutcomeAssumption ==
    /\ None \notin Outcome
    /\ \A o \in Outcome : o.kind = "dict" => o.confidence \in Nat \cup {None}

VARIABLES
    usesLLM,      \* the graph was built with an LLM
    request,      \* the plan the keyword rules make of the message (without an LLM)
    node,         \* the node of the graph that runs next
    iteration,    \* supervisor rounds so far
    plan,         \* steps of the current plan (worker names)
    order,        \* workers in the order of their first output
    outputs,      \* worker_outputs
    error,        \* the error field is set
    conflicts,    \* fields the detector reported
    resolutions,  \* what the resolver made of each of them
    verdict,      \* last section of final_response
    visited       \* nodes executed so far (LangGraph counts supersteps)

vars == <<usesLLM, request, node, iteration, plan, order, outputs, error, conflicts,
          resolutions, verdict, visited>>

Pipeline == {"conflict_detector", "conflict_resolver", "response_generator"}
Node == Worker \cup Pipeline \cup {"supervisor", "end", "raised"}
Running == Worker \cup {"supervisor"}

\* The order in which _mock_plan tries its keyword lists.  The analysis list is
\* only tried when none before it matched.
Heuristics == <<"rag", "compliance", "business_system", "im", "hr", "data",
                "analysis", "governance", "map">>
BeforeAnalysis == {"rag", "compliance", "business_system", "im", "hr", "data"}

KeywordPlan(matched) ==
    Keep(Heuristics, IF matched \cap BeforeAnalysis = {} THEN matched
                     ELSE matched \ {"analysis"})

TypeOK ==
    /\ node \in Node
    /\ iteration \in 0..(MaxIterations + 1)
    /\ outputs \in [Worker -> Outcome \cup {None}]
    /\ error \in BOOLEAN
    /\ conflicts \subseteq ConflictField
    /\ DOMAIN resolutions \subseteq ConflictField
    /\ visited \in Nat

Init ==
    /\ usesLLM \in Planners
    /\ request \in IF usesLLM THEN {<<>>}
                  ELSE {KeywordPlan(matched) : matched \in SUBSET Topics}
    /\ node = "supervisor"
    /\ iteration = 0
    /\ plan = <<>>
    /\ order = <<>>
    /\ outputs = [w \in Worker |-> None]
    /\ error = FALSE
    /\ conflicts = {}
    /\ resolutions = <<>>
    /\ verdict = "none"
    /\ visited = 0

-----------------------------------------------------------------------------
(* The supervisor and route_from_supervisor                                 *)

\* Mutant of Route: the name is not looked up among the workers.
RouteUnchecked(steps, finish) ==
    IF finish \/ steps = <<>> THEN "conflict_detector" ELSE Head(steps)

\* Finished, no step, or a worker the graph does not have: the conflict chain.
Route(steps, finish) ==
    IF finish \/ steps = <<>> \/ Head(steps) \notin Worker
    THEN "conflict_detector" ELSE Head(steps)

Plan(steps, finish) ==
    /\ node = "supervisor"
    /\ plan' = steps
    /\ node' = Route(steps, finish)
    /\ iteration' = iteration + 1
    /\ visited' = visited + 1
    /\ UNCHANGED <<usesLLM, request, order, outputs, error, conflicts,
                   resolutions, verdict>>

\* Mutant of MayPlan: one round too many.
MayPlanOnceMore == iteration <= MaxIterations

MayPlan == iteration < MaxIterations

ForceFinish == ~MayPlan /\ Plan(<<>>, TRUE)

\* _remaining_steps: the steps whose worker has no output yet.
Remaining == Keep(plan, {w \in Worker : outputs[w] = None})

\* _mock_plan: keywords first, then what is left of the plan.
PlanByRules ==
    /\ ~usesLLM /\ MayPlan
    /\ LET steps == IF order = <<>> THEN request ELSE Remaining
       IN  Plan(steps, steps = <<>>)

\* The supervisor raises: no state is returned, and the run of the graph ends.
Raise ==
    /\ node = "supervisor"
    /\ node' = "raised"
    /\ visited' = visited + 1
    /\ UNCHANGED <<usesLLM, request, iteration, plan, order, outputs, error,
                   conflicts, resolutions, verdict>>

\* _call_llm: any plan; the one-step plan for "router" when the call fails with
\* one of the six classes that are caught; and when it fails with another (the
\* client's own errors, the AttributeError of a JSON that is no object), Raise.
PlanByLLM ==
    /\ usesLLM /\ MayPlan
    /\ \/ \E n \in 0..MaxSteps : \E steps \in [1..n -> Named], finish \in BOOLEAN :
            Plan(steps, finish)
       \/ Plan(<<"router">>, FALSE)
       \/ Raise

-----------------------------------------------------------------------------
(* The workers                                                              *)

\* The merge_dict reducer: a new key goes last, an old one keeps its place.
Leave(w, o) ==
    /\ outputs' = [outputs EXCEPT ![w] = o]
    /\ order' = IF outputs[w] = None THEN Append(order, w) ELSE order

\* BaseWorker.__call__ on the first step for this worker; an exception becomes
\* the output "Error: ..." and the error field, a success clears the field.
Work(w) ==
    /\ node = w
    /\ \E o \in Outcome :
         /\ Leave(w, o)
         /\ error' = (o.kind = "error")
    /\ node' = "supervisor"
    /\ visited' = visited + 1
    /\ UNCHANGED <<usesLLM, request, iteration, plan, conflicts, resolutions, verdict>>

-----------------------------------------------------------------------------
(* The conflict chain                                                       *)

Detect ==
    /\ node = "conflict_detector"
    /\ conflicts' = Conflicts(outputs)
    /\ node' = "conflict_resolver"
    /\ visited' = visited + 1
    /\ UNCHANGED <<usesLLM, request, iteration, plan, order, outputs, error,
                   resolutions, verdict>>

Resolve ==
    /\ node = "conflict_resolver"
    /\ resolutions' = [f \in conflicts |-> Resolution(f, outputs, order)]
    /\ node' = "response_generator"
    /\ visited' = visited + 1
    /\ UNCHANGED <<usesLLM, request, iteration, plan, order, outputs, error,
                   conflicts, verdict>>

Respond ==
    /\ node = "response_generator"
    /\ verdict' = Verdict(outputs)
    /\ node' = "end"
    /\ visited' = visited + 1
    /\ UNCHANGED <<usesLLM, request, iteration, plan, order, outputs, error,
                   conflicts, resolutions>>

-----------------------------------------------------------------------------

Next ==
    \/ ForceFinish \/ PlanByRules \/ PlanByLLM
    \/ \E w \in Worker : Work(w)
    \/ Detect \/ Resolve \/ Respond

Spec == Init /\ [][Next]_vars

\* The graph is executed by one thread that runs node after node, and a tool
\* returns or raises.
FairSpec == Spec /\ WF_vars(Next)

-----------------------------------------------------------------------------

\* The graph always comes to its end, an LLM that never finishes included: the
\* supervisor runs MaxIterations + 1 times at most, a worker after each of the
\* first MaxIterations, and the three nodes of the chain once.  With the default
\* of 10 these are 24 supersteps, one below LangGraph's default limit of 25.
NodesBounded == visited <= 2 * MaxIterations + 4

\* A run comes to an end, whatever the LLM plans and whatever fails: no node is
\* left without a successor.  It ends with an answer when there is no LLM; with
\* one it may also end with the exception that _call_llm did not catch, although
\* its docstring promises the fallback for any failure (supervisor.py:180).
Finishes ==
    /\ <>(node \in {"end", "raised"})
    /\ ~usesLLM => <>(node = "end")

\* Without an LLM, the conflict chain starts only when every worker the request
\* called for has left an output: a step that fails or comes late in the plan
\* does not make the supervisor drop the steps after it.
EveryTopicServed ==
    ~usesLLM /\ node \notin Running =>
        \A w \in Worker : outputs[w] # None <=> \E i \in 1..Len(request) : request[i] = w

\* Without an LLM no worker runs twice on a request: what it left stays.
OutputsKept ==
    [][\A w \in Worker : ~usesLLM /\ outputs[w] # None => outputs'[w] = outputs[w]]_vars

\* A request is carried to its end, and without an LLM nothing that was found on
\* the way is lost.
CarriedOut == OutputsKept /\ Finishes

\* A conflict is settled by a worker that took part in it: nobody outranks it
\* on a status, and nobody who took part in it is more confident on the others.
ResolutionSound ==
    \A f \in DOMAIN resolutions :
        LET w == resolutions[f].chosen
            S == Sources(f, outputs)
        IN  /\ w \in S
            /\ f = "status" => \A v \in S : Priority[v] <= Priority[w]
            /\ f \in NumericField \cup {"risk_level"} =>
                 \A v \in S : Has(outputs, v, "confidence") =>
                     /\ Has(outputs, w, "confidence")
                     /\ outputs[v].confidence <= outputs[w].confidence

\* What was asked is done, and what the answers disagree on is settled between
\* those who gave them (supervisor.py:509, conflict_resolution.py:305).
TopicsSettled == EveryTopicServed /\ ResolutionSound

\* The verdict "all checks normal" is not given when a worker failed.
NoFalseAllClear ==
    verdict = "all_normal" =>
        \A w \in Worker : outputs[w] # None => outputs[w].kind # "error"
=============================================================================
