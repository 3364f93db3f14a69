------------------------ MODULE Orchestrator_proofs ------------------------
(***************************************************************************)
(* Proofs about Orchestrator: the graph runs at most 2 * MaxIterations + 4 *)
(* nodes on a request, whatever plans the LLM makes; without an LLM every  *)
(* worker the request calls for is run, once; and whatever the workers     *)
(* answer, a conflict is settled by the right one of those who took part.  *)
(***************************************************************************)
EXTENDS Orchestrator, Filters_proofs, TLAPS

\* How many nodes have been executed is a function of where the graph is and of
\* the supervisor's rounds, and the rounds are counted before a worker runs.
Paced ==
    /\ node = "supervisor" => visited = 2 * iteration /\ iteration <= MaxIterations
    /\ node \in Worker => visited = 2 * iteration - 1 /\ iteration <= MaxIterations
    /\ node = "conflict_detector"  => visited = 2 * iteration - 1
    /\ node = "conflict_resolver"  => visited = 2 * iteration
    /\ node = "response_generator" => visited = 2 * iteration + 1
    /\ node = "end"                => visited = 2 * iteration + 2
    /\ node = "raised"             => visited = 2 * iteration + 1 /\ iteration <= MaxIterations

PInv == TypeOK /\ Paced

USE OrchestratorAssumption DEF OrchestratorAssumption

\* The nodes the argument tells apart are different ones.
LEMMA NodesApart ==
  /\ "supervisor" \notin Worker
  /\ "end" \notin Worker /\ "raised" \notin Worker
  /\ Worker \cap Pipeline = {}
  BY DEF Worker, Pipeline

\* The supervisor hands over to a worker or to the conflict chain.
LEMMA RouteTargets ==
  \A steps, finish : Route(steps, finish) \in Worker \cup {"conflict_detector"}
  BY DEF Route

\* A round of the supervisor keeps the invariant, provided a forced one does not
\* call a worker.
LEMMA PlanKeeps ==
  ASSUME PInv, NEW steps, NEW finish, Plan(steps, finish),
         MayPlan \/ Route(steps, finish) = "conflict_detector"
  PROVE  PInv'
<1>1. /\ node = "supervisor"
      /\ node' \in Worker \cup {"conflict_detector"}
      /\ iteration' = iteration + 1 /\ visited' = visited + 1
      /\ UNCHANGED <<outputs, error, conflicts, resolutions>>
  BY RouteTargets DEF Plan
<1>2. iteration \in Nat /\ iteration <= MaxIterations /\ visited = 2 * iteration
  BY <1>1 DEF PInv, TypeOK, Paced
<1>3. node' \in Worker => iteration < MaxIterations
  BY NodesApart DEF Plan, MayPlan, Pipeline
<1>4. TypeOK'
  BY <1>1, <1>2 DEF PInv, TypeOK, Node, Pipeline
<1>5. Paced'
  BY <1>1, <1>2, <1>3, NodesApart DEF Paced, Pipeline
<1>6. QED
  BY <1>4, <1>5 DEF PInv

\* Every step keeps the invariant.
LEMMA StepKeeps ==
  ASSUME PInv, [Next]_vars
  PROVE  PInv'
<1>1. CASE ForceFinish
  BY <1>1, PlanKeeps DEF ForceFinish, Route
<1>2. CASE PlanByRules
  BY <1>2, PlanKeeps DEF PlanByRules
<1>3. CASE PlanByLLM
  <2>1. CASE Raise
    BY <2>1, NodesApart DEF Raise, PInv, TypeOK, Paced, Node, Pipeline
  <2>2. QED
    BY <1>3, <2>1, PlanKeeps DEF PlanByLLM
<1>4. ASSUME NEW w \in Worker, Work(w) PROVE PInv'
  <2>1. PICK o \in Outcome : outputs' = [outputs EXCEPT ![w] = o] /\ error' = (o.kind = "error")
    BY <1>4 DEF Work, Leave
  <2>2. /\ node \in Worker /\ node' = "supervisor" /\ visited' = visited + 1
        /\ UNCHANGED <<iteration, conflicts, resolutions>>
    BY <1>4 DEF Work
  <2>3. TypeOK'
    <3>1. error' \in BOOLEAN /\ outputs' \in [Worker -> Outcome \cup {None}]
      BY <2>1 DEF PInv, TypeOK
    <3>2. QED
      BY <2>2, <3>1 DEF PInv, TypeOK, Node
  <2>4. Paced'
    BY <2>2, NodesApart DEF PInv, TypeOK, Paced
  <2>5. QED
    BY <2>3, <2>4 DEF PInv
<1>5. CASE Detect
  BY <1>5, NodesApart DEF Detect, PInv, TypeOK, Paced, Node, Pipeline, Conflicts
<1>6. CASE Resolve
  BY <1>6, NodesApart DEF Resolve, PInv, TypeOK, Paced, Node, Pipeline
<1>7. CASE Respond
  BY <1>7, NodesApart DEF Respond, PInv, TypeOK, Paced, Node, Pipeline
<1>8. CASE UNCHANGED vars
  BY <1>8 DEF vars, PInv, TypeOK, Paced
<1>9. QED
  BY <1>1, <1>2, <1>3, <1>4, <1>5, <1>6, <1>7, <1>8 DEF Next

\* The initial states satisfy the invariant.
LEMMA InitHolds == Init => PInv
<1> SUFFICES ASSUME Init PROVE PInv
  OBVIOUS
<1>1. /\ node = "supervisor" /\ iteration = 0 /\ visited = 0
      /\ outputs = [w \in Worker |-> None]
      /\ error = FALSE /\ conflicts = {} /\ resolutions = <<>>
  BY DEF Init
<1>2. DOMAIN resolutions \subseteq ConflictField
  BY <1>1
<1>3. outputs \in [Worker -> Outcome \cup {None}] /\ iteration \in 0..(MaxIterations + 1)
  BY <1>1
<1>4. TypeOK
  BY <1>1, <1>2, <1>3 DEF TypeOK, Node
<1>5. QED
  BY <1>1, <1>4, NodesApart DEF PInv, Paced

\* Every reachable state of the graph is well typed.
THEOREM TypeCorrect == Spec => []TypeOK
  BY InitHolds, StepKeeps, PTL DEF Spec, PInv

\* The graph runs a bounded number of nodes on every request, for any bound on
\* the supervisor's rounds and any plans of the LLM.
THEOREM Bounded == Spec => []NodesBounded
<1>1. PInv => NodesBounded
  BY DEF PInv, TypeOK, Paced, NodesBounded, Node, Pipeline
<1>2. QED
  BY <1>1, InitHolds, StepKeeps, PTL DEF Spec

-----------------------------------------------------------------------------
(* Without an LLM: every topic is served, and once                          *)

Served == {w \in Worker : outputs[w] # None}
Unserved == {w \in Worker : outputs[w] = None}

\* The workers are listed in the order of their first output.
Ordered == order \in Seq(Worker) /\ Members(order) = Served

\* What is left of the plan shrinks by one worker per round, and covers what the
\* request calls for and nobody has served yet.
ByRules ==
    /\ request \in Seq(Worker) /\ Len(request) <= Len(Heuristics)
    /\ Served \subseteq Members(request)
    /\ plan \in Seq(Worker) /\ Members(plan) \subseteq Members(request)
    /\ node = "supervisor" /\ order = <<>> => iteration = 0
    /\ node = "supervisor" /\ order # <<>> =>
         /\ Members(request) \subseteq Served \cup Members(plan)
         /\ Len(Keep(plan, Unserved)) + iteration <= Len(request)
    /\ node \in Worker =>
         /\ node \in Members(plan) \ Served
         /\ Members(request) \subseteq Served \cup Members(plan)
         /\ Len(plan) + iteration <= Len(request) + 1
    /\ node \notin Running /\ Len(Heuristics) <= MaxIterations => Served = Members(request)

RInv == PInv /\ Ordered /\ (~usesLLM => ByRules)

LEMMA HeuristicsType == Heuristics \in Seq(Worker) /\ Len(Heuristics) = 9
  BY DEF Heuristics, Worker

\* The keyword rules name workers, each heuristic at most once.
LEMMA RequestType ==
  ASSUME NEW matched
  PROVE  KeywordPlan(matched) \in Seq(Worker) /\ Len(KeywordPlan(matched)) <= Len(Heuristics)
  BY HeuristicsType, KeepMembers DEF KeywordPlan

\* As long as nobody has answered, the order is empty, and only then.
LEMMA NobodyServed == ASSUME Ordered PROVE order = <<>> <=> Served = {}
<1>1. ASSUME order # <<>> PROVE Served # {}
  <2>1. 1 \in 1..Len(order)
    BY <1>1, EmptySeq DEF Ordered
  <2> QED  BY <2>1 DEF Ordered, Members
<1> QED  BY <1>1, MembersEmpty DEF Ordered

\* A round by the rules: the next worker has not answered yet, and when none is
\* left every topic of the request is served.
LEMMA RulesRound ==
  ASSUME RInv, PlanByRules
  PROVE  ByRules'
<1> DEFINE steps == IF order = <<>> THEN request ELSE Remaining
<1>1. /\ ByRules /\ Ordered /\ TypeOK /\ node = "supervisor" /\ iteration \in Nat
      /\ plan' = steps /\ node' = Route(steps, steps = <<>>) /\ iteration' = iteration + 1
      /\ UNCHANGED <<request, order, outputs>>
  BY DEF RInv, PInv, PlanByRules, Plan, TypeOK
<1>2. Served' = Served
  BY <1>1 DEF Served
<1>3. Remaining = Keep(plan, Unserved)
  BY DEF Remaining, Unserved
<1>4. /\ Remaining \in Seq(Worker) /\ Members(Remaining) = Members(plan) \cap Unserved
      /\ Remaining = <<>> <=> Members(plan) \cap Unserved = {}
  BY <1>1, <1>3, KeepMembers, KeepNothing DEF ByRules
<1>5. Members(plan) \subseteq Worker /\ Members(request) \subseteq Worker /\ Served \cap Unserved = {}
      /\ Served \cup Unserved = Worker
  BY <1>1 DEF ByRules, Members, Served, Unserved
<1>6. /\ steps \in Seq(Worker) /\ Members(steps) \subseteq Members(request) \ Served
      /\ Members(request) \subseteq Served \cup Members(steps)
      /\ Len(steps) + iteration <= Len(request)
      /\ steps = <<>> => Members(steps) = {}
  <2>1. CASE order = <<>>
    BY <2>1, <1>1, NobodyServed, MembersEmpty DEF ByRules
  <2>2. CASE order # <<>>
    BY <2>2, <1>1, <1>3, <1>4, <1>5, MembersEmpty DEF ByRules
  <2> QED  BY <2>1, <2>2
<1> HIDE DEF steps
<1>7. steps # <<>> => Head(steps) \in Members(steps)
  <2> SUFFICES ASSUME steps # <<>> PROVE Head(steps) \in Members(steps)
    OBVIOUS
  <2>1. 1 \in 1..Len(steps) /\ Head(steps) = steps[1]
    BY <1>6
  <2> QED  BY <2>1 DEF Members
<1>8. CASE steps = <<>>
  <2>1. node' = "conflict_detector"
    BY <1>1, <1>8 DEF Route
  <2>2. node' \notin Worker /\ node' # "supervisor"
    BY <2>1 DEF Worker
  <2>3. Members(request) = Served
    BY <1>1, <1>6, <1>8 DEF ByRules
  <2> QED  BY <1>1, <1>2, <1>6, <1>8, <2>2, <2>3 DEF ByRules
<1>9. CASE steps # <<>>
  <2>1. Head(steps) \in Worker \cap Members(steps)
    BY <1>5, <1>6, <1>7, <1>9
  <2>2. node' = Head(steps)
    BY <1>1, <1>9, <2>1 DEF Route
  <2>3. node' \in Worker /\ node' \in Members(steps) \ Served /\ node' # "supervisor"
    BY <1>6, <2>1, <2>2 DEF Worker
  <2>4. Len(steps) + (iteration + 1) <= Len(request) + 1
    BY <1>1, <1>6, LenProperties DEF ByRules
  <2> QED  BY <1>1, <1>2, <1>6, <2>3, <2>4 DEF ByRules, Running
<1> QED  BY <1>8, <1>9

\* The forced end comes when the rounds are used up, and there are more rounds
\* than topics.
LEMMA ForcedRound ==
  ASSUME RInv, ForceFinish, ~usesLLM
  PROVE  ByRules'
<1>1. /\ ByRules /\ Ordered /\ node = "supervisor" /\ iteration \in Nat
      /\ iteration >= MaxIterations
      /\ plan' = <<>> /\ node' = "conflict_detector"
      /\ UNCHANGED <<request, order, outputs>>
  BY DEF RInv, PInv, ForceFinish, MayPlan, Plan, TypeOK, Route
<1>2. Served' = Served /\ node' \notin Worker /\ node' # "supervisor"
  BY <1>1 DEF Served, Worker
<1>3. ASSUME Len(Heuristics) <= MaxIterations PROVE Served = Members(request)
  <2>1. order # <<>>
    BY <1>1, <1>3, HeuristicsType DEF ByRules
  <2>2. Keep(plan, Unserved) \in Seq(Worker) /\ Len(Keep(plan, Unserved)) <= 0
    <3>1. /\ Keep(plan, Unserved) \in Seq(Worker)
          /\ Len(Keep(plan, Unserved)) \in Nat /\ Len(request) \in Nat
      BY <1>1, KeepMembers, LenProperties DEF ByRules
    <3>2. /\ Len(Keep(plan, Unserved)) + iteration <= Len(request)
          /\ Len(request) <= Len(Heuristics)
      BY <1>1, <2>1 DEF ByRules
    <3> QED  BY <1>1, <1>3, <3>1, <3>2, HeuristicsType
  <2>3. Keep(plan, Unserved) = <<>>
    BY <2>2, EmptySeq
  <2>4. Members(plan) \cap Unserved = {}
    BY <1>1, <2>3, KeepNothing DEF ByRules
  <2>5. Members(request) \subseteq Worker
    BY <1>1 DEF ByRules, Members
  <2> QED  BY <1>1, <2>1, <2>4, <2>5 DEF ByRules, Served, Unserved
<1>4. plan' \in Seq(Worker) /\ Members(plan') = {}
  BY <1>1, EmptySeq, MembersEmpty
<1> QED  BY <1>1, <1>2, <1>3, <1>4 DEF ByRules

\* A worker that has run is served, and the plan has one step less to run.
LEMMA WorkKeeps ==
  ASSUME RInv, NEW w \in Worker, Work(w)
  PROVE  Ordered' /\ (~usesLLM => ByRules')
<1>1. PICK o \in Outcome : Leave(w, o)
  BY DEF Work
<1>2. /\ TypeOK /\ Ordered /\ node = w /\ node' = "supervisor"
      /\ outputs' = [outputs EXCEPT ![w] = o] /\ o # None
      /\ order' = IF outputs[w] = None THEN Append(order, w) ELSE order
      /\ UNCHANGED <<request, iteration, plan, usesLLM>>
  BY <1>1, OutcomeAssumption DEF RInv, PInv, Work, Leave
<1>3. Served' = Served \cup {w} /\ Unserved' = Unserved \ {w}
  BY <1>2 DEF Served, Unserved, TypeOK
<1>4. Ordered'
  <2>1. CASE outputs[w] = None
    <3>1. Append(order, w) \in Seq(Worker) /\ Members(Append(order, w)) = Members(order) \cup {w}
      BY <1>2, MembersAppend, AppendProperties DEF Ordered
    <3> QED  BY <1>2, <1>3, <2>1, <3>1 DEF Ordered
  <2>2. CASE outputs[w] # None
    <3>1. w \in Served
      BY <2>2 DEF Served
    <3> QED  BY <1>2, <1>3, <2>2, <3>1 DEF Ordered
  <2> QED  BY <2>1, <2>2
<1>5. ASSUME ~usesLLM PROVE ByRules'
  <2>1. /\ ByRules /\ w \in Members(plan) \ Served
        /\ Members(request) \subseteq Served \cup Members(plan)
        /\ Len(plan) + iteration <= Len(request) + 1
        /\ iteration \in Nat
    BY <1>2, <1>5 DEF RInv, ByRules, TypeOK
  <2>2. Len(Keep(plan, Unserved')) < Len(plan)
    <3>1. w \in Members(plan) \ Unserved'
      BY <1>3, <2>1
    <3> HIDE DEF Unserved
    <3> QED  BY <2>1, <3>1, KeepShorter DEF ByRules
  <2>3. /\ Keep(plan, Unserved') \in Seq(Worker) /\ Len(Keep(plan, Unserved')) \in Nat
        /\ Len(plan) \in Nat /\ Len(request) \in Nat
    BY <2>1, KeepMembers, LenProperties DEF ByRules
  <2>4. Len(Keep(plan, Unserved')) + iteration <= Len(request)
    BY <2>1, <2>2, <2>3
  <2>5. (Keep(plan, Unserved))' = Keep(plan, Unserved')
    BY <1>2
  <2>6. order' # <<>>
    <3>1. w \in Served'
      BY <1>3
    <3> QED  BY <1>4, <3>1, MembersEmpty DEF Ordered
  <2>7. node' \notin Worker /\ node' \in Running
    BY <1>2 DEF Worker, Running
  <2>8. Members(request) \subseteq Served' \cup Members(plan)
    BY <1>3, <2>1
  <2>9. Served' \subseteq Members(request)
    BY <1>3, <2>1 DEF ByRules
  <2> QED  BY <1>2, <2>1, <2>4, <2>5, <2>6, <2>7, <2>8, <2>9 DEF ByRules
<1> QED  BY <1>4, <1>5

\* The conflict chain changes neither the plan nor what the workers left.
LEMMA ChainKeeps ==
  ASSUME RInv, \/ node \notin Running /\ node' \notin Running
               \/ node' = node,
         UNCHANGED <<usesLLM, request, iteration, plan, order, outputs>>
  PROVE  Ordered' /\ (~usesLLM => ByRules')
<1>1. Served' = Served /\ Unserved' = Unserved
  BY DEF Served, Unserved
<1>2. Ordered'
  BY <1>1 DEF RInv, Ordered
<1>3. ASSUME ~usesLLM PROVE ByRules'
  <2>1. ByRules
    BY <1>3 DEF RInv
  <2>2. (Keep(plan, Unserved))' = Keep(plan, Unserved)
    BY <1>1
  <2> QED  BY <1>1, <2>1, <2>2 DEF ByRules, Running
<1> QED  BY <1>2, <1>3

LEMMA RulesHold == RInv /\ [Next]_vars => RInv'
<1> SUFFICES ASSUME RInv, [Next]_vars PROVE RInv'
  OBVIOUS
<1>1. PInv'
  BY StepKeeps DEF RInv
<1>2. Ordered' /\ (~usesLLM => ByRules') /\ usesLLM' = usesLLM
  <2>1. CASE ForceFinish
    <3>1. Ordered' /\ usesLLM' = usesLLM
      BY <2>1 DEF ForceFinish, Plan, RInv, Ordered, Served
    <3> QED  BY <2>1, <3>1, ForcedRound
  <2>2. CASE PlanByRules
    <3>1. Ordered' /\ usesLLM' = usesLLM
      BY <2>2 DEF PlanByRules, Plan, RInv, Ordered, Served
    <3> QED  BY <2>2, <3>1, RulesRound
  <2>3. CASE PlanByLLM
    BY <2>3 DEF PlanByLLM, Plan, Raise, RInv, Ordered, Served
  <2>4. ASSUME NEW w \in Worker, Work(w)
        PROVE  Ordered' /\ (~usesLLM => ByRules') /\ usesLLM' = usesLLM
    BY <2>4, WorkKeeps DEF Work
  <2>5. CASE Detect \/ Resolve \/ Respond
    BY <2>5, ChainKeeps DEF Detect, Resolve, Respond, Running, Worker
  <2>6. CASE UNCHANGED vars
    BY <2>6, ChainKeeps DEF vars
  <2> QED  BY <2>1, <2>2, <2>3, <2>4, <2>5, <2>6 DEF Next
<1> QED  BY <1>1, <1>2 DEF RInv

LEMMA RulesStart == Init => RInv
<1> SUFFICES ASSUME Init PROVE RInv
  OBVIOUS
<1>1. PInv
  BY InitHolds
<1>2. /\ node = "supervisor" /\ iteration = 0 /\ plan = <<>> /\ order = <<>>
      /\ outputs = [w \in Worker |-> None]
  BY DEF Init
<1>3. Served = {}
  BY <1>2 DEF Served
<1>4. <<>> \in Seq(Worker)
  BY EmptySeq
<1>5. ASSUME ~usesLLM PROVE ByRules
  <2>1. request \in Seq(Worker) /\ Len(request) <= Len(Heuristics)
    BY <1>5, RequestType DEF Init
  <2> QED  BY <1>2, <1>3, <1>4, <2>1, MembersEmpty DEF ByRules, Worker, Running
<1> QED  BY <1>1, <1>2, <1>3, <1>4, <1>5, MembersEmpty DEF RInv, Ordered

\* Without an LLM and with at least as many rounds as there are keyword lists
\* (ten, by default, for nine), every worker the request calls for has left an
\* output when the conflict chain starts, and no other worker has.
THEOREM TopicsServed == Len(Heuristics) <= MaxIterations => (Spec => []EveryTopicServed)
<1> SUFFICES ASSUME Len(Heuristics) <= MaxIterations PROVE Spec => []EveryTopicServed
  OBVIOUS
<1>1. RInv => EveryTopicServed
  BY DEF RInv, ByRules, EveryTopicServed, Served, Members
<1>2. QED
  BY <1>1, RulesStart, RulesHold, PTL DEF Spec

\* Without an LLM no worker runs twice on a request, however many rounds there
\* are and whatever fails: what a worker left is never overwritten.
THEOREM OutputsStay == Spec => OutputsKept
<1>1. RInv /\ [Next]_vars =>
        [\A w \in Worker : ~usesLLM /\ outputs[w] # None => outputs'[w] = outputs[w]]_vars
  <2> SUFFICES ASSUME RInv, Next, NEW w \in Worker, ~usesLLM, outputs[w] # None
               PROVE  outputs'[w] = outputs[w]
    OBVIOUS
  <2>1. CASE ForceFinish \/ PlanByRules \/ PlanByLLM
    BY <2>1 DEF ForceFinish, PlanByRules, PlanByLLM, Plan, Raise
  <2>2. ASSUME NEW v \in Worker, Work(v) PROVE outputs'[w] = outputs[w]
    <3>1. v # w
      BY <2>2 DEF RInv, ByRules, Work, Served
    <3>2. PICK o \in Outcome : outputs' = [outputs EXCEPT ![v] = o]
      BY <2>2 DEF Work, Leave
    <3> QED  BY <3>1, <3>2
  <2>3. CASE Detect \/ Resolve \/ Respond
    BY <2>3 DEF Detect, Resolve, Respond
  <2> QED  BY <2>1, <2>2, <2>3 DEF Next
<1>2. QED
  BY <1>1, RulesStart, RulesHold, PTL DEF Spec, OutputsKept

-----------------------------------------------------------------------------
(* A conflict is settled by the right worker                                *)

\* The first worker of a set in the order of the outputs is one of the set.
LEMMA FirstOfSet ==
  ASSUME NEW S, NEW seq \in Seq(Worker), Members(seq) \cap S # {}
  PROVE  First(S, seq) \in S
<1> DEFINE At == {i \in 1..Len(seq) : seq[i] \in S}
<1>1. At \in SUBSET Nat /\ At # {} /\ Len(seq) \in Nat
  BY LenProperties DEF Members
<1>2. PICK i \in At : \A j \in At : i <= j
  <2> HIDE DEF At
  <2> QED  BY <1>1, Least
<1>3. i \in 1..Len(seq) /\ seq[i] \in S /\ \A j \in 1..(i - 1) : seq[j] \notin S
  BY <1>1, <1>2
<1> DEFINE k == CHOOSE n \in 1..Len(seq) :
                  seq[n] \in S /\ \A j \in 1..(n - 1) : seq[j] \notin S
<1>4. seq[k] \in S
  BY <1>3
<1> QED  BY <1>4 DEF First

LEMMA WorkerFinite == IsFiniteSet(Worker)
<1> DEFINE all == <<"rag", "hr", "data", "analysis", "router", "governance",
                    "compliance", "business_system", "im", "map">>
<1>1. all \in Seq(Worker) /\ Len(all) = 10
  BY DEF Worker
<1>2. \A w \in Worker : \E i \in 1..10 : all[i] = w
  BY DEF Worker
<1> HIDE DEF all
<1>3. Worker \subseteq Members(all)
  BY <1>1, <1>2 DEF Members
<1> QED  BY <1>1, <1>3, MembersFinite, FS_Subset

\* What the resolver may assume of the outputs.
LEMMA ScoresTyped ==
  ASSUME TypeOK, NEW w \in Worker, Has(outputs, w, "confidence")
  PROVE  outputs[w].confidence \in Nat
  BY OutcomeAssumption DEF TypeOK, Has

\* The outcome of a status conflict: the source with the highest priority.
LEMMA BestByPriority ==
  ASSUME NEW S \in SUBSET Worker, S # {}, NEW seq \in Seq(Worker), S \subseteq Members(seq)
  PROVE  ByPriority(S, seq) \in {w \in S : \A v \in S : Priority[v] <= Priority[w]}
<1>1. IsFiniteSet(S)
  BY WorkerFinite, FS_Subset
<1>2. \A w \in S : Priority[w] \in Int
  BY DEF Priority
<1>3. \E w \in S : \A v \in S : Priority[v] <= Priority[w]
  BY <1>1, <1>2, Highest
<1> QED  BY <1>3, FirstOfSet DEF ByPriority

\* The outcome of the others: nobody among the sources is more confident.
LEMMA BestByConfidence ==
  ASSUME TypeOK, NEW S \in SUBSET Worker, S # {}, Ordered, S \subseteq Members(order)
  PROVE  /\ ByConfidence(S, outputs, order) \in S
         /\ \A v \in S : Has(outputs, v, "confidence") =>
              /\ Has(outputs, ByConfidence(S, outputs, order), "confidence")
              /\ outputs[v].confidence <= outputs[ByConfidence(S, outputs, order)].confidence
<1> DEFINE scored == {w \in S : Has(outputs, w, "confidence")}
           score == [w \in scored |-> outputs[w].confidence]
           best == {w \in scored : \A v \in scored : outputs[v].confidence <= outputs[w].confidence}
           chosen == ByConfidence(S, outputs, order)
<1>1. chosen = First(IF scored = {} THEN S ELSE best, order)
  BY DEF ByConfidence
<1>2. CASE scored = {}
  <2>1. chosen \in S
    BY <1>1, <1>2, FirstOfSet DEF Ordered
  <2> QED  BY <1>2, <2>1
<1>3. CASE scored # {}
  <2>1. IsFiniteSet(scored)
    BY WorkerFinite, FS_Subset
  <2>2. \A w \in scored : score[w] \in Int
    BY ScoresTyped
  <2>3. \E w \in scored : \A v \in scored : score[v] <= score[w]
    <3> HIDE DEF scored, score
    <3> QED  BY <1>3, <2>1, <2>2, Highest
  <2>4. best # {} /\ best \subseteq Members(order)
    BY <2>3
  <2>5. chosen \in best
    BY <1>1, <1>3, <2>4, FirstOfSet DEF Ordered
  <2> QED  BY <2>5
<1> QED  BY <1>2, <1>3

\* What ResolutionSound says of one resolution.
Fits(f, w) ==
    LET S == Sources(f, outputs)
    IN  /\ w \in S
        /\ f = "status" => \A v \in S : Priority[v] <= Priority[w]
        /\ f \in NumericField \cup {"risk_level"} =>
             \A v \in S : Has(outputs, v, "confidence") =>
                 /\ Has(outputs, w, "confidence")
                 /\ outputs[v].confidence <= outputs[w].confidence

LEMMA ChosenFits ==
  ASSUME TypeOK, Ordered, NEW f \in Conflicts(outputs)
  PROVE  Fits(f, Chosen(f, outputs, order))
<1> DEFINE S == Sources(f, outputs)
<1>1. S \subseteq Worker /\ S \subseteq Members(order)
  BY DEF Sources, Ordered, Served
<1>2. f \in ConflictField /\ InConflict(f, outputs)
  BY DEF Conflicts
<1>3. S # {}
  BY <1>2 DEF InConflict, Diverges, ConflictField, NumericField
<1>4. CASE f = "status"
  <2>1. Chosen(f, outputs, order) = ByPriority(S, order)
    BY <1>4 DEF Chosen
  <2> HIDE DEF S
  <2>2. ByPriority(S, order) \in {w \in S : \A v \in S : Priority[v] <= Priority[w]}
    BY <1>1, <1>3, BestByPriority DEF Ordered
  <2> QED  BY <1>4, <2>1, <2>2 DEF Fits, S, NumericField
<1>5. CASE f = "coverage"
  <2>1. Chosen(f, outputs, order) = ByMerge(S, outputs, order)
    BY <1>5 DEF Chosen
  <2>2. \E v \in S : outputs[v].count > 0
    BY <1>2, <1>5 DEF InConflict
  <2> HIDE DEF S
  <2>3. ByMerge(S, outputs, order) \in S
    <3>1. First({w \in S : outputs[w].count > 0}, order) \in {w \in S : outputs[w].count > 0}
      BY <1>1, <2>2, FirstOfSet DEF Ordered
    <3> QED  BY <3>1 DEF ByMerge
  <2> QED  BY <1>5, <2>1, <2>3 DEF Fits, S, NumericField
<1>6. CASE f \in NumericField \cup {"risk_level"}
  <2>1. Chosen(f, outputs, order) = ByConfidence(S, outputs, order) /\ f # "status"
    BY <1>6 DEF Chosen, NumericField
  <2> HIDE DEF S
  <2>2. /\ ByConfidence(S, outputs, order) \in S
        /\ \A v \in S : Has(outputs, v, "confidence") =>
              /\ Has(outputs, ByConfidence(S, outputs, order), "confidence")
              /\ outputs[v].confidence <= outputs[ByConfidence(S, outputs, order)].confidence
    BY <1>1, <1>3, BestByConfidence
  <2> QED  BY <2>1, <2>2 DEF Fits, S
<1> QED  BY <1>2, <1>4, <1>5, <1>6 DEF ConflictField

\* Before the resolver has run there is no resolution; from then on the
\* resolutions are those of the outputs, which no longer change.
Settled ==
    /\ node \notin {"response_generator", "end"} => resolutions = <<>>
    /\ node = "conflict_resolver" => conflicts = Conflicts(outputs)
    /\ node \in {"response_generator", "end"} => \A f \in DOMAIN resolutions : Fits(f, resolutions[f].chosen)

SInv == RInv /\ Settled

LEMMA SettledStart == Init => SInv
<1> SUFFICES ASSUME Init PROVE SInv
  OBVIOUS
<1>1. RInv
  BY RulesStart
<1>2. Settled
  BY DEF Init, Settled
<1> QED  BY <1>1, <1>2 DEF SInv

LEMMA SettledHolds == SInv /\ [Next]_vars => SInv'
<1> SUFFICES ASSUME SInv, [Next]_vars PROVE SInv'
  OBVIOUS
<1>1. RInv' /\ RInv /\ Settled /\ TypeOK /\ Ordered
  BY RulesHold DEF SInv, RInv, PInv
<1>2. Settled'
  <2>1. CASE ForceFinish \/ PlanByRules \/ PlanByLLM
    <3>1. Raise \/ \E steps, finish : Plan(steps, finish)
      BY <2>1 DEF ForceFinish, PlanByRules, PlanByLLM
    <3>2. /\ node = "supervisor"
          /\ node' \in Worker \cup {"conflict_detector", "raised"}
          /\ UNCHANGED resolutions
      BY <3>1, RouteTargets DEF Plan, Raise
    <3> QED  BY <1>1, <3>2 DEF Settled, Worker
  <2>2. ASSUME NEW w \in Worker, Work(w) PROVE Settled'
    BY <1>1, <2>2 DEF Settled, Work, Worker
  <2>3. CASE Detect
    BY <1>1, <2>3 DEF Settled, Detect, Conflicts, InConflict, Diverges, Sources
  <2>4. CASE Resolve
    <3>1. /\ resolutions' = [f \in Conflicts(outputs) |-> Resolution(f, outputs, order)]
          /\ node' = "response_generator" /\ UNCHANGED <<outputs, order>>
      BY <1>1, <2>4 DEF Resolve, Settled
    <3>2. ASSUME NEW f \in Conflicts(outputs) PROVE Fits(f, resolutions'[f].chosen)
      <4>1. resolutions'[f].chosen = Chosen(f, outputs, order)
        BY <3>1 DEF Resolution
      <4> QED  BY <1>1, <4>1, ChosenFits
    <3>3. \A f \in DOMAIN resolutions' : Fits(f, resolutions'[f].chosen)
      BY <3>1, <3>2
    <3>4. \A f, w : Fits(f, w)' <=> Fits(f, w)
      BY <3>1 DEF Fits, Sources, Has, StatusOf, RiskOf
    <3> QED  BY <3>1, <3>3, <3>4 DEF Settled
  <2>5. CASE Respond \/ UNCHANGED vars
    <3>1. /\ UNCHANGED <<outputs, resolutions, conflicts>>
          /\ \/ node' = node
             \/ node = "response_generator" /\ node' = "end"
      BY <2>5 DEF Respond, vars
    <3>2. \A f, w : Fits(f, w)' <=> Fits(f, w)
      BY <3>1 DEF Fits, Sources, Has, StatusOf, RiskOf
    <3>3. Conflicts(outputs)' = Conflicts(outputs)
      BY <3>1
    <3> QED  BY <1>1, <3>1, <3>2, <3>3 DEF Settled
  <2> QED  BY <2>1, <2>2, <2>3, <2>4, <2>5 DEF Next
<1> QED  BY <1>1, <1>2 DEF SInv

\* Whatever the workers answer, in whatever order and whichever of them fail, a
\* conflict is settled by a worker that took part in it: nobody outranks it on a
\* status, and nobody who took part is more confident on the other fields.
THEOREM ConflictsSettled == Spec => []ResolutionSound
<1>1. SInv => ResolutionSound
  BY DEF SInv, Settled, ResolutionSound, Fits
<1>2. QED
  BY <1>1, SettledStart, SettledHolds, PTL DEF Spec

\* Both together: what was asked is done, and what the answers disagree on is
\* settled between those who gave them.
THEOREM Settles == Len(Heuristics) <= MaxIterations => (Spec => []TopicsSettled)
<1> SUFFICES ASSUME Len(Heuristics) <= MaxIterations PROVE Spec => []TopicsSettled
  OBVIOUS
<1>1. EveryTopicServed /\ ResolutionSound => TopicsSettled
  BY DEF TopicsSettled
<1>2. Spec => []EveryTopicServed
  BY TopicsServed
<1>3. QED
  BY <1>1, <1>2, ConflictsSettled, PTL
=============================================================================
