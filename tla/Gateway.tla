------------------------------- MODULE Gateway -------------------------------
(***************************************************************************)
(* The way of a chat request through the gateway: APIKeyMiddleware checks  *)
(* its key, FoolproofMiddleware its text, the routing engine picks a model,*)
(* the fallback chain tries one adapter after the other, and the usage of  *)
(* the answer goes to the ring buffer the budget is computed from.         *)
(***************************************************************************)
EXTENDS ApiKeys, SequencesExt

CONSTANTS Requests,     \* chat requests, each sent once
          Deployments,  \* adapters that may be configured by the environment
          MaxRetries,   \* max_retries of the FallbackChain
          Costs,        \* what a call to the LiteLLM proxy may cost
          Limits,       \* daily limits a budget may be given
          Hour, Day,    \* 3600 seconds and a day, in ticks
          BufferMax     \* maxlen of _token_buffer

VARIABLES
    configured,  \* adapters whose key or URL the environment sets
    chat,        \* where each request is, and its fallback chain
    buffer,      \* _token_buffer
    budget,      \* the budget of router_agent
    events       \* _budget_events

gatewayVars == <<configured, chat, buffer, budget, events>>
vars == <<keyVars, gatewayVars>>

\* The adapters in the order of their registration, and their prices.
Adapters == <<"mock", "deepseek", "qwen", "glm", "litellm">>
Adapter == Range(Adapters)
Stubs == {"deepseek", "qwen", "glm"}
Optional == Stubs \cup {"litellm"}
Cost == [mock |-> 0, deepseek |-> 10, qwen |-> 8, glm |-> 6, litellm |-> 0]

ASSUME GatewayAssumption ==
    /\ Deployments \subseteq SUBSET Optional
    /\ MaxRetries \in Nat
    /\ Hour \in Nat

Complexity == {"simple", "medium", "complex"}
Failed == {"401", "429", "400", "500"}
Stage == {"new", "queued", "trying", "answered"} \cup Failed
Chat == [stage : Stage, local : BOOLEAN, left : Seq(Adapter), by : Adapter \cup {None}]

TypeOK ==
    /\ KeysTypeOK
    /\ configured \subseteq Optional
    /\ chat \in [Requests -> Chat]
    /\ Len(buffer) <= BufferMax
    /\ budget = None \/ budget.status \in {"ok", "warning", "exceeded"}

Init ==
    /\ KeysInit
    /\ configured \in Deployments
    /\ chat = [r \in Requests |-> [stage |-> "new", local |-> FALSE,
                                   left |-> <<>>, by |-> None]]
    /\ buffer = <<>>
    /\ budget = None
    /\ events = <<>>

-----------------------------------------------------------------------------
(* APIKeyMiddleware                                                         *)

Stay(r, stage) == chat' = [chat EXCEPT ![r].stage = stage]

\* A request without a key passes as anonymous.
ArriveAnonymous(r) ==
    /\ chat[r].stage = "new"
    /\ Stay(r, "queued")
    /\ UNCHANGED <<keyVars, configured, buffer, budget, events>>

ArriveWithKey(r) ==
    /\ chat[r].stage = "new"
    /\ \E i \in Ids, n \in Estimates :
         \/ ~Valid(i) /\ Stay(r, "401") /\ UNCHANGED keyVars
         \/ Throttle(i, n) /\ Stay(r, "429")
         \/ Admit(i, n) /\ Stay(r, "queued")
    /\ UNCHANGED <<configured, buffer, budget, events>>

-----------------------------------------------------------------------------
(* FoolproofMiddleware, the routing engine and the order of the fallbacks    *)

\* Mutant of Rules: the rule for confidential text comes last.
RulesConfidentialLast ==
    {[priority |-> 30, keyword |-> TRUE, complexity |-> "any", model |-> "mock"],
     [priority |-> 10, keyword |-> FALSE, complexity |-> "simple", model |-> "mock"],
     [priority |-> 15, keyword |-> FALSE, complexity |-> "medium", model |-> "deepseek"],
     [priority |-> 20, keyword |-> FALSE, complexity |-> "complex", model |-> "glm"]}

\* routing_policy.yaml: keyword is set where a rule wants a word of its list.
Rules ==
    {[priority |-> 5, keyword |-> TRUE, complexity |-> "any", model |-> "mock"],
     [priority |-> 10, keyword |-> FALSE, complexity |-> "simple", model |-> "mock"],
     [priority |-> 15, keyword |-> FALSE, complexity |-> "medium", model |-> "deepseek"],
     [priority |-> 20, keyword |-> FALSE, complexity |-> "complex", model |-> "glm"]}

Matches(rule, confidential, complexity) ==
    /\ rule.complexity \in {complexity, "any"}
    /\ rule.keyword => confidential

\* The model of the first rule, by priority, that matches.
Routed(confidential, complexity) ==
    LET matching == {rule \in Rules : Matches(rule, confidential, complexity)}
    IN  (CHOOSE rule \in matching :
            \A other \in matching : rule.priority <= other.priority).model

\* get_available: the mock always passes its health check.
Available == configured \cup {"mock"}

\* A stub is registered whether it is configured or not, the LiteLLM adapter
\* only when it is.
Registered == configured \cup {"mock"} \cup Stubs

\* A stable sort by price: adapters of one price stay in registration order.
ByCost(S) ==
    LET Priced(c) == Keep(Adapters, {a \in S : Cost[a] = c})
    IN  Priced(0) \o Priced(6) \o Priced(8) \o Priced(10)

Shortened(s) == SubSeq(s, 1, Min({Len(s), MaxRetries}))

\* _build_fallback_order: the primary even if it is not available, the other
\* available adapters by price, the mock if it is not among them.
FallbackOrder(primary) ==
    LET chosen == IF primary \in Registered THEN <<primary>> ELSE <<>>
        others == ByCost(Available \ {primary})
        chain  == chosen \o others
    IN  Shortened(IF "mock" \in Range(chain) THEN chain ELSE Append(chain, "mock"))

\* The text names something destructive and the confirming header is missing.
Block(r) ==
    /\ chat[r].stage = "queued"
    /\ Stay(r, "400")
    /\ UNCHANGED <<keyVars, configured, buffer, budget, events>>

\* The model the client names, which may be unknown, or the one the engine picks.
Begin(r) ==
    /\ chat[r].stage = "queued"
    /\ \/ \E named \in Adapter \cup {"unknown"} :
            chat' = [chat EXCEPT ![r].stage = "trying",
                                 ![r].left = FallbackOrder(named)]
       \/ \E confidential \in BOOLEAN, c \in Complexity :
            chat' = [chat EXCEPT ![r].stage = "trying",
                                 ![r].local = confidential,
                                 ![r].left = FallbackOrder(Routed(confidential, c))]
    /\ UNCHANGED <<keyVars, configured, buffer, budget, events>>

-----------------------------------------------------------------------------
(* FallbackChain.execute: one step per attempt, awaited with a timeout       *)

\* A stub raises NotImplementedError whenever it is called.  When the last
\* adapter has failed, the RuntimeError is answered with 500.
AttemptFails(r) ==
    /\ chat[r].stage = "trying"
    /\ Head(chat[r].left) # "mock"
    /\ chat' = [chat EXCEPT ![r].left = Tail(@),
                            ![r].stage = IF Tail(chat[r].left) = <<>> THEN "500" ELSE @]
    /\ UNCHANGED <<keyVars, configured, buffer, budget, events>>

\* A ring of BufferMax entries.
Recorded(cost) ==
    LET entry == [at |-> now, cost |-> cost]
    IN  IF Len(buffer) < BufferMax THEN Append(buffer, entry)
        ELSE Append(Tail(buffer), entry)

\* The call answers and its usage is recorded; the proxy's model may have a price.
AttemptAnswers(r) ==
    /\ chat[r].stage = "trying"
    /\ Head(chat[r].left) \notin Stubs
    /\ chat' = [chat EXCEPT ![r].stage = "answered", ![r].by = Head(chat[r].left)]
    /\ \E cost \in IF Head(chat[r].left) = "mock" THEN {0} ELSE Costs :
         buffer' = Recorded(cost)
    /\ UNCHANGED <<keyVars, configured, budget, events>>

-----------------------------------------------------------------------------
(* The budget of router_agent                                               *)

Today == {n \in DOMAIN buffer : buffer[n].at >= (now \div Day) * Day}
Spend == MapThenSumSet(LAMBDA n : buffer[n].cost, Today)

\* Mutant of Status: at the limit is not yet exceeded.
StatusBeyond(spend, limit) ==
    CASE spend > limit -> "exceeded"
      [] spend <= limit /\ 10 * spend >= 8 * limit -> "warning"
      [] OTHER -> "ok"

Status(spend, limit) ==
    CASE spend >= limit -> "exceeded"
      [] spend < limit /\ 10 * spend >= 8 * limit -> "warning"
      [] OTHER -> "ok"

\* Mutant of Repeated: no event is held back.
RepeatedNever(type) == FALSE

\* _emit_event: at most one event of a type within an hour.
Repeated(type) ==
    \E n \in DOMAIN events : events[n].type = type /\ now - events[n].at < Hour

Recalculate(limit) ==
    LET status == Status(Spend, limit)
    IN  /\ budget' = [limit |-> limit, spend |-> Spend, status |-> status]
        /\ events' = IF status = "ok" \/ Repeated(status) THEN events
                     ELSE Append(events, [at |-> now, type |-> status])

SetBudget == \E limit \in Limits : Recalculate(limit)

\* get_budget, also called by every evaluation of the alert rules.
ReadBudget == budget # None /\ Recalculate(budget.limit)

Account ==
    /\ SetBudget \/ ReadBudget
    /\ UNCHANGED <<keyVars, configured, chat, buffer>>

-----------------------------------------------------------------------------

\* Keys are managed, and used for the other endpoints, all the time.
Keys == KeysNext /\ UNCHANGED gatewayVars

Arrive(r) == ArriveAnonymous(r) \/ ArriveWithKey(r)
Serve(r) == Block(r) \/ Begin(r) \/ AttemptFails(r) \/ AttemptAnswers(r)

Next == Keys \/ Account \/ \E r \in Requests : Arrive(r) \/ Serve(r)

Spec == Init /\ [][Next]_vars

-----------------------------------------------------------------------------

\* No chat request is answered with 500, whatever is configured and whatever
\* fails: the mock, which cannot fail, is always among the first three adapters.
NeverGivesUp == \A r \in Requests : chat[r].stage # "500"

\* A request the routing policy keeps local ("confidential / sensitive queries
\* stay local") is never handed to an adapter other than the mock, also when other
\* rules match the text: the chain behind the policy starts with the mock, and
\* the mock does not fail.
ConfidentialStaysLocal ==
    \A r \in Requests :
        chat[r].local => chat[r].left = <<>> \/ Head(chat[r].left) = "mock"

\* Two budget events of one type are an hour apart, and a budget that is read as
\* exceeded has its event (_recalculate and _emit_event).
EventsSpaced ==
    /\ \A m, n \in DOMAIN events :
         m < n /\ events[m].type = events[n].type => events[n].at - events[m].at >= Hour
    /\ budget # None /\ budget.status = "exceeded" =>
         \E n \in DOMAIN events : events[n].type = "exceeded"

\* Every chat request is answered, and a confidential one by nobody outside
\* (fallback.py:80, engine.py:114).
ChatServed == NeverGivesUp /\ ConfidentialStaysLocal
=============================================================================
