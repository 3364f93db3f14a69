------------------------- MODULE ConflictResolution -------------------------
(***************************************************************************)
(* The rules of the orchestrator's conflict pipeline, as operators on the  *)
(* outputs of the workers: what ConflictDetector reports, which worker     *)
(* ConflictResolver believes and with what value, and the verdict that     *)
(* ResponseGenerator gives.                                                *)
(*                                                                         *)
(* An output is a record.  Its "kind" is "dict", "text" (anything else) or *)
(* "error" (the string BaseWorker leaves for an exception); its fields are *)
(* the keys the rules look at, None standing for a key that is missing.    *)
(***************************************************************************)
EXTENDS Integers, Sequences

CONSTANTS None,        \* a missing key, and the output of a worker not run yet
          Threshold    \* numeric_threshold, in percent

ASSUME ThresholdAssumption == Threshold \in 0..100

Worker == {"rag", "hr", "data", "analysis", "router", "governance",
           "compliance", "business_system", "im", "map"}

\* WORKER_PRIORITY; a worker that it does not list has priority 0.
Priority == [w \in Worker |->
    CASE w = "compliance" -> 10 [] w = "governance" -> 9
      [] w = "rag" -> 8         [] w = "data" -> 7
      [] w = "analysis" -> 6    [] w = "hr" -> 5
      [] w = "business_system" -> 4 [] w = "router" -> 3
      [] OTHER -> 0]

HealthyStatuses  == {"healthy", "compliant", "pass", "completed", "ok", "success", "running"}
WarningStatuses  == {"degraded", "warning", "partial"}
CriticalStatuses == {"critical", "non_compliant", "error", "down", "failed"}

NumericField  == {"count", "amount", "confidence"}
ConflictField == NumericField \cup {"status", "coverage", "risk_level"}

Has(out, w, key) == out[w] # None /\ out[w].kind = "dict" /\ out[w][key] # None

-----------------------------------------------------------------------------
(* ConflictDetector                                                         *)

\* The first of two keys that has a value is the one a worker is judged by; for
\* the status, "unknown" is no value.
StatusOf(o) == IF o.overall_status \notin {None, "unknown"}
               THEN o.overall_status ELSE o.status
RiskOf(o)   == IF o.risk_level # None THEN o.risk_level ELSE o.overall_risk

\* source_workers of the report about a field, when there is one.
Sources(f, out) ==
    {w \in Worker : out[w] # None /\ out[w].kind = "dict"
        /\ CASE f = "status"     -> StatusOf(out[w]) \notin {None, "unknown"}
             [] f = "risk_level" -> RiskOf(out[w]) # None
             [] f = "coverage"   -> out[w].count # None
             [] OTHER            -> out[w][f] # None}

\* _detect_numeric_conflicts: the largest value against another one.  A largest
\* value of zero is skipped, and the ratio of a negative one is not positive.
Diverges(f, S, out) ==
    \E high, low \in S :
        /\ \A w \in S : out[w][f] <= out[high][f]
        /\ out[high][f] > 0
        /\ 100 * (out[high][f] - out[low][f]) > Threshold * out[high][f]

InConflict(f, out) ==
    LET S == Sources(f, out)
    IN  CASE f = "status"     -> \E v, w \in S : StatusOf(out[v]) # StatusOf(out[w])
          [] f = "risk_level" -> \E v, w \in S : RiskOf(out[v]) # RiskOf(out[w])
          [] f = "coverage"   -> \E v, w \in S : out[v].count > 0 /\ out[w].count <= 0
          [] OTHER            -> Diverges(f, S, out)

Conflicts(out) == {f \in ConflictField : InConflict(f, out)}

-----------------------------------------------------------------------------
(* ConflictResolver                                                         *)

\* The first worker of S in the order in which the outputs were made.
First(S, order) ==
    order[CHOOSE i \in 1..Len(order) :
            order[i] \in S /\ \A j \in 1..(i - 1) : order[j] \notin S]

\* Mutants of ByPriority and ByConfidence: sorted the wrong way round; a later
\* worker wins even with a lower score.
ByPriorityAscending(S, order) ==
    First({w \in S : \A v \in S : Priority[w] <= Priority[v]}, order)
ByConfidenceFirst(S, out, order) ==
    LET scored == {w \in S : Has(out, w, "confidence")}
    IN  First(IF scored = {} THEN S ELSE scored, order)

\* _resolve_by_priority: sorted() is stable, so the earliest of the best.
ByPriority(S, order) ==
    First({w \in S : \A v \in S : Priority[v] <= Priority[w]}, order)

\* _resolve_by_confidence: the best score (scores are not negative), the first
\* worker when none has one.
ByConfidence(S, out, order) ==
    LET scored == {w \in S : Has(out, w, "confidence")}
        best   == {w \in scored : \A v \in scored :
                      out[v].confidence <= out[w].confidence}
    IN  First(IF scored = {} THEN S ELSE best, order)

\* _resolve_by_merge names the first source, and those that found data are first.
ByMerge(S, out, order) == First({w \in S : out[w].count > 0}, order)

Chosen(f, out, order) ==
    LET S == Sources(f, out)
    IN  CASE f = "status"   -> ByPriority(S, order)
          [] f = "coverage" -> ByMerge(S, out, order)
          [] OTHER          -> ByConfidence(S, out, order)

\* chosen_value: the key named by the report's field in the chosen output.
ValueFor(f, out, w) == IF f = "coverage" THEN "merged" ELSE out[w][f]

Resolution(f, out, order) ==
    LET w == Chosen(f, out, order)
    IN  [chosen |-> w, value |-> ValueFor(f, out, w)]

-----------------------------------------------------------------------------
(* ResponseGenerator                                                        *)

\* _format_verdict looks at the outputs that are dicts with a status.
Verdict(out) ==
    LET spoken == {w \in Worker : Has(out, w, "overall_status") \/ Has(out, w, "status")}
        stated(w) == IF out[w].overall_status # None
                     THEN out[w].overall_status ELSE out[w].status
    IN  CASE \A w \in Worker : out[w] = None                  -> "nothing_run"
          [] spoken = {}                                      -> "see_results"
          [] \A w \in spoken : stated(w) \in HealthyStatuses  -> "all_normal"
          [] \E w \in spoken : stated(w) \in CriticalStatuses -> "critical"
          [] \E w \in spoken : stated(w) \in WarningStatuses  -> "warning"
          [] OTHER                                            -> "done"
=============================================================================
