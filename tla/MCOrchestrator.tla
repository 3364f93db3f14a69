--------------------------- MODULE MCOrchestrator ---------------------------
(* Instances of Orchestrator for TLC. *)
EXTENDS Orchestrator

Dict == [kind |-> "dict", status |-> None, overall_status |-> None,
         risk_level |-> None, overall_risk |-> None,
         count |-> None, amount |-> None, confidence |-> None]
Error == [kind |-> "error"]
Text  == [kind |-> "text"]

Judged == {Error,
           [Dict EXCEPT !.status = "ok", !.confidence = 1, !.count = 4],
           [Dict EXCEPT !.overall_status = "unknown", !.status = "failed", !.count = 0,
                         !.confidence = 3],
           [Dict EXCEPT !.risk_level = "high", !.amount = 9, !.confidence = 2],
           [Dict EXCEPT !.overall_risk = "low", !.amount = -2]}
OkOrError == {Error, [Dict EXCEPT !.status = "ok"]}

NoNames == {}
TwoNames == {"rag", "unknown"}
FiveTopics == {"rag", "compliance", "analysis", "im", "map"}
TwoTopics == {"rag", "compliance"}
Both == {TRUE, FALSE}
WithoutLLM == {FALSE}
=============================================================================
