------------------------------ MODULE Alerting ------------------------------
(***************************************************************************)
(* The alert rules of the observability agent: the metrics they are        *)
(* compared with come from the ring of spans and from the budget; every    *)
(* evaluation extends a baseline the drift is measured against.            *)
(***************************************************************************)
EXTENDS Integers, Sequences, FiniteSets, FiniteSetsExt, SequencesExt

CONSTANTS
    RuleIds,        \* metric and operator
    Thresholds,     \* of error_rate, in percent
    MaxSpans,       \* of the ring of spans (20000)
    MaxAlerts,      \* of the deque of alerts (1000)
    Suppress,       \* _SUPPRESS_SECONDS (300)
    AlertWindow,    \* _BASELINE_WINDOW (30)
    MaxBaseline,    \* of the deque of snapshots (120)
    LastSecond      \* bound of the clock

ASSUME AlertingAssumption ==
    /\ {MaxSpans, MaxAlerts, AlertWindow, MaxBaseline, Suppress} \subseteq Nat \ {0}
    /\ IsFiniteSet(RuleIds) /\ Cardinality(RuleIds) <= MaxAlerts /\ AlertWindow < MaxBaseline /\ Thresholds \subseteq 0..100

VARIABLES
    second,     \* time.time()
    spans,      \* the statuses in the ring
    rules,      \* the rules that exist: enabled, and their threshold
    alerts,     \* recorded alerts: rule and time
    baseline    \* the error rates of the evaluations

alertVars == <<second, spans, rules, alerts, baseline>>

Newest(s, n) == IF Len(s) <= n THEN s ELSE SubSeq(s, Len(s) - n + 1, Len(s))

\* get_trace_stats: errors among the spans, in percent.
ErrorRate ==
    IF spans = <<>> THEN 0
    ELSE (100 * Cardinality({n \in DOMAIN spans : spans[n] = "error"})) \div Len(spans)

AlertingInit ==
    /\ second = 0 /\ spans = <<>> /\ alerts = <<>> /\ baseline = <<>>
    /\ rules \in [RuleIds -> [enabled : {TRUE}, threshold : Thresholds]]

PassSecond ==
    /\ second < LastSecond /\ second' = second + 1
    /\ UNCHANGED <<spans, rules, alerts, baseline>>

RecordSpan(status) ==
    /\ spans' = Newest(Append(spans, status), MaxSpans)
    /\ UNCHANGED <<second, rules, alerts, baseline>>

SetAlertRule(r, enabled, threshold) ==
    /\ rules' = [s \in DOMAIN rules \cup {r} |->
                    IF s = r THEN [enabled |-> enabled, threshold |-> threshold] ELSE rules[s]]
    /\ UNCHANGED <<second, spans, alerts, baseline>>

DeleteAlertRule(r) ==
    /\ r \in DOMAIN rules
    /\ rules' = [s \in DOMAIN rules \ {r} |-> rules[s]]
    /\ UNCHANGED <<second, spans, alerts, baseline>>

Triggered == {r \in DOMAIN rules : rules[r].enabled /\ ErrorRate > rules[r].threshold}

\* Mutant of Suppressed: only the newest alert is looked at.
SuppressedByNewest(r) ==
    alerts # <<>> /\ Last(alerts).rule = r /\ second - Last(alerts).at < Suppress

\* An alert of the rule that is still kept and young keeps it quiet.
Suppressed(r) == \E n \in DOMAIN alerts : alerts[n].rule = r /\ second - alerts[n].at < Suppress

\* evaluate_alerts: the snapshot first, then the rules in their order.
Evaluate ==
    /\ baseline' = Newest(Append(baseline, ErrorRate), MaxBaseline)
    /\ \E order \in SetToSeqs({r \in Triggered : ~Suppressed(r)}) :
        alerts' = Newest(alerts \o [n \in DOMAIN order |-> [rule |-> order[n], at |-> second]], MaxAlerts)
    /\ UNCHANGED <<second, spans, rules>>

\* _compute_drift: the newest value against all that is older than the window.
Drift ==
    LET older == SubSeq(baseline, 1, Len(baseline) - AlertWindow)
        now == Last(baseline)
        total == FoldLeft(+, 0, older)
        distance == now * Len(older) - total
    IN  IF Len(baseline) < AlertWindow + 1 THEN "insufficient_data"
        ELSE IF /\ 2 * (IF distance < 0 THEN -distance ELSE distance) >= total
                /\ distance # 0
        THEN "drift_detected" ELSE "ok"

AlertingNext ==
    \/ PassSecond
    \/ \E status \in {"ok", "error"} : RecordSpan(status)
    \/ \E r \in RuleIds, enabled \in BOOLEAN, t \in Thresholds : SetAlertRule(r, enabled, t)
    \/ \E r \in RuleIds : DeleteAlertRule(r)
    \/ Evaluate

AlertingSpec == AlertingInit /\ [][AlertingNext]_alertVars

-----------------------------------------------------------------------------
(* However the rules are changed, deleted and made again between the       *)
(* evaluations, a rule that is triggered has one alert younger than the    *)
(* suppression time after an evaluation, none is repeated and none pushed  *)
(* out (alerting.py:167-223).                                              *)
OneYoungAlert ==
    [][baseline' # baseline =>
        \A r \in RuleIds :
            LET young == {n \in DOMAIN alerts' : alerts'[n].rule = r /\ second - alerts'[n].at < Suppress}
            IN  Cardinality(young) <= 1 /\ (r \in Triggered => young # {})]_alertVars

(* Metrics that never changed show no drift, whatever was pushed out of    *)
(* the baseline (alerting.py:226-261).                                     *)
SteadyIsNoDrift == Drift = "drift_detected" => Cardinality(Range(baseline)) > 1

=============================================================================
