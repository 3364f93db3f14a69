--------------------------------- MODULE HR ---------------------------------
(***************************************************************************)
(* The HR agent: the employees the adapter returns, matching to a          *)
(* position, risk and profile of an employee, redundancy of a department,  *)
(* and the simulation of a layoff with its five confirming steps.  The     *)
(* score of a review is in hundredths of a point, a salary in thousands,   *)
(* and the years of service are whole.  Averages are compared as quotients *)
(* of integers; the code computes them in floating point.                  *)
(***************************************************************************)
EXTENDS Integers, Sequences, FiniteSets, FiniteSetsExt, SequencesExt, Filters

CONSTANTS
    Staff,          \* possible departments: a function from employee to record
    Competencies,   \* ids of competencies
    Needs,          \* possible positions: the level a competency must have, and its weight
    Scores,         \* scores a review may give, in hundredths of a point
    Parts,          \* what a part of the competencies is counted in: every number of them divides it
    MaxReviews,     \* of all employees together
    Reductions      \* values of target_reduction

ASSUME HRAssumption ==
    /\ MaxReviews \in Nat /\ Reductions \subseteq Nat \ {0}
    /\ IsFiniteSet(Competencies)
    /\ \A p \in Needs : DOMAIN p \subseteq Competencies /\ p \in [DOMAIN p -> [level : 1..5, weight : Nat]]
    /\ \A s \in Staff : /\ IsFiniteSet(DOMAIN s)
                         /\ s \in [DOMAIN s -> [status : STRING, years : Nat, title : STRING, key : BOOLEAN,
                                                flagged : BOOLEAN, salary : Nat, levels : [Competencies -> 0..5],
                                                reviews : Seq([score : Scores, met : BOOLEAN])]]

ASSUME ScoresAssumption == Scores \subseteq 0..10000

ASSUME PartsAssumption ==
    Parts \in Nat \ {0} /\ \A k \in 1..Cardinality(Competencies) : Parts % k = 0

VARIABLES
    staff,  \* the employees: status, years, title, the tags key_personnel and turnover_risk,
            \* salary, levels, reviews in the order of their periods
    plan    \* the simulated layoff, NoPlan at first

hrVars == <<staff, plan>>

NoPlan == [step |-> 0]
Employees == DOMAIN staff
Sum(f) == SumAt(f, DOMAIN f)
Total(reviews) == Sum([n \in DOMAIN reviews |-> reviews[n].score])
Points(condition, points) == IF condition THEN points ELSE 0
Capped(score) == Min({score, 100})

\* avg_performance_score < bound points; without reviews the average is 0.
AverageBelow(r, bound) == r = <<>> \/ Total(r) < 100 * bound * Len(r)
AverageIsZero(r) == Total(r) = 0
Unmet(r) == Cardinality({n \in DOMAIN r : ~r[n].met})

-----------------------------------------------------------------------------
(* Risk: four dimensions, weighted. *)

Turnover(e) ==
    LET r == e.reviews
        n == Len(r)
        older == IF n > 2 THEN [total |-> Total(SubSeq(r, 1, n - 2)), count |-> n - 2]
                 ELSE [total |-> r[1].score, count |-> 1]
    IN  Capped(
            (IF e.years < 1 THEN 30 ELSE Points(e.years < 2, 15))
            + Points(n >= 2 /\ (r[n - 1].score + r[n].score) * older.count
                                < 2 * (older.total - 500 * older.count), 25)
            + Points(AverageBelow(r, 65), 20)
            + Points(e.flagged, 15)
            + Points(e.status = "probation", 10)
            + Points(n > 0 /\ ~r[n].met, 10))

Compliance(e) ==
    Points(e.status = "probation", 20) + Points(e.salary > 500 /\ AverageBelow(e.reviews, 70), 25)
    + Points(e.years >= 5, 15) + Points(e.key, 20)

\* Mutant of Performance: a slump takes the place of the low average.
PerformanceOrSlump(e) ==
    LET r == e.reviews
        n == Len(r)
    IN  IF n >= 2 /\ r[n].score < r[1].score - 1000 THEN 20
        ELSE IF AverageBelow(r, 60) THEN 60 ELSE IF AverageBelow(r, 70) THEN 40 ELSE 0

\* An average of 0 counts as no record.
Performance(e) ==
    LET r == e.reviews
        n == Len(r)
    IN  Capped(
            (IF AverageIsZero(r) THEN 20 ELSE IF AverageBelow(r, 60) THEN 60
             ELSE IF AverageBelow(r, 70) THEN 40 ELSE Points(AverageBelow(r, 80), 20))
            + (IF n < 2 THEN 0 ELSE IF r[n].score < r[1].score - 1000 THEN 20
               ELSE Points(r[n].score < r[n - 1].score - 500, 10))
            + Points(Unmet(r) >= 2, 15))

\* The competencies with a record, and their levels.
Recorded(e) == {c \in Competencies : e.levels[c] > 0}
LevelSum(e) == Sum(e.levels)

CompetencyGap(e) ==
    LET known == Cardinality(Recorded(e))
        low == Cardinality({c \in Recorded(e) : e.levels[c] < 3})
    IN  IF known = 0 THEN 50
        ELSE (IF 2 * low > known THEN 50 ELSE IF 10 * low > 3 * known THEN 30 ELSE Points(low > 0, 15))
             + (IF LevelSum(e) < 2 * known THEN 20 ELSE Points(LevelSum(e) < 3 * known, 10))

\* Twenty times the overall score; weights 0.35, 0.2, 0.25 and 0.2.
RiskTwenty(e) == 7 * Turnover(e) + 4 * Compliance(e) + 5 * Performance(e) + 4 * CompetencyGap(e)
Level(twenty) ==
    IF twenty >= 1600 THEN "critical" ELSE IF twenty >= 1200 THEN "high"
    ELSE IF twenty >= 800 THEN "medium" ELSE "low"

\* The trend of a profile: volatile by the variance, which is that of the
\* distances to the first score, else by the slope.
Trend(r) ==
    LET n == Len(r)
        away == [k \in DOMAIN r |-> r[k].score - r[1].score]
        squares == Sum([k \in DOMAIN r |-> away[k] * away[k]])
        slope == Sum([k \in DOMAIN r |-> (2 * k - n - 1) * r[k].score])
        spread == Sum([k \in DOMAIN r |-> (2 * k - n - 1) * (2 * k - n - 1)])
    IN  IF n < 2 THEN "insufficient_data"
        ELSE IF n * squares - Sum(away) * Sum(away) > 1000000 * n * n THEN "volatile"
        ELSE IF 2 * n * slope > 500 * spread THEN "improving"
        ELSE IF 2 * n * slope < -500 * spread THEN "declining" ELSE "stable"

\* Health of the department, as a quotient over 3000 * |staff|: the averages of
\* the reviews, the level of all competencies, the employees who are no risk
\* and the years of service.
HealthOf(s) ==
    LET n == Cardinality(DOMAIN s)
        known == Sum([e \in DOMAIN s |-> Cardinality(Recorded(s[e]))])
        levels == Sum([e \in DOMAIN s |-> LevelSum(s[e])])
        average(e) == IF s[e].reviews = <<>> THEN 0 ELSE (12 * Total(s[e].reviews)) \div Len(s[e].reviews)
        risky == {e \in DOMAIN s : Level(RiskTwenty(s[e])) \in {"high", "critical"}}
    IN  Sum([e \in DOMAIN s |-> average(e)])
        + (IF known = 0 THEN 0 ELSE (15000 * n * levels) \div known)
        + 60000 * (n - Cardinality(risky))
        + 9000 * Min({5 * n, Sum([e \in DOMAIN s |-> s[e].years])})

-----------------------------------------------------------------------------
(* Matching: four fifths of the weighted ratio, one fifth of the cosine. *)

Met(e, p) == {c \in DOMAIN p : e.levels[c] >= p[c].level}

\* Mutant of Share: the quotient is turned round.
ShareTurned(level, needed) == IF needed >= level THEN 60 ELSE (60 * needed) \div level

\* How much of a requirement is met, in sixtieths: no more than all of it.
Share(level, needed) == IF level >= needed THEN 60 ELSE (60 * level) \div needed

Weight(p) == Sum([c \in DOMAIN p |-> p[c].weight])
Weighted(e, p) == Sum([c \in DOMAIN p |-> p[c].weight * Share(e.levels[c], p[c].level)])
Dot(e, p) == Sum([c \in DOMAIN p |-> e.levels[c] * p[c].level])
Norms(e, p) ==
    Sum([c \in DOMAIN p |-> e.levels[c] * e.levels[c]]) * Sum([c \in DOMAIN p |-> p[c].level * p[c].level])

\* The blended score is at least 5 * fifth percent.  Without weights the first part is 0.
ScoreAtLeast(e, p, fifth) ==
    LET all == IF Weight(p) = 0 THEN 1 ELSE 15 * Weight(p)
        missing == fifth * all - 4 * Weighted(e, p)
    IN  \/ missing <= 0
        \/ Norms(e, p) > 0 /\ missing * missing * Norms(e, p) <= 16 * all * all * Dot(e, p) * Dot(e, p)

Recommendation(e, p) ==
    LET gaps == Cardinality(DOMAIN p \ Met(e, p))
    IN  IF ScoreAtLeast(e, p, 17) /\ gaps = 0 THEN "strong_match"
        ELSE IF ScoreAtLeast(e, p, 14) /\ gaps <= 1 THEN "match"
        ELSE IF ScoreAtLeast(e, p, 10) THEN "partial_match" ELSE "no_match"

-----------------------------------------------------------------------------
(* Redundancy: employees of one title whose competencies overlap. *)

Active == {e \in Employees : staff[e].status \in {"active", "probation"}}
Titles == {staff[e].title : e \in Active}
Group(t) == {e \in Active : staff[e].title = t}

\* What two have in common, in Parts-ths of what they have: the Jaccard index.
Jaccard(q) ==
    LET any == UNION {Recorded(staff[e]) : e \in q}
        both == {c \in any : \A e \in q : c \in Recorded(staff[e])}
    IN  IF any = {} THEN 0 ELSE (Parts * Cardinality(both)) \div Cardinality(any)

\* The overlap of a group is the average over all pairs, Common(t) of Whole(t).
Pairs(t) == kSubset(2, Group(t))
Common(t) == Sum([q \in Pairs(t) |-> Jaccard(q)])
Whole(t) == Parts * Cardinality(Pairs(t))

Overlapping == {t \in Titles : Cardinality(Group(t)) >= 2}

\* The overlap is rounded to two decimals before it is compared with 0.7, and
\* what rounds to 0.7 is above 0.695; the action is chosen before the rounding.
Redundant == {t \in Overlapping : 200 * Common(t) > 139 * Whole(t)}
RedundantCount == Sum([t \in Redundant |-> Cardinality(Group(t)) - 1])
Outperforms(d, e) ==
    LET reviews(x) == Max({1, Len(staff[x].reviews)})
    IN  Total(staff[d].reviews) * reviews(e) - Total(staff[e].reviews) * reviews(d)
          > 2000 * reviews(d) * reviews(e)
SuggestedAction(t) ==
    IF 5 * Common(t) >= 4 * Whole(t) THEN "merge"
    ELSE IF 2 * Common(t) < Whole(t) THEN "retain"
    ELSE IF \E d, e \in Group(t) : Outperforms(d, e) THEN "reassign" ELSE "train"

-----------------------------------------------------------------------------
(* The layoff. *)

Criteria == {"tenure", "competency", "cost"}

Eligible(spareProbation) ==
    {e \in Employees : staff[e].status \in {"active"} \cup (IF spareProbation THEN {} ELSE {"probation"})}

\* The score by performance and by the criteria asked for, in hundredths of a
\* point, as a quotient; key personnel is 50 lower.  Without reviews the average
\* is 0, without competencies it is 1.
LayoffScore(e, criteria) ==
    LET d == staff[e]
        n == Max({1, Len(d.reviews)})
        k == Max({1, Cardinality(Recorded(d))})
    IN  [points |-> 2 * k * (10000 * n - Total(d.reviews))
                    + Points("tenure" \in criteria, 300 * n * k * (10 - Min({d.years, 10})))
                    + Points("competency" \in criteria, 500 * n * (5 * k - Max({1, LevelSum(d)})))
                    + Points("cost" \in criteria, n * k * Min({d.salary, 1000}))
                    - Points(d.key, 5000 * n * k),
         of |-> n * k]

\* d is ranked no lower than e.
RanksBefore(d, e, criteria) ==
    LET one == LayoffScore(d, criteria)
        other == LayoffScore(e, criteria)
    IN  one.points * other.of >= other.points * one.of

LegalRisk(e) ==
    IF staff[e].years >= 5 THEN "high" ELSE IF staff[e].status = "probation" THEN "low"
    ELSE IF staff[e].key THEN "high" ELSE "medium"
Reversible(e) == (staff[e].status = "probation" \/ staff[e].years < 3) /\ LegalRisk(e) # "high"

\* Key personnel is looked for in the text of legal_risk, where it never is.
Simulate(target, criteria, spareProbation) ==
    /\ plan = NoPlan /\ Employees # {}
    /\ \E taken \in SUBSET Eligible(spareProbation) :
        /\ Cardinality(taken) = Min({target, Cardinality(Eligible(spareProbation))})
        /\ \A d \in taken, e \in Eligible(spareProbation) \ taken : RanksBefore(d, e, criteria)
        /\ plan' = [step |-> 1, taken |-> taken, confirmed |-> FALSE, completed |-> FALSE,
                    reversible |-> {e \in taken : Reversible(e)},
                    keyPersonnel |-> {e \in taken : LegalRisk(e) = "key_personnel"},
                    keyTaken |-> {e \in taken : staff[e].key}]
    /\ UNCHANGED staff

Stepped(p, to) == [p EXCEPT !.step = Max({p.step, to})]

\* check_reversibility, check_impact and get_explanation in any order.
Review(to) ==
    /\ plan # NoPlan /\ plan' = Stepped(plan, to) /\ UNCHANGED staff

Confirm(keyword) ==
    /\ plan # NoPlan
    /\ plan' = IF keyword = "CONFIRM_LAYOFF" THEN [Stepped(plan, 5) EXCEPT !.confirmed = TRUE] ELSE plan
    /\ UNCHANGED staff

CreateSnapshot ==
    /\ plan # NoPlan /\ plan.confirmed
    /\ plan' = [plan EXCEPT !.completed = TRUE]
    /\ UNCHANGED staff

\* run_full_foolproof.
RunFullFoolproof(keyword) ==
    /\ plan # NoPlan
    /\ plan' = IF keyword # "CONFIRM_LAYOFF" THEN Stepped(plan, 4)
               ELSE [plan EXCEPT !.step = 5, !.confirmed = TRUE, !.completed = TRUE]
    /\ UNCHANGED staff

\* The system behind the adapter records a review.
Appraise(e, score, met) ==
    /\ Sum([d \in Employees |-> Len(staff[d].reviews)]) < MaxReviews
    /\ staff' = [staff EXCEPT ![e].reviews = Append(@, [score |-> score, met |-> met])]
    /\ UNCHANGED plan

HRInit == staff \in Staff /\ plan = NoPlan

HRNext ==
    \/ \E n \in Reductions, criteria \in SUBSET Criteria, spare \in BOOLEAN : Simulate(n, criteria, spare)
    \/ \E to \in 2..4 : Review(to)
    \/ \E keyword \in {"CONFIRM_LAYOFF", "yes"} : Confirm(keyword) \/ RunFullFoolproof(keyword)
    \/ CreateSnapshot
    \/ \E e \in Employees, score \in Scores, met \in BOOLEAN : Appraise(e, score, met)

HRSpec == HRInit /\ [][HRNext]_hrVars

-----------------------------------------------------------------------------
(* Whoever meets every requirement is recommended without reservation,     *)
(* although the cosine falls with every surplus, and whoever misses one    *)
(* is not, unless no requirement of the position has a weight              *)
(* (matching.py:109-257).                                                  *)
QualifiedIsStrong ==
    \A e \in Employees, p \in Needs :
        Weight(p) > 0 => ((Met(staff[e], p) = DOMAIN p) <=> Recommendation(staff[e], p) = "strong_match")

(* A review more than ten points below a record that never rose, with      *)
(* missed goals, lowers no risk, raises no trend and improves no           *)
(* department; in a record of up to eleven reviews it also shows in the    *)
(* trend.  From the twelfth on it need not: eleven times 80.0 and then     *)
(* 69.9 is "stable", as the slope shrinks with the square of the length    *)
(* and its bound with the length.  The four views are computed apart, from *)
(* one history (risk_assessment.py:54-302, profiling.py:122-155,           *)
(* integration.py:243-375).  After a recovery the claim would be wrong:    *)
(* the last two reviews are compared with the others, and one high score   *)
(* hides a low one.                                                        *)
Slumped(r, s) ==
    /\ Len(s) > Len(r) /\ r # <<>> /\ ~Last(s).met
    /\ \A n \in DOMAIN r : /\ Last(s).score < r[n].score - 1000
                          /\ \A m \in 1..n : r[n].score <= r[m].score

SlumpIsSeen ==
    \A e \in Employees :
        Slumped(staff[e].reviews, staff'[e].reviews)
        => /\ RiskTwenty(staff'[e]) >= RiskTwenty(staff[e])
           /\ Trend(staff'[e].reviews) # "improving"
           /\ Len(staff'[e].reviews) <= 11 => Trend(staff'[e].reviews) \in {"declining", "volatile"}
           /\ HealthOf(staff') <= HealthOf(staff)

SlumpRaisesRisk == [][SlumpIsSeen]_hrVars

(* A title whose holders can all do the same, however many they are, is    *)
(* merged and counted down to one; where no two share a competency, nobody *)
(* is counted (redundancy.py:47-232).                                      *)
TwinsAreMerged ==
    \A t \in Overlapping :
        LET sets == {Recorded(staff[e]) : e \in Group(t)}
        IN  /\ Cardinality(sets) = 1 /\ {} \notin sets => t \in Redundant /\ SuggestedAction(t) = "merge"
            /\ (\A c \in Competencies : Cardinality({e \in Group(t) : c \in Recorded(staff[e])}) < 2)
               => t \notin Redundant /\ SuggestedAction(t) = "retain"
            /\ RedundantCount < Cardinality(Active)

(* A score says the same as what it was computed from.                    *)
ScoresSound == QualifiedIsStrong /\ TwinsAreMerged

(* The preview names key personnel among the candidates: "IDs of           *)
(* high-impact employees in candidate list" (models.py:460-463).  The code *)
(* breaks it: it looks for them in a field that holds a level.             *)
KeyPersonnelNamed == plan # NoPlan => plan.keyPersonnel = plan.keyTaken

=============================================================================
