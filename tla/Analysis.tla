------------------------------ MODULE Analysis ------------------------------
(***************************************************************************)
(* The analysis agent.  A question becomes a statement, by keywords or by  *)
(* the language model; the statement passes the safety check and is        *)
(* executed; its rows become a table or a chart.  Beside it, the drill-    *)
(* down of a dashboard, and the groups and pivots of another table.        *)
(***************************************************************************)
EXTENDS Integers, Sequences, FiniteSets, FiniteSetsExt, SequencesExt, Filters

CONSTANTS
    Questions,      \* sequences of words that may be asked
    Generated,      \* statements the language model may answer with
    Stocked,        \* how many rows of the table meet a condition, at most
    MaxResults,     \* max_results of a request
    Facts,          \* tables the dashboard explores
    Cubes,          \* tables it groups and pivots
    Dimensions      \* its columns, from coarse to fine

ASSUME AnalysisAssumption ==
    /\ Stocked \in Nat /\ MaxResults \in Nat \ {0}
    /\ Generated \subseteq [verb : STRING, words : SUBSET STRING, semicolons : {"none", "end", "inside"},
                          names : BOOLEAN, limit : Nat, counts : BOOLEAN]
    /\ \A s \in Generated : s.names \/ s.limit > Stocked
    /\ Dimensions \in Seq(Range(Dimensions))
    /\ \A t \in Facts \cup Cubes : t \in Seq(Range(t)) /\ \A n \in DOMAIN t :
          /\ t[n].amount \in Int
          /\ \A d \in DOMAIN t[n].at : t[n].at[d] \in [text : BOOLEAN, shown : STRING]

VARIABLES
    asked,      \* the call that is served
    facts,      \* the rows the dashboard explores
    path,       \* the values chosen on the way down
    cube        \* the rows that are grouped and pivoted: a table of their own

analysisVars == <<asked, facts, path, cube>>

-----------------------------------------------------------------------------
(* Questions: a word is a table, a column, an operator, a number, an       *)
(* aggregate or a limit.                                                   *)

Tables == {"employees", "products"}
ColumnOrder == <<"name", "salary", "price">>    \* COLUMN_KEYWORDS, in order
Operators == {"more", "equal", "notMore", "notEqual"}
Numbers == {"5", "9"}

\* Keywords are found as substrings: the longer ones contain shorter ones.
Found(word) ==
    {word} \cup (CASE word = "notMore" -> {"more"} [] word = "notEqual" -> {"equal"} [] OTHER -> {})

Says(q, keyword) == \E n \in DOMAIN q : keyword \in Found(q[n])
First(q, keyword) == Min({n \in DOMAIN q : keyword \in Found(q[n])})

TableOf(q) == {t \in Tables : Says(q, t)}
ColumnsOf(q) == SelectSeq(ColumnOrder, LAMBDA c : Says(q, c))

ConditionsOf(q) ==
    {<<Head(ColumnsOf(SubSeq(q, 1, First(q, op) - 1))), op,
       q[Min({n \in First(q, op)..Len(q) : q[n] \in Numbers})]>> :
        op \in {o \in Operators :
            /\ Says(q, o)
            /\ ColumnsOf(SubSeq(q, 1, First(q, o) - 1)) # <<>>
            /\ \E n \in First(q, o)..Len(q) : q[n] \in Numbers}}

Counts(q) == Says(q, "count")
LimitOf(q) == IF Says(q, "top1") THEN 1 ELSE MaxResults

NoLimit == Stocked + 1

\* A statement: its first word, its words, where its semicolons are, whether
\* the letters LIMIT occur in it, and the limit they stand for.
Built(q) ==
    [verb |-> "SELECT", words |-> {}, semicolons |-> "none",
     names |-> TRUE, limit |-> LimitOf(q), where |-> ConditionsOf(q), counts |-> Counts(q)]

BlockedWords == {"DROP", "PG_SLEEP", "--"}

Safe(s) ==
    /\ s.semicolons \in {"none", "end"}
    /\ s.words \cap BlockedWords = {}
    /\ s.verb \in {"SELECT", "WITH"}

\* Mutant of Sent: the added LIMIT is one short.
SentShort(s) == IF s.names THEN s ELSE [s EXCEPT !.semicolons = "none", !.limit = MaxResults - 1]

\* A LIMIT is added unless the letters occur, in a column's name for one.
Sent(s) == IF s.names THEN s ELSE [s EXCEPT !.semicolons = "none", !.limit = MaxResults]

Idle == [pc |-> "idle"]
Refusal == [pc |-> "answered", success |-> FALSE, rows |-> 0, truncated |-> FALSE]

AnalysisInit == asked = Idle /\ facts \in Facts /\ path = <<>> /\ cube \in Cubes

\* nl2sql and query_chart_data: the keywords first.
AskQuestion(q) ==
    /\ asked.pc = "idle"
    /\ asked' = IF TableOf(q) = {} THEN [pc |-> "model", question |-> q]
                ELSE [pc |-> "check", question |-> q, statement |-> Built(q)]
    /\ UNCHANGED <<facts, path, cube>>

\* convert_with_llm: what is no SELECT or WITH is no answer.
AskModel ==
    /\ asked.pc = "model"
    /\ \/ \E s \in Generated :
            IF s.verb \in {"SELECT", "WITH"}
            THEN asked' = [pc |-> "check", question |-> asked.question, statement |-> s]
            ELSE asked' = Refusal
       \/ asked' = Refusal             \* not configured, or the call failed
    /\ UNCHANGED <<facts, path, cube>>

\* sql_execute takes the statement itself.
AskStatement(s) ==
    /\ asked.pc = "idle"
    /\ asked' = [pc |-> "check", question |-> <<>>, statement |-> s]
    /\ UNCHANGED <<facts, path, cube>>

CheckStatement ==
    /\ asked.pc = "check"
    /\ IF Safe(asked.statement) THEN asked' = [asked EXCEPT !.pc = "execute"]
       ELSE asked' = Refusal
    /\ UNCHANGED <<facts, path, cube>>

\* Everything is fetched, and what exceeds the bound is cut.
Kept(fetched) == [rows |-> Min({fetched, MaxResults}), truncated |-> fetched > MaxResults]

\* The rows a statement has when nothing is added to it or cut.
Wanted(s, matching) == IF s.counts THEN 1 ELSE Min({matching, s.limit})

\* A statement that fails is answered like one without rows.
Reply(fetched, wanted) ==
    [pc |-> "answered", success |-> TRUE, rows |-> Kept(fetched).rows,
     truncated |-> Kept(fetched).truncated, wanted |-> wanted]

\* Only the executor of a database adds a LIMIT.
Execute ==
    /\ asked.pc = "execute"
    /\ \/ \E matching \in 0..Stocked, sent \in {Sent(asked.statement), asked.statement} :
            asked' = Reply(Wanted(sent, matching), Wanted(asked.statement, matching))
       \/ asked' = Reply(0, 0)         \* the failure is not told
    /\ UNCHANGED <<facts, path, cube>>

\* Every call is a request of its own.
NextCall == asked.pc = "answered" /\ asked' = Idle /\ UNCHANGED <<facts, path, cube>>

-----------------------------------------------------------------------------
(* The dashboard.  A cell is text or something else, a number for one,     *)
(* that is shown as text too; a row need not have every column.  A metric  *)
(* that is no number adds nothing.                                         *)

Text(v) == [text |-> TRUE, shown |-> v]
Nothing == [text |-> FALSE, shown |-> "None"]

\* row.get(dim), and str(row.get(dim, "")).
Raw(row, d) == IF d \in DOMAIN row.at THEN row.at[d] ELSE Nothing
Shown(row, d) == IF d \in DOMAIN row.at THEN row.at[d].shown ELSE ""

SumOver(table, rows) == SumAt([n \in DOMAIN table |-> table[n].amount], rows)

\* Mutant of Selected: only the last step of the path filters.
SelectedByLast(p) ==
    {n \in DOMAIN facts : p = <<>> \/ Raw(facts[n], Dimensions[Len(p)]) = Text(Last(p))}

\* The rows that match every step of the path.  What was chosen is the text that
\* was shown, and the rows are asked for their own values.
Selected(p) == {n \in DOMAIN facts : \A k \in DOMAIN p : Raw(facts[n], Dimensions[k]) = Text(p[k])}

\* The groups of a level and their sums, by what is shown; no level, no groups.
Groups(p) ==
    IF Len(p) >= Len(Dimensions) THEN <<>>
    ELSE LET at == [n \in Selected(p) |-> Shown(facts[n], Dimensions[Len(p) + 1])]
         IN  [v \in Range(at) |-> SumOver(facts, {n \in Selected(p) : at[n] = v})]

DrillDown(v) ==
    /\ v \in DOMAIN Groups(path)
    /\ path' = Append(path, v)
    /\ UNCHANGED <<asked, facts, cube>>

GoUp == path # <<>> /\ path' = Front(path) /\ UNCHANGED <<asked, facts, cube>>

\* groupby and pivot have a table of their own; absent cells are 0.
GroupBy(d) ==
    LET at == [n \in DOMAIN cube |-> Shown(cube[n], d)]
    IN  [v \in Range(at) |-> SumOver(cube, {n \in DOMAIN cube : at[n] = v})]

Pivot(rows, cols) ==
    [cell \in {Shown(cube[n], rows) : n \in DOMAIN cube} \X {Shown(cube[n], cols) : n \in DOMAIN cube} |->
        SumOver(cube, {n \in DOMAIN cube : Shown(cube[n], rows) = cell[1] /\ Shown(cube[n], cols) = cell[2]})]

AnalysisNext ==
    \/ \E q \in Questions : AskQuestion(q)
    \/ \E s \in Generated : AskStatement(s)
    \/ AskModel
    \/ CheckStatement
    \/ Execute
    \/ NextCall
    \/ \E v \in DOMAIN Groups(path) : DrillDown(v)
    \/ GoUp

AnalysisSpec == AnalysisInit /\ [][AnalysisNext]_analysisVars

-----------------------------------------------------------------------------
(* No more than max_results rows come back, even though the added LIMIT is *)
(* skipped for a statement in which the letters merely occur; an answer    *)
(* with fewer rows has all of them, unless the execution failed (wanted is *)
(* 0 then); and what is said to be cut is cut.  The other direction is     *)
(* false: the added LIMIT cuts without a word (executor.py:458-487).       *)
RowsAreHonest ==
    asked.pc = "answered" /\ asked.success =>
        /\ asked.rows <= MaxResults
        /\ asked.rows < MaxResults => asked.rows = asked.wanted
        /\ asked.truncated => asked.rows = MaxResults /\ asked.wanted > MaxResults

\* The rows of a group that its own value does not select.
Unopened(p, v) ==
    {n \in Selected(p) : /\ Shown(facts[n], Dimensions[Len(p) + 1]) = v
                         /\ Raw(facts[n], Dimensions[Len(p) + 1]) # Text(v)}

(* A user who opens a value finds below it the amount shown on it, at every *)
(* depth, but for the rows in which that column is no text or missing:     *)
(* they are grouped by what str() makes of them, and found by no filter.   *)
(* No other amount is missing or added (drill_down.py:134, 170-206).  And a *)
(* pivot has in its rows the sums of the groups (aggregation.py:178-253).  *)
TotalsAgree ==
    /\ \A v \in DOMAIN Groups(path) :
        Len(path) + 1 < Len(Dimensions) =>
            LET below == Groups(Append(path, v))
            IN  Groups(path)[v] = SumAt(below, DOMAIN below) + SumOver(facts, Unopened(path, v))
    /\ \A j, k \in DOMAIN Dimensions :
        LET groups == GroupBy(Dimensions[j])
            pivot == Pivot(Dimensions[j], Dimensions[k])
        IN  \A v \in DOMAIN groups : groups[v] = SumAt(pivot, {c \in DOMAIN pivot : c[1] = v})

(* What is shown is within its bounds and adds up.                         *)
AnswersSound == RowsAreHonest /\ TotalsAgree

(* A question with one comparison asks for that one: in the header of      *)
(* nl2sql.py, line 14, "Operator detection: ... <not equal> -> !=".  The   *)
(* code breaks it: it finds the shorter keyword in the longer one, and the *)
(* two conditions exclude each other.                                      *)
OneComparisonOneCondition ==
    asked.pc = "check" /\ Cardinality({n \in DOMAIN asked.question : asked.question[n] \in Operators}) = 1
    /\ "where" \in DOMAIN asked.statement =>
        Cardinality(asked.statement.where) <= 1

=============================================================================
