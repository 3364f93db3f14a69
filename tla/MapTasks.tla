------------------------------ MODULE MapTasks ------------------------------
(***************************************************************************)
(* Analyses that run in the background of one worker of the map agent, and *)
(* the browser tabs of one WebSocket session they push their progress to.  *)
(* A broadcast walks the very list of connections that connect and         *)
(* disconnect change, and is suspended at every send; several analyses of  *)
(* one session broadcast at the same time.                                 *)
(***************************************************************************)
EXTENDS Integers, Sequences, SequencesExt, Filters

CONSTANTS Analyses, Tabs,
          Messages  \* of an analysis that succeeds; 5 in the code

ASSUME MessagesAssumption == Messages \in Nat /\ Messages >= 3

VARIABLES
    status,  \* status of each task in the TaskStore
    cast,    \* where each analysis is in its broadcasts
    conns,   \* _connections[session_id]; without a tab there is no entry
    tab,     \* the connection of each tab
    told     \* history: analyses each tab received the outcome of

taskVars == <<status, cast, conns, tab, told>>

\* The messages in the order they are sent: progress 25, 60, 85, 100 and the
\* result; Failure takes their place after the first one.
Result == Messages
Progress100 == Messages - 1
Failure == Messages + 1
Over == Messages + 2
Sent == 1..Failure
Cast == [stage : 0..Over,         \* 0: not begun
         pos : Nat,               \* of the next connection; 0: its list is gone
         tried : SUBSET Tabs,     \* connections sent to
         lost : SUBSET Tabs,      \* disconnected: those that raised
         shrunk : BOOLEAN]        \* history: a connection was removed meanwhile

\* At the head of the list.
Fresh(stage) == [stage |-> stage, pos |-> 1, tried |-> {}, lost |-> {}, shrunk |-> FALSE]

TasksTypeOK ==
    /\ status \in [Analyses -> {"none", "pending", "running", "completed", "failed"}]
    /\ cast \in [Analyses -> Cast]
    /\ conns \in Seq(Tabs) /\ IsInjective(conns)
    /\ tab \in [Tabs -> {"away", "open", "closed", "gone"}]
    /\ told \in [Tabs -> SUBSET Analyses]

TasksInit ==
    /\ status = [a \in Analyses |-> "none"]
    /\ cast = [a \in Analyses |-> Fresh(0)]
    /\ conns = <<>>
    /\ tab = [w \in Tabs |-> "away"]
    /\ told = [w \in Tabs |-> {}]

-----------------------------------------------------------------------------
(* Connections                                                              *)

Connect(w) ==
    /\ tab[w] = "away"
    /\ tab' = [tab EXCEPT ![w] = "open"]
    /\ conns' = Append(conns, w)
    /\ UNCHANGED <<status, cast, told>>

\* The client is gone; the server has yet to notice.
Close(w) ==
    /\ tab[w] = "open"
    /\ tab' = [tab EXCEPT ![w] = "closed"]
    /\ UNCHANGED <<status, cast, conns, told>>

\* What is left of the list without some connections.
Without(gone) == Keep(conns, Tabs \ gone)

\* disconnect: walks in progress keep their position in the shorter list; when
\* it is empty its entry is deleted, and a walk still on it ends.
Walks(gone) ==
    [a \in Analyses |->
        IF cast[a].stage \notin Sent \/ Without(gone) = conns THEN cast[a]
        ELSE [cast[a] EXCEPT !.shrunk = TRUE,
                             !.pos = IF Without(gone) = <<>> THEN 0 ELSE @]]

\* ws_analysis ends with disconnect.
Leave(w) ==
    /\ tab[w] = "closed"
    /\ tab' = [tab EXCEPT ![w] = "gone"]
    /\ conns' = Without({w})
    /\ cast' = Walks({w})
    /\ UNCHANGED <<status, told>>

-----------------------------------------------------------------------------
(* Analyses                                                                 *)

\* POST /map/analysis/async: create and asyncio.create_task.
StartAnalysis(a) ==
    /\ status[a] = "none"
    /\ status' = [status EXCEPT ![a] = "pending"]
    /\ UNCHANGED <<cast, conns, tab, told>>

\* Mutant of After: the result is not sent.
AfterSilent(stage) ==
    CASE stage = 1 -> {2, Failure}
      [] stage \in {Progress100, Failure} -> {Over}
      [] OTHER -> {stage + 1}

\* What comes after a message; run_pipeline, after the first, may raise.
After(stage) ==
    CASE stage = 1 -> {2, Failure}
      [] stage \in {Result, Failure} -> {Over}
      [] OTHER -> {stage + 1}

\* The status with which a stage is entered.
StatusAt(a, stage) ==
    CASE stage = 1 -> "running"
      [] stage = Progress100 -> "completed"
      [] stage = Failure -> "failed"
      [] OTHER -> status[a]

\* Without connections a broadcast returns at once, and the analysis runs to
\* its end without being suspended.
Outcomes(a, stage) ==
    CASE stage = 1 -> {"completed", "failed"}
      [] stage \in 2..Progress100 -> {"completed"}
      [] OTHER -> {StatusAt(a, stage)}

\* Goes on to the next broadcast, on the list left by the last one.
Advance(a, walks, left) ==
    \E stage \in After(cast[a].stage) :
        IF left = <<>>
        THEN /\ \E s \in Outcomes(a, stage) : status' = [status EXCEPT ![a] = s]
             /\ cast' = [walks EXCEPT ![a] = Fresh(Over)]
        ELSE /\ status' = [status EXCEPT ![a] = StatusAt(a, stage)]
             /\ cast' = [walks EXCEPT ![a] = Fresh(stage)]

\* The event loop runs the task for the first time.
Run(a) ==
    /\ status[a] = "pending"
    /\ Advance(a, cast, conns)
    /\ UNCHANGED <<conns, tab, told>>

Walking(a) == cast[a].stage \in Sent /\ cast[a].pos \in 1..Len(conns)

\* Mutants of SendRaises: the connection is removed inside the loop; the
\* exception reaches the handler of _execute_analysis_task.
SendRaisesInLoop(a) ==
    LET w == conns[cast[a].pos] IN
    /\ tab[w] = "closed"
    /\ conns' = Without({w})
    /\ cast' = [cast EXCEPT ![a].pos = @ + 1, ![a].tried = @ \cup {w}]
    /\ UNCHANGED <<status, tab, told>>
SendRaisesOut(a) ==
    LET w == conns[cast[a].pos] IN
    /\ tab[w] = "closed"
    /\ status' = [status EXCEPT ![a] = "failed"]
    /\ cast' = [cast EXCEPT ![a].stage = Over]
    /\ UNCHANGED <<conns, tab, told>>

\* A send to a client that is gone raises, and the connection is removed later.
SendRaises(a) ==
    LET w == conns[cast[a].pos] IN
    /\ tab[w] = "closed"
    /\ cast' = [cast EXCEPT ![a].pos = @ + 1, ![a].tried = @ \cup {w}, ![a].lost = @ \cup {w}]
    /\ UNCHANGED <<status, conns, tab, told>>

\* A send returns; the client that is gone does not read it.
SendDone(a) ==
    LET w == conns[cast[a].pos] IN
    /\ told' = IF tab[w] = "open" /\ cast[a].stage \in {Result, Failure}
               THEN [told EXCEPT ![w] = @ \cup {a}] ELSE told
    /\ cast' = [cast EXCEPT ![a].pos = @ + 1, ![a].tried = @ \cup {w}]
    /\ UNCHANGED <<status, conns, tab>>

\* The loop is over: the connections that raised are disconnected.
LoopEnds(a) ==
    /\ cast[a].stage \in Sent /\ ~Walking(a)
    /\ conns' = Without(cast[a].lost)
    /\ Advance(a, Walks(cast[a].lost), conns')
    /\ UNCHANGED <<tab, told>>

Push(a) == Walking(a) /\ (SendDone(a) \/ SendRaises(a))

Proceed(a) == Run(a) \/ Push(a) \/ LoopEnds(a)

TasksNext ==
    \/ \E w \in Tabs : Connect(w) \/ Close(w) \/ Leave(w)
    \/ \E a \in Analyses : StartAnalysis(a) \/ Proceed(a)

TasksSpec == TasksInit /\ [][TasksNext]_taskVars

\* The event loop resumes what can go on, and uvicorn closes a connection that
\* does not answer its pings, so every send returns or raises.
TasksFairSpec == TasksSpec /\ \A a \in Analyses : WF_taskVars(Proceed(a))

-----------------------------------------------------------------------------

\* A broadcast reaches every connection of the session, those that joined on the
\* way included, unless one was removed while it ran: then the next in the list
\* may be passed over (the list is changed under the loop).
ReachesAll ==
    \A a \in Analyses :
        cast[a].stage \in Sent /\ ~Walking(a) /\ ~cast[a].shrunk
            => ToSet(conns) \subseteq cast[a].tried

\* An analysis that has settled does not change its mind: a tab that dies while
\* the result is sent does not turn a completed analysis into a failed one.
SettledForGood ==
    [][\A a \in Analyses : status[a] \in {"completed", "failed"}
         => status'[a] = status[a]]_status

\* A tab that was there before the analysis ran is told its outcome, if no tab
\* of the session goes away.
OutcomeReaches ==
    \A a \in Analyses, w \in Tabs :
        status[a] = "pending" /\ w \in ToSet(conns)
            ~> \/ a \in told[w]
               \/ \E v \in Tabs : tab[v] \in {"closed", "gone"}
=============================================================================
