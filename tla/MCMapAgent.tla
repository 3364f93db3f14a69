----------------------------- MODULE MCMapAgent -----------------------------
(* The map agent for TLC: its marker store, the analyses of a worker with the *)
(* tabs they are sent to, what an analysis computes, and the contexts.  They  *)
(* share no state, so a behaviour is of one of them: `focus' says which.      *)
EXTENDS MapTasks, MapMarkers, MapEngine

VARIABLE focus

Natural == "p" :> [income |-> 10, rent |-> 3] @@ "q" :> [income |-> 9]
\* An id may be unknown, blank, or there twice.
IdLists == {<<"p">>, <<"p", "q">>, <<"q", "p", "q">>, <<"x", "p">>, <<"p", "">>, <<"p", "p">>}
Inlined(id, located, props) == [id |-> id, shared |-> FALSE, located |-> located, props |-> props]
InlineLists ==
    {<<Inlined("i", TRUE, [poi |-> 2]), Inlined("j", FALSE, [poi |-> 1, income |-> 4]),
       Inlined("i", TRUE, [income |-> 40])>>,
     <<Inlined("i", TRUE, [rent |-> 1])>>}

MapInit ==
    /\ TasksInit /\ MarkersInit /\ EngineInit
    /\ focus \in {"tasks", "markers", "analyses", "contexts"}
    /\ focus # "markers" => used = {}

MapNext ==
    /\ \/ focus = "tasks" /\ TasksNext /\ UNCHANGED <<markerVars, engineVars>>
       \/ focus = "markers" /\ MarkersNext /\ UNCHANGED <<taskVars, engineVars>>
       \/ focus = "analyses" /\ AnalysesNext /\ UNCHANGED <<taskVars, markerVars>>
       \/ focus = "contexts" /\ ContextsNext /\ UNCHANGED <<taskVars, markerVars>>
    /\ UNCHANGED focus

MapSpec ==
    /\ MapInit /\ [][MapNext]_<<taskVars, markerVars, engineVars, focus>>
    /\ \A a \in Analyses : WF_taskVars(Proceed(a))

\* Bound.  The markers are followed until a second worker writes: from there on
\* the properties promise nothing.
Focus == \E w \in Workers : SoleWriter(w)
=============================================================================
