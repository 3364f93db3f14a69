--------------------------- MODULE MapAgent_proofs ---------------------------
(***************************************************************************)
(* Proofs about MapMarkers, for any number of workers, markers and notes,  *)
(* about MapTasks, for any number of analyses, tabs and messages, and about*)
(* MapEngine, for any places, requests and sessions.                       *)
(*                                                                         *)
(* The invariant of the markers says of a worker that handles all changes: *)
(* its cached list is the file, but for the markers whose save failed, and *)
(* so is the list it is about to write, but for the marker it writes about.*)
(***************************************************************************)
EXTENDS MapTasks, MapMarkers, MapEngine, Filters_proofs, TLAPS

\* Outside some markers, two lists agree.
Agree(list, other, except) == \A m \in Markers \ except : list[m] = other[m]

\* The markers a save of which has failed.
Failed == doubtful \cup owed

Faithful(w) ==
    /\ Agree(file, kept, Failed)
    /\ saving[w] = None /\ cache[w] # None => Agree(cache[w], file, Failed)
    /\ saving[w] # None =>
         LET open == Failed \cup {saving[w].marker} IN
         /\ cache[w] # None
         /\ Agree(cache[w], file, open)
         /\ Agree(saving[w].list, file, open)

MarkersInv == MarkersTypeOK /\ \A w \in Workers : SoleWriter(w) => Faithful(w)

\* The invariant is enough for both properties.
LEMMA MarkersInvEnough == MarkersInv => AcknowledgedKept /\ ListedIsSaved
  BY DEF MarkersInv, Faithful, Agree, Failed, AcknowledgedKept, ListedIsSaved

\* A server that starts has read nothing, and the file is what it is.
LEMMA MarkersInvInit == MarkersInit => MarkersInv
  BY MarkerAssumption
  DEF MarkersInit, MarkersInv, MarkersTypeOK, Board, Save, Faithful, Agree, Failed

\* What _load returns is a list of markers, and the file's if nobody else wrote.
LEMMA LoadedIsFile ==
    ASSUME MarkersInv, NEW w \in Workers, saving[w] = None
    PROVE  /\ Loaded(w) \in Board
           /\ SoleWriter(w) => Agree(Loaded(w), file, Failed)
  BY DEF MarkersInv, MarkersTypeOK, Faithful, Agree, Loaded

\* Reading fills the cache with the file.
LEMMA ReadKeeps ==
    ASSUME MarkersInv, NEW w \in Workers, Read(w)
    PROVE  MarkersInv'
  <1>1. Loaded(w) \in Board /\ (SoleWriter(w) => Agree(Loaded(w), file, Failed))
    BY LoadedIsFile DEF Read
  <1>2. MarkersTypeOK'
    BY <1>1 DEF Read, MarkersInv, MarkersTypeOK
  <1>3. ASSUME NEW v \in Workers, SoleWriter(v)' PROVE Faithful(v)'
    <2>1. SoleWriter(v) /\ Faithful(v)
      BY <1>3 DEF Read, SoleWriter, MarkersInv
    <2>2. cache'[v] = IF v = w THEN Loaded(w) ELSE cache[v]
      BY DEF Read, MarkersInv, MarkersTypeOK
    <2> QED BY <1>1, <2>1, <2>2 DEF Read, Faithful, Agree, Failed
  <1> QED BY <1>2, <1>3 DEF MarkersInv

\* An update that changes nothing is acknowledged: what it asks for is kept
\* already, or is owed.
LEMMA UnchangedKeeps ==
    ASSUME MarkersInv, NEW w \in Workers, NEW m \in Markers, NEW n \in Notes, UpdateNothing(w, m, n)
    PROVE  MarkersInv'
  <1>1. /\ Loaded(w) \in Board /\ (SoleWriter(w) => Agree(Loaded(w), file, Failed))
        /\ Loaded(w)[m] = n /\ saving[w] = None /\ UNCHANGED <<file, saving, used>>
        /\ cache' = [cache EXCEPT ![w] = Loaded(w)] /\ kept' = [kept EXCEPT ![m] = n]
        /\ owed' = owed \cup ({m} \cap doubtful) /\ doubtful' = doubtful \ {m}
        /\ writers' = writers \cup {w}
    BY LoadedIsFile DEF UpdateNothing
  <1>2. MarkersTypeOK'
    BY <1>1 DEF MarkersInv, MarkersTypeOK, Board
  <1>3. Failed \ {m} \subseteq Failed' /\ (m \in Failed => m \in Failed')
    BY <1>1 DEF Failed
  <1>4. ASSUME NEW v \in Workers, SoleWriter(v)' PROVE Faithful(v)'
    <2>1. v = w /\ SoleWriter(w) /\ Faithful(w)
      BY <1>1, <1>4 DEF SoleWriter, MarkersInv
    <2>2. saving'[w] = None /\ cache'[w] = Loaded(w)
      BY <1>1 DEF MarkersInv, MarkersTypeOK
    <2>3. Agree(file', kept', Failed')
      BY <1>1, <1>3, <2>1 DEF Faithful, Agree, MarkersInv, MarkersTypeOK, Board
    <2>4. Agree(cache'[w], file', Failed')
      BY <1>1, <1>3, <2>1, <2>2 DEF Agree
    <2> QED BY <2>1, <2>2, <2>3, <2>4 DEF Faithful
  <1> QED BY <1>2, <1>4 DEF MarkersInv

\* The step before _save: cache and list differ from the file at one marker.
LEMMA ChangeKeeps ==
    ASSUME MarkersInv, NEW w \in Workers, NEW m \in Markers,
           NEW seen \in Board, NEW list \in Board, Change(w, m, seen, list),
           Agree(seen, Loaded(w), {m}), Agree(list, Loaded(w), {m}),
           used' \in SUBSET Markers, UNCHANGED <<file, kept, doubtful, owed, writers>>
    PROVE  MarkersInv'
  <1>1. saving[w] = None /\ (SoleWriter(w) => Agree(Loaded(w), file, Failed))
    BY LoadedIsFile DEF Change
  <1> DEFINE s == [list |-> list, marker |-> m]
  <1>2. s \in Save /\ s # None /\ s.list = list /\ s.marker = m /\ seen # None
    BY MarkerAssumption DEF Save
  <1>3. /\ saving' = [saving EXCEPT ![w] = s]
        /\ cache' = [cache EXCEPT ![w] = seen]
    BY DEF Change
  <1> HIDE DEF s
  <1>4. MarkersTypeOK'
    BY <1>2, <1>3 DEF MarkersInv, MarkersTypeOK
  <1>5. ASSUME NEW v \in Workers, SoleWriter(v)' PROVE Faithful(v)'
    <2>1. SoleWriter(v) /\ Faithful(v)
      BY <1>5 DEF SoleWriter, MarkersInv
    <2>2. CASE v = w
      <3>1. saving'[v] = s /\ cache'[v] = seen
        BY <1>3, <2>2 DEF MarkersInv, MarkersTypeOK
      <3>2. Agree(seen, file, Failed \cup {m}) /\ Agree(list, file, Failed \cup {m})
        BY <1>1, <2>1, <2>2 DEF Agree
      <3> QED BY <1>2, <2>1, <3>1, <3>2 DEF Faithful, Agree, Failed
    <2>3. CASE v # w
      <3>1. saving'[v] = saving[v] /\ cache'[v] = cache[v]
        BY <1>3, <2>3 DEF MarkersInv, MarkersTypeOK
      <3> QED BY <2>1, <3>1 DEF Faithful, Agree, Failed
    <2> QED BY <2>2, <2>3
  <1> QED BY <1>4, <1>5 DEF MarkersInv

\* The three changes are such steps.
LEMMA ChangesKeep ==
    ASSUME MarkersInv, NEW w \in Workers, NEW m \in Markers,
           DeleteMarker(w, m) \/ \E n \in Notes : CreateMarker(w, m, n) \/ UpdateMarker(w, m, n)
    PROVE  MarkersInv'
  <1>1. CASE DeleteMarker(w, m)
    <2> DEFINE list == [Loaded(w) EXCEPT ![m] = None]
    <2>1. Loaded(w) \in Board
      BY <1>1, LoadedIsFile DEF DeleteMarker, Change
    <2>2. list \in Board /\ Agree(list, Loaded(w), {m}) /\ Agree(Loaded(w), Loaded(w), {m})
      BY <2>1 DEF Board, Agree
    <2> QED BY <1>1, <2>1, <2>2, ChangeKeeps DEF DeleteMarker, MarkersInv, MarkersTypeOK
  <1>2. ASSUME NEW n \in Notes, CreateMarker(w, m, n) \/ UpdateMarker(w, m, n)
        PROVE  MarkersInv'
    <2> DEFINE list == [Loaded(w) EXCEPT ![m] = n]
    <2>1. Loaded(w) \in Board
      BY <1>2, LoadedIsFile DEF CreateMarker, UpdateMarker, Change
    <2>2. list \in Board /\ Agree(list, Loaded(w), {m})
      BY <2>1 DEF Board, Agree
    <2>3. /\ Change(w, m, list, list)
          /\ used' \in SUBSET Markers /\ UNCHANGED <<file, kept, doubtful, owed, writers>>
      BY <1>2 DEF CreateMarker, UpdateMarker, MarkersInv, MarkersTypeOK
    <2> HIDE DEF list
    <2> QED BY <2>2, <2>3, ChangeKeeps
  <1> QED BY <1>1, <1>2

\* A save that succeeds puts the list of this worker in the file.
LEMMA SaveKeeps ==
    ASSUME MarkersInv, NEW w \in Workers, SaveEnds(w)
    PROVE  MarkersInv'
  <1> DEFINE s == saving[w]
  <1>1. s \in Save /\ s # None /\ s.list \in Board /\ s.marker \in Markers
    BY DEF SaveEnds, MarkersInv, MarkersTypeOK, Save
  <1>2. /\ file' = s.list
        /\ cache' = [cache EXCEPT ![w] = s.list]
        /\ kept' = [kept EXCEPT ![s.marker] = s.list[s.marker]]
        /\ doubtful' = doubtful \ {s.marker}
        /\ owed' = {m \in owed \ {s.marker} : s.list[m] # kept[m]}
        /\ writers' = writers \cup {w}
        /\ saving' = [saving EXCEPT ![w] = None]
        /\ used' = used
    BY DEF SaveEnds
  <1>3. MarkersTypeOK'
    BY <1>1, <1>2 DEF MarkersInv, MarkersTypeOK, Board
  <1>4. ASSUME NEW v \in Workers, SoleWriter(v)' PROVE Faithful(v)'
    <2>1. v = w /\ SoleWriter(w) /\ Faithful(w)
      BY <1>2, <1>4 DEF SoleWriter, MarkersInv
    <2>2. Agree(s.list, file, Failed \cup {s.marker}) /\ Agree(file, kept, Failed)
      BY <1>1, <2>1 DEF Faithful
    <2>3. Agree(file', kept', Failed')
      BY <1>1, <1>2, <2>2 DEF Agree, Failed, MarkersInv, MarkersTypeOK, Board
    <2>4. saving'[v] = None /\ cache'[v] = file'
      BY <1>2, <2>1 DEF MarkersInv, MarkersTypeOK
    <2> QED BY <2>3, <2>4 DEF Faithful, Agree, Failed
  <1> QED BY <1>3, <1>4 DEF MarkersInv

\* A save that fails puts its marker in doubt.
LEMMA FailureKeeps ==
    ASSUME MarkersInv, NEW w \in Workers, SaveFails(w)
    PROVE  MarkersInv'
  <1>1. saving[w].marker \in Markers
    BY DEF SaveFails, MarkersInv, MarkersTypeOK, Save
  <1>2. MarkersTypeOK'
    BY <1>1 DEF SaveFails, MarkersInv, MarkersTypeOK
  <1>3. ASSUME NEW v \in Workers, SoleWriter(v)' PROVE Faithful(v)'
    <2>1. SoleWriter(v) /\ Faithful(v)
      BY <1>3 DEF SaveFails, SoleWriter, MarkersInv
    <2>2. saving'[v] = IF v = w THEN None ELSE saving[v]
      BY DEF SaveFails, MarkersInv, MarkersTypeOK
    <2> QED BY <2>1, <2>2 DEF SaveFails, Faithful, Agree, Failed
  <1> QED BY <1>2, <1>3 DEF MarkersInv

\* A new process starts without a list; what was being saved is in doubt.
LEMMA ReplacedKeeps ==
    ASSUME MarkersInv, NEW w \in Workers, Replaced(w)
    PROVE  MarkersInv'
  <1>1. /\ \A v \in Workers : cache'[v] = IF v = w THEN None ELSE cache[v]
        /\ \A v \in Workers : saving'[v] = IF v = w THEN None ELSE saving[v]
        /\ kept' = kept /\ used' = used /\ owed' = owed
    BY DEF Replaced, MarkersInv, MarkersTypeOK
  <1>2. saving[w] # None => saving[w].marker \in Markers /\ saving[w].list \in Board
    BY DEF MarkersInv, MarkersTypeOK, Save
  <1>3. MarkersTypeOK'
    BY <1>2 DEF Replaced, MarkersInv, MarkersTypeOK
  <1>4. ASSUME NEW v \in Workers, SoleWriter(v)' PROVE Faithful(v)'
    <2>1. CASE UNCHANGED <<file, writers>> /\ doubtful \subseteq doubtful'
      <3>1. SoleWriter(v) /\ Faithful(v)
        BY <1>4, <2>1 DEF SoleWriter, MarkersInv
      <3> QED BY <1>1, <2>1, <3>1 DEF Faithful, Agree, Failed
    <2>2. CASE /\ saving[w] # None /\ file' = saving[w].list /\ writers' = writers \cup {w}
               /\ doubtful' = doubtful \cup {saving[w].marker}
      <3>1. v = w /\ SoleWriter(w) /\ Faithful(w)
        BY <1>4, <2>2 DEF SoleWriter, MarkersInv
      <3> QED BY <1>1, <2>2, <3>1 DEF Faithful, Agree, Failed
    <2> QED BY <2>1, <2>2 DEF Replaced
  <1> QED BY <1>3, <1>4 DEF MarkersInv

\* The invariant holds in every reachable state.
LEMMA MarkersInvariant == MarkersSpec => []MarkersInv
  <1>1. MarkersInv /\ [MarkersNext]_markerVars => MarkersInv'
    <2> SUFFICES ASSUME MarkersInv, [MarkersNext]_markerVars PROVE MarkersInv'
      OBVIOUS
    <2>1. CASE UNCHANGED markerVars
      BY <2>1 DEF markerVars, MarkersInv, MarkersTypeOK, SoleWriter, Faithful, Agree, Failed
    <2>2. CASE MarkersNext
      BY <2>2, ReadKeeps, UnchangedKeeps, ChangesKeep, SaveKeeps, FailureKeeps, ReplacedKeeps DEF MarkersNext
    <2> QED BY <2>1, <2>2
  <1> QED BY <1>1, MarkersInvInit, PTL DEF MarkersSpec

\* As long as one worker handles all the changes, what it acknowledged is in the
\* file, through failed saves and replaced processes, unless the request was
\* repeated after its save had failed.
THEOREM AcknowledgedIsKept == MarkersSpec => []AcknowledgedKept
  BY MarkersInvariant, MarkersInvEnough, PTL

\* And what it lists is in the file, but for the changes that failed.
THEOREM ListedIsInFile == MarkersSpec => []ListedIsSaved
  BY MarkersInvariant, MarkersInvEnough, PTL

\* Together: file, list and acknowledgements agree for a sole writer.
THEOREM FileIsKept == MarkersSpec => []FileKeeps
  BY AcknowledgedIsKept, ListedIsInFile, PTL DEF FileKeeps

-----------------------------------------------------------------------------

\* The status of an analysis goes with the message it is sending.
StageOK(a) ==
    /\ cast[a].stage \in 0..Over
    /\ status[a] \in {"none", "pending"} => cast[a].stage = 0
    /\ status[a] = "running" => cast[a].stage \in 1..(Progress100 - 1)
    /\ status[a] = "completed" => cast[a].stage \in {Progress100, Result, Over}
    /\ status[a] = "failed" => cast[a].stage \in {Failure, Over}

Status == {"none", "pending", "running", "completed", "failed"}

TasksInv ==
    /\ status \in [Analyses -> Status]
    /\ DOMAIN cast = Analyses
    /\ cast = [a \in Analyses |-> cast[a]]
    /\ \A a \in Analyses : StageOK(a)

USE DEF Result, Progress100, Failure, Over, Sent, Status

\* Nothing has begun.
LEMMA TasksInvInit == TasksInit => TasksInv
  BY MessagesAssumption DEF TasksInit, TasksInv, StageOK, Fresh

\* A walk that others shorten keeps its stage.
LEMMA WalksStage ==
    ASSUME TasksInv, NEW gone, NEW a \in Analyses
    PROVE  DOMAIN Walks(gone) = Analyses /\ Walks(gone)[a].stage = cast[a].stage
  <1>1. DOMAIN Walks(gone) = Analyses
    BY DEF Walks
  <1> DEFINE c == cast[a]
             short == [c EXCEPT !.shrunk = TRUE, !.pos = IF Without(gone) = <<>> THEN 0 ELSE @]
  <1>2. Walks(gone)[a] = c \/ Walks(gone)[a] = short
    BY DEF Walks
  <1>3. short.stage = c.stage
    OBVIOUS
  <1> QED BY <1>1, <1>2, <1>3

\* What an analysis that goes on may turn into: a settled one stays as it is.
LEMMA AdvanceShape ==
    ASSUME TasksInv, NEW a \in Analyses, NEW walks, NEW left,
           Advance(a, walks, left), cast[a].stage \in 0..Failure, status[a] # "none",
           walks = [b \in Analyses |-> walks[b]],
           \A b \in Analyses : walks[b].stage = cast[b].stage
    PROVE  /\ TasksInv'
           /\ status[a] \in {"completed", "failed"} => status' = status
  <1>1. PICK stage \in After(cast[a].stage) :
           IF left = <<>>
           THEN /\ \E s \in Outcomes(a, stage) : status' = [status EXCEPT ![a] = s]
                /\ cast' = [walks EXCEPT ![a] = Fresh(Over)]
           ELSE /\ status' = [status EXCEPT ![a] = StatusAt(a, stage)]
                /\ cast' = [walks EXCEPT ![a] = Fresh(stage)]
    BY DEF Advance
  <1>2. stage \in 1..Over
    BY MessagesAssumption DEF After
  <1> DEFINE settled == {"completed", "failed"}
  <1>3. PICK s, st : /\ status' = [status EXCEPT ![a] = s]
                     /\ \/ s \in Outcomes(a, stage) /\ st = Over
                        \/ s = StatusAt(a, stage) /\ st = stage
                     /\ cast' = [b \in Analyses |-> cast'[b]]
                     /\ cast'[a].stage = st
                     /\ \A b \in Analyses : b # a => cast'[b].stage = cast[b].stage
    <2> DEFINE st == IF left = <<>> THEN Over ELSE stage
    <2>1. PICK s : /\ status' = [status EXCEPT ![a] = s]
                   /\ \/ s \in Outcomes(a, stage) /\ st = Over
                      \/ s = StatusAt(a, stage) /\ st = stage
      BY <1>1
    <2>2. cast' = [walks EXCEPT ![a] = Fresh(st)]
      BY <1>1
    <2>3. Fresh(st).stage = st
      BY DEF Fresh
    <2> HIDE DEF st
    <2>4. cast'[a].stage = st /\ \A b \in Analyses : b # a => cast'[b].stage = cast[b].stage
      BY <2>2, <2>3
    <2>5. cast' = [b \in Analyses |-> cast'[b]]
      BY <2>2
    <2> QED BY <2>1, <2>4, <2>5
  <1>4. /\ s \in Status
        /\ status[a] \in settled => s = status[a]
        /\ s \notin {"none", "pending"}
        /\ s = "running" => st \in 1..(Progress100 - 1)
        /\ s = "completed" => st \in {Progress100, Result, Over}
        /\ s = "failed" => st \in {Failure, Over}
        /\ st \in 0..Over
    <2>1. status[a] \in Status /\ StageOK(a)
      BY DEF TasksInv
    <2>2. CASE status[a] = "pending"
      <3>1. stage = 1
        BY <2>1, <2>2, MessagesAssumption DEF StageOK, After
      <3> QED BY <1>3, <2>2, <3>1, MessagesAssumption DEF Outcomes, StatusAt
    <2>3. CASE status[a] = "running"
      <3>1. stage = Failure \/ stage \in 2..Progress100
        BY <2>1, <2>3, MessagesAssumption DEF StageOK, After
      <3> QED BY <1>3, <2>3, <3>1, MessagesAssumption DEF Outcomes, StatusAt
    <2>4. CASE status[a] = "completed"
      <3>1. stage \in {Result, Over}
        BY <2>1, <2>4, MessagesAssumption DEF StageOK, After
      <3> QED BY <1>3, <2>4, <3>1, MessagesAssumption DEF Outcomes, StatusAt
    <2>5. CASE status[a] = "failed"
      <3>1. stage = Over
        BY <2>1, <2>5, MessagesAssumption DEF StageOK, After
      <3> QED BY <1>3, <2>5, <3>1, MessagesAssumption DEF Outcomes, StatusAt
    <2> QED BY <2>1, <2>2, <2>3, <2>4, <2>5
  <1>5. TasksInv'
    BY <1>3, <1>4 DEF TasksInv, StageOK
  <1>6. status[a] \in settled => status' = status
    BY <1>3, <1>4 DEF TasksInv
  <1> QED BY <1>5, <1>6

\* Each step keeps the invariant and the status of what has settled.
LEMMA TasksStep ==
    ASSUME TasksInv, [TasksNext]_taskVars
    PROVE  /\ TasksInv'
           /\ \A a \in Analyses : status[a] \in {"completed", "failed"} => status'[a] = status[a]
  <1>1. ASSUME NEW a \in Analyses, Run(a) \/ LoopEnds(a)
        PROVE  /\ TasksInv'
               /\ \A b \in Analyses : status[b] \in {"completed", "failed"} => status'[b] = status[b]
    <2>1. PICK walks, left :
            /\ Advance(a, walks, left)
            /\ walks = [b \in Analyses |-> walks[b]]
            /\ \A b \in Analyses : walks[b].stage = cast[b].stage
      <3>1. CASE Run(a)
        BY <3>1 DEF Run, TasksInv
      <3>2. CASE LoopEnds(a)
        <4>1. Walks(cast[a].lost) = [b \in Analyses |-> Walks(cast[a].lost)[b]]
          BY DEF Walks
        <4> QED BY <3>2, <4>1, WalksStage DEF LoopEnds
      <3> QED BY <1>1, <3>1, <3>2
    <2>2. cast[a].stage \in 0..Failure /\ status[a] # "none"
      BY <1>1, MessagesAssumption DEF Run, LoopEnds, TasksInv, StageOK
    <2>3. /\ TasksInv'
          /\ status[a] \in {"completed", "failed"} => status' = status
      BY <2>1, <2>2, AdvanceShape
    <2>4. \A b \in Analyses : b # a => status'[b] = status[b]
      BY <2>1 DEF Advance, TasksInv
    <2> QED BY <2>3, <2>4
  <1>2. ASSUME NEW a \in Analyses, StartAnalysis(a)
        PROVE  /\ TasksInv'
               /\ \A b \in Analyses : status[b] \in {"completed", "failed"} => status'[b] = status[b]
    BY <1>2 DEF StartAnalysis, TasksInv, StageOK
  <1>3. ASSUME status' = status, cast' = [b \in Analyses |-> cast'[b]],
               \A b \in Analyses : cast'[b].stage = cast[b].stage
        PROVE  /\ TasksInv'
               /\ \A b \in Analyses : status[b] \in {"completed", "failed"} => status'[b] = status[b]
    BY <1>3 DEF TasksInv, StageOK
  <1>4. ASSUME NEW a \in Analyses, Push(a)
        PROVE  /\ status' = status /\ cast' = [b \in Analyses |-> cast'[b]]
               /\ \A b \in Analyses : cast'[b].stage = cast[b].stage
    <2> DEFINE w == conns[cast[a].pos]
               done == [cast[a] EXCEPT !.pos = @ + 1, !.tried = @ \cup {w}]
               lost == [done EXCEPT !.lost = @ \cup {w}]
    <2>1. PICK c \in {done, lost} : status' = status /\ cast' = [cast EXCEPT ![a] = c]
      BY <1>4 DEF Push, SendDone, SendRaises, TasksInv
    <2>2. done.stage = cast[a].stage /\ lost.stage = done.stage
      OBVIOUS
    <2> HIDE DEF done, lost
    <2> QED BY <2>1, <2>2 DEF TasksInv
  <1>5. ASSUME NEW w \in Tabs, Connect(w) \/ Close(w) \/ Leave(w)
        PROVE  /\ status' = status /\ cast' = [b \in Analyses |-> cast'[b]]
               /\ \A b \in Analyses : cast'[b].stage = cast[b].stage
    <2>1. CASE Leave(w)
      <3>1. cast' = Walks({w}) /\ status' = status
        BY <2>1 DEF Leave
      <3>2. Walks({w}) = [b \in Analyses |-> Walks({w})[b]]
        BY DEF Walks
      <3> QED BY <3>1, <3>2, WalksStage
    <2>2. CASE Connect(w) \/ Close(w)
      BY <2>2 DEF Connect, Close, TasksInv
    <2> QED BY <1>5, <2>1, <2>2
  <1>6. ASSUME UNCHANGED taskVars
        PROVE  /\ status' = status /\ cast' = [b \in Analyses |-> cast'[b]]
               /\ \A b \in Analyses : cast'[b].stage = cast[b].stage
    BY <1>6 DEF taskVars, TasksInv
  <1> QED BY <1>1, <1>2, <1>3, <1>4, <1>5, <1>6 DEF TasksNext, Proceed

\* An analysis that has settled does not change its mind.
THEOREM SettlingIsFinal == TasksSpec => SettledForGood
  <1>1. TasksInv /\ [TasksNext]_taskVars =>
          TasksInv' /\ [\A a \in Analyses : status[a] \in {"completed", "failed"}
                          => status'[a] = status[a]]_status
    BY TasksStep
  <1> QED BY <1>1, TasksInvInit, PTL DEF TasksSpec, SettledForGood

-----------------------------------------------------------------------------

\* A walk nothing was removed under has sent to all it has passed.
WalkOK(c, list) ==
    c.stage \in Sent /\ ~c.shrunk =>
        /\ c.pos \in 1..(Len(list) + 1)
        /\ \A n \in 1..(c.pos - 1) : list[n] \in c.tried

WalksInv ==
    /\ conns \in Seq(Tabs)
    /\ cast \in [Analyses -> Cast]
    /\ \A a \in Analyses : WalkOK(cast[a], conns)

\* A broadcast that begins has passed nobody, and a task that is over no longer walks.
LEMMA FreshWalks ==
    ASSUME NEW stage \in 0..Over, NEW list \in Seq(Tabs)
    PROVE  Fresh(stage) \in Cast /\ WalkOK(Fresh(stage), list)
  BY LenProperties DEF Fresh, Cast, WalkOK

LEMMA WalksInvInit == TasksInit => WalksInv
  <1> SUFFICES ASSUME TasksInit PROVE WalksInv
    OBVIOUS
  <1>1. <<>> \in Seq(Tabs)
    BY EmptySeq
  <1>2. 0 \in 0..Over
    BY MessagesAssumption
  <1>3. Fresh(0) \in Cast /\ WalkOK(Fresh(0), <<>>)
    BY <1>1, <1>2, FreshWalks
  <1> QED BY <1>1, <1>3 DEF TasksInit, WalksInv

\* Removing connections keeps what the walks of the others say.
LEMMA WalksKeep ==
    ASSUME WalksInv, NEW gone
    PROVE  /\ Without(gone) \in Seq(Tabs)
           /\ Walks(gone) \in [Analyses -> Cast]
           /\ \A a \in Analyses : WalkOK(Walks(gone)[a], Without(gone))
  <1>1. Without(gone) \in Seq(Tabs)
    BY KeepMembers DEF WalksInv, Without
  <1>2. ASSUME NEW a \in Analyses
        PROVE  Walks(gone)[a] \in Cast /\ WalkOK(Walks(gone)[a], Without(gone))
    <2>1. cast[a] \in Cast /\ WalkOK(cast[a], conns)
      BY DEF WalksInv
    <2>2. CASE cast[a].stage \notin Sent \/ Without(gone) = conns
      <3>1. Walks(gone)[a] = cast[a]
        BY <2>2 DEF Walks
      <3> QED BY <2>1, <2>2, <3>1 DEF WalkOK
    <2>3. CASE ~(cast[a].stage \notin Sent \/ Without(gone) = conns)
      <3> DEFINE at == IF Without(gone) = <<>> THEN 0 ELSE cast[a].pos
                 short == [cast[a] EXCEPT !.shrunk = TRUE, !.pos = at]
      <3>1. Walks(gone)[a] = short
        BY <2>3 DEF Walks
      <3>2. at \in Nat
        BY <2>1 DEF Cast
      <3> HIDE DEF at
      <3>3. short \in Cast /\ short.shrunk = TRUE
        BY <2>1, <3>2 DEF Cast
      <3> QED BY <3>1, <3>3 DEF WalkOK
    <2> QED BY <2>2, <2>3
  <1>3. Walks(gone) = [a \in Analyses |-> Walks(gone)[a]]
    BY DEF Walks
  <1> QED BY <1>1, <1>2, <1>3

\* An analysis that goes on begins its next broadcast at the head of the list.
LEMMA AdvanceWalks ==
    ASSUME NEW a \in Analyses, NEW walks \in [Analyses -> Cast], conns' \in Seq(Tabs),
           \A b \in Analyses : WalkOK(walks[b], conns'),
           cast[a].stage \in 0..Failure, Advance(a, walks, conns')
    PROVE  WalksInv'
  <1>1. PICK stage \in After(cast[a].stage) :
           cast' = [walks EXCEPT ![a] = IF conns' = <<>> THEN Fresh(Over) ELSE Fresh(stage)]
    BY DEF Advance
  <1>2. stage \in 0..Over /\ Over \in 0..Over
    BY MessagesAssumption DEF After
  <1> DEFINE c == IF conns' = <<>> THEN Fresh(Over) ELSE Fresh(stage)
  <1>3. c \in Cast /\ WalkOK(c, conns')
    BY <1>2, FreshWalks
  <1>4. cast' = [walks EXCEPT ![a] = c]
    BY <1>1
  <1> HIDE DEF c
  <1>5. \A b \in Analyses : cast'[b] = IF b = a THEN c ELSE walks[b]
    BY <1>4
  <1> QED BY <1>3, <1>4, <1>5 DEF WalksInv

\* A send passes the connection it was made to.
LEMMA PushWalks ==
    ASSUME WalksInv, NEW a \in Analyses, Push(a)
    PROVE  WalksInv'
  <1> DEFINE c == cast[a]
             w == conns[c.pos]
             done == [c EXCEPT !.pos = @ + 1, !.tried = @ \cup {w}]
             lost == [done EXCEPT !.lost = @ \cup {w}]
  <1>1. c \in Cast /\ WalkOK(c, conns) /\ c.stage \in Sent /\ c.pos \in 1..Len(conns)
    BY DEF Push, Walking, WalksInv
  <1>2. w \in Tabs /\ Len(conns) \in Nat
    BY <1>1, LenProperties, ElementOfSeq DEF WalksInv
  <1>3. cast' = [cast EXCEPT ![a] = done] \/ cast' = [cast EXCEPT ![a] = lost]
    <2>1. cast = [b \in Analyses |-> cast[b]]
      BY DEF WalksInv
    <2> QED BY <2>1 DEF Push, SendDone, SendRaises
  <1>4. conns' = conns
    BY DEF Push, SendDone, SendRaises
  <1>5. PICK d : /\ cast' = [cast EXCEPT ![a] = d]
                 /\ d \in Cast /\ d.stage = c.stage /\ d.shrunk = c.shrunk
                 /\ d.pos = c.pos + 1 /\ d.tried = c.tried \cup {w}
    <2> HIDE DEF c, w
    <2>1. c.pos + 1 \in Nat /\ c.tried \cup {w} \in SUBSET Tabs /\ c.lost \cup {w} \in SUBSET Tabs
      BY <1>1, <1>2 DEF Cast
    <2>2. /\ done \in Cast /\ done.stage = c.stage /\ done.shrunk = c.shrunk
          /\ done.pos = c.pos + 1 /\ done.tried = c.tried \cup {w} /\ done.lost = c.lost
      BY <1>1, <2>1 DEF Cast
    <2>3. /\ lost \in Cast /\ lost.stage = c.stage /\ lost.shrunk = c.shrunk
          /\ lost.pos = c.pos + 1 /\ lost.tried = c.tried \cup {w}
      <3> HIDE DEF done
      <3> QED BY <2>1, <2>2 DEF Cast
    <2> HIDE DEF done, lost
    <2> QED BY <1>3, <2>2, <2>3
  <1>6. ASSUME d.stage \in Sent, ~d.shrunk
        PROVE  /\ d.pos \in 1..(Len(conns) + 1)
               /\ \A n \in 1..(d.pos - 1) : conns[n] \in d.tried
    <2>1. c.pos \in Nat /\ \A n \in 1..(c.pos - 1) : conns[n] \in c.tried
      BY <1>1, <1>5, <1>6 DEF WalkOK
    <2>2. ASSUME NEW n \in 1..(d.pos - 1) PROVE conns[n] \in d.tried
      <3>1. n = c.pos \/ n \in 1..(c.pos - 1)
        BY <1>5, <2>1
      <3> QED BY <1>5, <2>1, <3>1
    <2> QED BY <1>1, <1>2, <1>5, <2>2
  <1>7. WalkOK(d, conns)
    BY <1>6 DEF WalkOK
  <1> HIDE DEF done, lost, c, w
  <1> QED BY <1>4, <1>5, <1>7 DEF WalksInv

\* Each step keeps the walks as they should be.
LEMMA WalksStep ==
    ASSUME TasksInv, WalksInv, [TasksNext]_taskVars
    PROVE  WalksInv'
  <1>1. ASSUME NEW a \in Analyses, Run(a)
        PROVE  WalksInv'
    <2>1. cast[a].stage \in 0..Failure
      BY <1>1, MessagesAssumption DEF Run, TasksInv, StageOK
    <2> QED BY <1>1, <2>1, AdvanceWalks DEF Run, WalksInv
  <1>2. ASSUME NEW a \in Analyses, LoopEnds(a)
        PROVE  WalksInv'
    <2>1. cast[a].stage \in 0..Failure
      BY <1>2, MessagesAssumption DEF LoopEnds
    <2> QED BY <1>2, <2>1, WalksKeep, AdvanceWalks DEF LoopEnds
  <1>3. ASSUME NEW a \in Analyses, StartAnalysis(a)
        PROVE  WalksInv'
    BY <1>3 DEF StartAnalysis, WalksInv
  <1>4. ASSUME NEW w \in Tabs, Leave(w)
        PROVE  WalksInv'
    BY <1>4, WalksKeep DEF Leave, WalksInv
  <1>5. ASSUME NEW w \in Tabs, Connect(w)
        PROVE  WalksInv'
    <2>1. /\ conns' \in Seq(Tabs) /\ Len(conns') = Len(conns) + 1 /\ Len(conns) \in Nat
          /\ \A n \in 1..Len(conns) : conns'[n] = conns[n]
      BY <1>5, AppendProperties, LenProperties DEF Connect, WalksInv
    <2>2. ASSUME NEW a \in Analyses PROVE WalkOK(cast[a], conns')
      BY <2>1 DEF WalksInv, WalkOK
    <2> QED BY <1>5, <2>1, <2>2 DEF Connect, WalksInv
  <1>6. ASSUME NEW w \in Tabs, Close(w)
        PROVE  WalksInv'
    BY <1>6 DEF Close, WalksInv
  <1>7. CASE UNCHANGED taskVars
    BY <1>7 DEF taskVars, WalksInv
  <1> QED BY <1>1, <1>2, <1>3, <1>4, <1>5, <1>6, <1>7, PushWalks DEF TasksNext, Proceed

\* A walk that has come to the end has passed the whole list.
LEMMA WalksInvEnough == WalksInv => ReachesAll
  <1> SUFFICES ASSUME WalksInv, NEW a \in Analyses,
                      cast[a].stage \in Sent, ~Walking(a), ~cast[a].shrunk,
                      NEW n \in 1..Len(conns)
               PROVE  conns[n] \in cast[a].tried
    BY DEF ReachesAll, ToSet, WalksInv
  <1>1. /\ cast[a].pos \in 1..(Len(conns) + 1) /\ cast[a].pos \notin 1..Len(conns)
        /\ \A i \in 1..(cast[a].pos - 1) : conns[i] \in cast[a].tried
    BY DEF WalksInv, WalkOK, Walking
  <1>2. Len(conns) \in Nat
    BY LenProperties DEF WalksInv
  <1>3. cast[a].pos - 1 = Len(conns)
    BY <1>1, <1>2
  <1> QED BY <1>1, <1>3

\* A broadcast reaches every connection of the session, those that joined on the
\* way included, unless one was removed while it ran.
THEOREM BroadcastReachesAll == TasksSpec => []ReachesAll
  <1>1. TasksInit => TasksInv /\ WalksInv
    BY TasksInvInit, WalksInvInit
  <1>2. TasksInv /\ WalksInv /\ [TasksNext]_taskVars => TasksInv' /\ WalksInv'
    BY TasksStep, WalksStep
  <1> QED BY <1>1, <1>2, WalksInvEnough, PTL DEF TasksSpec

-----------------------------------------------------------------------------
(* The contexts of the sessions                                             *)

\* The time of a session's last use is the one that was noted, and whoever was
\* never noted has put nothing in.
ContextsInv ==
    /\ moment \in Nat /\ lastUse \in [SessionIds -> Nat] /\ DOMAIN basket = SessionIds
    /\ DOMAIN contexts \subseteq SessionIds
    /\ \A s \in SessionIds : lastUse[s] <= moment
    /\ \A s \in DOMAIN touched : touched[s] = lastUse[s]
    /\ ContextsLast

\* A use of a session, whatever it puts in and takes out.
LEMMA TouchKeeps ==
  ASSUME ContextsInv, NEW s \in SessionIds, NEW put, NEW taken, Touch(s, put, taken)
  PROVE  ContextsInv'
  <1>1. SessionTTL \in Nat
    BY MapEngineAssumption
  <1> DEFINE had(r) == IF r \in DOMAIN contexts THEN contexts[r] ELSE {}
             before == IF s \in Kept(s) THEN contexts[s] ELSE {}
             begun == IF moment - lastUse[s] > SessionTTL THEN {} ELSE basket[s]
  <1>2. /\ contexts' = [r \in Kept(s) \union {s} |-> IF r = s THEN (before \union put) \ taken ELSE contexts[r]]
        /\ touched' = [r \in (Kept(s) \intersect DOMAIN touched) \union {s} |-> IF r = s THEN moment ELSE touched[r]]
        /\ basket' = [basket EXCEPT ![s] = (begun \union put) \ taken]
        /\ lastUse' = [lastUse EXCEPT ![s] = moment] /\ moment' = moment
    BY DEF Touch
  <1>3. /\ moment \in Nat /\ lastUse \in [SessionIds -> Nat] /\ DOMAIN basket = SessionIds
        /\ \A r \in SessionIds : lastUse[r] <= moment
        /\ \A r \in DOMAIN touched : touched[r] = lastUse[r]
        /\ DOMAIN touched \subseteq DOMAIN contexts /\ DOMAIN contexts \subseteq SessionIds
        /\ \A r \in SessionIds : moment - lastUse[r] <= SessionTTL => had(r) = basket[r]
        /\ \A r \in DOMAIN contexts \ DOMAIN touched : contexts[r] = {}
    BY DEF ContextsInv, ContextsLast
  <1>4. Kept(s) = {r \in DOMAIN contexts : r \in DOMAIN touched => moment - lastUse[r] <= SessionTTL}
    BY <1>3 DEF Kept, Alive
  <1>5. before = begun
    <2>1. CASE moment - lastUse[s] <= SessionTTL
      BY <1>1, <1>3, <1>4, <2>1
    <2>2. CASE moment - lastUse[s] > SessionTTL
      BY <1>1, <1>3, <1>4, <2>2
    <2> QED BY <1>1, <1>3, <2>1, <2>2
  <1> HIDE DEF before, begun
  <1>6. /\ moment' \in Nat /\ lastUse' \in [SessionIds -> Nat] /\ DOMAIN basket' = SessionIds
        /\ \A r \in SessionIds : lastUse'[r] <= moment'
        /\ \A r \in DOMAIN touched' : touched'[r] = lastUse'[r]
        /\ DOMAIN contexts' \subseteq SessionIds
    BY <1>2, <1>3, <1>4
  <1>7. ASSUME NEW r \in SessionIds, moment' - lastUse'[r] <= SessionTTL
        PROVE  (IF r \in DOMAIN contexts' THEN contexts'[r] ELSE {}) = basket'[r]
    <2>1. CASE r = s
      BY <1>2, <1>3, <1>5, <2>1
    <2>2. CASE r # s
      <3>1. lastUse'[r] = lastUse[r] /\ basket'[r] = basket[r]
        BY <1>2, <1>3, <2>2
      <3>2. had(r) = basket[r]
        BY <1>2, <1>3, <1>7, <3>1
      <3>3. r \in DOMAIN contexts => r \in Kept(s)
        BY <1>2, <1>3, <1>4, <1>7, <3>1
      <3>4. r \in DOMAIN contexts' <=> r \in DOMAIN contexts
        BY <1>2, <1>4, <2>2, <3>3
      <3>5. r \in DOMAIN contexts => contexts'[r] = contexts[r]
        BY <1>2, <2>2, <3>3
      <3> QED BY <3>1, <3>2, <3>4, <3>5
    <2> QED BY <2>1, <2>2
  <1>8. DOMAIN touched' \subseteq DOMAIN contexts'
    BY <1>2
  <1>9. \A r \in DOMAIN contexts' \ DOMAIN touched' : contexts'[r] = {}
    <2> SUFFICES ASSUME NEW r, r \in DOMAIN contexts' \ DOMAIN touched' PROVE contexts'[r] = {}
      OBVIOUS
    <2>1. r # s /\ r \in Kept(s) /\ r \notin DOMAIN touched
      BY <1>2
    <2> QED BY <1>2, <1>3, <1>4, <2>1
  <1> QED BY <1>6, <1>7, <1>8, <1>9 DEF ContextsInv, ContextsLast

LEMMA ContextsStep == ContextsInv /\ [AnalysesNext \/ ContextsNext]_engineVars => ContextsInv'
  <1> SUFFICES ASSUME ContextsInv, [AnalysesNext \/ ContextsNext]_engineVars PROVE ContextsInv'
    OBVIOUS
  <1>0. SessionTTL \in Nat
    BY MapEngineAssumption
  <1>1. CASE UNCHANGED contextVars
    BY <1>1 DEF contextVars, ContextsInv, ContextsLast
  <1>2. CASE MomentPasses
    <2>1. moment \in Nat /\ moment' = moment + 1 /\ UNCHANGED <<contexts, touched, basket, lastUse>>
      BY <1>2 DEF MomentPasses, ContextsInv
    <2>2. \A s \in SessionIds : lastUse[s] \in Nat /\ lastUse[s] <= moment
      BY DEF ContextsInv
    <2>3. \A s \in SessionIds : /\ lastUse[s] <= moment + 1
                                /\ moment + 1 - lastUse[s] <= SessionTTL => moment - lastUse[s] <= SessionTTL
      BY <1>0, <2>1, <2>2
    <2> QED BY <2>1, <2>3 DEF ContextsInv, ContextsLast
  <1>3. ASSUME NEW s \in SessionIds, ClearContext(s) PROVE ContextsInv'
    <2>1. /\ contexts' = [r \in DOMAIN contexts \union {s} |-> IF r = s THEN {} ELSE contexts[r]]
          /\ basket' = [basket EXCEPT ![s] = {}] /\ UNCHANGED <<moment, touched, lastUse>>
      BY <1>3 DEF ClearContext
    <2> QED BY <2>1 DEF ContextsInv, ContextsLast
  <1>4. ASSUME NEW s \in SessionIds, GetContext(s) PROVE ContextsInv'
    BY <1>4, TouchKeeps DEF GetContext
  <1>5. ASSUME NEW s \in SessionIds, NEW e \in Marked, AddToContext(s, e) \/ RemoveFromContext(s, e) PROVE ContextsInv'
    BY <1>5, TouchKeeps DEF AddToContext, RemoveFromContext
  <1> QED BY <1>1, <1>2, <1>3, <1>4, <1>5 DEF AnalysesNext, ContextsNext, engineVars

-----------------------------------------------------------------------------
(* How strong a relation is                                                 *)

\* The first threshold that is reached; the last one always is.
LEMMA StrengthCases ==
  ASSUME NEW x \in Int, NEW y \in Int, NEW c, c = 10 * Magnitude(Coefficient(x, y).over),
         NEW u, u = Coefficient(x, y).under
  PROVE  Strength(x, y) = IF c >= 8 * u THEN "very_strong" ELSE IF c >= 6 * u THEN "strong"
                          ELSE IF c >= 3 * u THEN "moderate" ELSE "weak"
  <1> DEFINE table == <<<<8, "very_strong">>, <<6, "strong">>, <<3, "moderate">>, <<0, "weak">>>>
             reached == {t \in DOMAIN table : c >= table[t][1] * u}
             first == CHOOSE t \in reached : \A v \in reached : t <= v
  <1>1. /\ DOMAIN table = 1..4 /\ table[1][1] = 8 /\ table[2][1] = 6 /\ table[3][1] = 3 /\ table[4][1] = 0
        /\ table[1][2] = "very_strong" /\ table[2][2] = "strong" /\ table[3][2] = "moderate" /\ table[4][2] = "weak"
    OBVIOUS
  <1>2. Strength(x, y) = table[first][2]
    BY DEF Strength, StrengthFrom
  <1> HIDE DEF table
  <1>3. c \in Nat /\ u \in Nat
    BY DEF Coefficient, Magnitude, Smaller, Larger
  <1>4. /\ reached \subseteq 1..4 /\ 4 \in reached
        /\ 1 \in reached <=> c >= 8 * u
        /\ 2 \in reached <=> c >= 6 * u
        /\ 3 \in reached <=> c >= 3 * u
    BY <1>1, <1>3
  <1> HIDE DEF reached
  <1>5. ASSUME NEW t \in reached, \A v \in reached : t <= v PROVE first = t
    <2>1. first \in reached /\ \A v \in reached : first <= v
      BY <1>5
    <2> HIDE DEF first
    <2> QED BY <1>4, <1>5, <2>1
  <1>6. first = IF c >= 8 * u THEN 1 ELSE IF c >= 6 * u THEN 2 ELSE IF c >= 3 * u THEN 3 ELSE 4
    <2> HIDE DEF first
    <2>1. CASE 1 \in reached
      <3>1. first = 1
        BY <1>4, <1>5, <2>1
      <3> QED BY <1>4, <2>1, <3>1
    <2>2. CASE 1 \notin reached /\ 2 \in reached
      <3>1. first = 2
        BY <1>4, <1>5, <2>2
      <3> QED BY <1>4, <2>2, <3>1
    <2>3. CASE 1 \notin reached /\ 2 \notin reached /\ 3 \in reached
      <3>1. first = 3
        BY <1>4, <1>5, <2>3
      <3> QED BY <1>4, <2>3, <3>1
    <2>4. CASE 1 \notin reached /\ 2 \notin reached /\ 3 \notin reached
      <3>1. first = 4
        BY <1>4, <1>5, <2>4
      <3> QED BY <1>4, <2>4, <3>1
    <2> QED BY <2>1, <2>2, <2>3, <2>4
  <1> HIDE DEF first
  <1> QED BY <1>1, <1>2, <1>6

\* The strength of two values in a unit, and turned round.
LEMMA StrengthOfUnits ==
  ASSUME NEW x \in Int, NEW y \in Int, NEW unit \in 1..3
  PROVE  Strength(x, y) = Strength(unit * y, unit * x)
  <1> DEFINE c == 10 * Magnitude(Coefficient(x, y).over)
             u == Coefficient(x, y).under
             d == 10 * Magnitude(Coefficient(unit * y, unit * x).over)
             v == Coefficient(unit * y, unit * x).under
  <1>1. unit = 1 \/ unit = 2 \/ unit = 3
    OBVIOUS
  <1>2. c \in Nat /\ u \in Nat /\ u > 0 /\ ((d = unit * c /\ v = unit * u) \/ (d = c /\ v = u))
    <2>1. CASE unit = 1
      BY <2>1 DEF Coefficient, Magnitude, Smaller, Larger
    <2>2. CASE unit = 2
      BY <2>2 DEF Coefficient, Magnitude, Smaller, Larger
    <2>3. CASE unit = 3
      BY <2>3 DEF Coefficient, Magnitude, Smaller, Larger
    <2> QED BY <1>1, <2>1, <2>2, <2>3
  <1>3. unit * y \in Int /\ unit * x \in Int
    BY <1>1
  <1>4. Strength(x, y) = IF c >= 8 * u THEN "very_strong" ELSE IF c >= 6 * u THEN "strong"
                         ELSE IF c >= 3 * u THEN "moderate" ELSE "weak"
    BY StrengthCases
  <1>5. Strength(unit * y, unit * x) = IF d >= 8 * v THEN "very_strong" ELSE IF d >= 6 * v THEN "strong"
                                       ELSE IF d >= 3 * v THEN "moderate" ELSE "weak"
    BY <1>3, StrengthCases
  <1> HIDE DEF c, u, d, v
  <1>6. (d >= 8 * v <=> c >= 8 * u) /\ (d >= 6 * v <=> c >= 6 * u) /\ (d >= 3 * v <=> c >= 3 * u)
    BY <1>1, <1>2
  <1> QED BY <1>4, <1>5, <1>6

\* Very strong are values a tenth apart, and values tenfold apart.
LEMMA StrengthExtremes ==
  ASSUME NEW x \in Int, NEW y \in Int,
         NEW small, small = Smaller(Magnitude(x), Magnitude(y)),
         NEW large, large = Larger(Magnitude(x), Magnitude(y))
  PROVE  /\ Strength(x, y) = "very_strong" <=> 10 * small >= 9 * large \/ 10 * small <= large
         /\ Direction(x, y) = "negative" => 2 * small < large
  <1>1. small \in Nat /\ large \in Nat /\ small <= large
    BY DEF Smaller, Larger, Magnitude
  <1>2. /\ Coefficient(x, y).over = IF large = 0 THEN 1 ELSE 2 * small - large
        /\ Coefficient(x, y).under = IF large = 0 THEN 1 ELSE large
    BY DEF Coefficient
  <1> DEFINE c == 10 * Magnitude(Coefficient(x, y).over)
             u == Coefficient(x, y).under
  <1>3. Strength(x, y) = "very_strong" <=> c >= 8 * u
    <2>1. Strength(x, y) = IF c >= 8 * u THEN "very_strong" ELSE IF c >= 6 * u THEN "strong"
                           ELSE IF c >= 3 * u THEN "moderate" ELSE "weak"
      BY StrengthCases
    <2> HIDE DEF c, u
    <2> QED BY <2>1
  <1>4. c >= 8 * u <=> 10 * small >= 9 * large \/ 10 * small <= large
    BY <1>1, <1>2 DEF Magnitude
  <1>5. Direction(x, y) = "negative" => 2 * small < large
    BY <1>1, <1>2 DEF Direction
  <1> QED BY <1>3, <1>4, <1>5

-----------------------------------------------------------------------------
(* What is answered                                                         *)

\* The demo entities have what they began with, and maybe a count.
DemoLike(d) ==
    /\ DOMAIN d = Places
    /\ \A p \in Places : d[p] = Own[p] \/ \E c \in PoiCounts : d[p] = Counted(Own[p], c)

\* A list of references to demo entities and of entities that were sent.
WellFormed(es) ==
    /\ Len(es) \in Nat /\ DOMAIN es = 1..Len(es)
    /\ \A n \in 1..Len(es) :
        /\ es[n] \in [id : {es[n].id}, shared : BOOLEAN, located : BOOLEAN, props : {es[n].props}]
        /\ es[n].shared => es[n].id \in Places
        /\ ~es[n].shared => es[n].props \in [DOMAIN es[n].props -> Int]

\* A value that no later analysis changes, but for a count.
Stands(e, name, v) ==
    /\ e.shared => e.id \in Places /\ (name = "poi" \/ v = ValueIn(Own[e.id], name))
    /\ ~e.shared => v = ValueIn(e.props, name)

ResultOK(es, r) ==
    LET e == es[FirstNamed(es, r.pair[1])]
        f == es[FirstNamed(es, r.pair[2])]
    IN  /\ e.id # f.id /\ r.x \in Int /\ r.y \in Int /\ r.strength = Strength(r.x, r.y)
        /\ Stands(e, r.pair[3], r.x) /\ Stands(f, r.pair[3], r.y)

AnswerOK(answer) ==
    answer.pc = "done" =>
        /\ \A r \in answer.results : ResultOK(answer.entities, r)
        /\ answer.words = "errors" <=> Len(answer.entities) < 2
        /\ answer.words = "errors" =>
             answer.results = {} /\ (answer.unknown > 0 \/ \E e \in Range(answer.entities) : ~e.shared)

AnalysesInv == DemoLike(demo) /\ DOMAIN run = Runs /\ \A a \in Runs : AnswerOK(run[a])

\* A count hides nothing else.
LEMMA DemoValues ==
  ASSUME NEW d, DemoLike(d), NEW p \in Places, NEW name
  PROVE  ValueIn(d[p], name) \in Int /\ (name # "poi" => ValueIn(d[p], name) = ValueIn(Own[p], name))
  <1>1. Own[p] \in [DOMAIN Own[p] -> Int] /\ "poi" \notin DOMAIN Own[p] /\ PoiCounts \subseteq Int
    BY MapEngineAssumption
  <1>2. CASE d[p] = Own[p]
    BY <1>1, <1>2 DEF ValueIn
  <1>3. ASSUME NEW c \in PoiCounts, d[p] = Counted(Own[p], c)
        PROVE  ValueIn(d[p], name) \in Int /\ (name # "poi" => ValueIn(d[p], name) = ValueIn(Own[p], name))
    BY <1>1, <1>3 DEF ValueIn, Counted
  <1> QED BY <1>2, <1>3 DEF DemoLike

\* The value an entity has for a name stands.
LEMMA ValuesStand ==
  ASSUME NEW d, DemoLike(d), NEW es, WellFormed(es), NEW n \in 1..Len(es), NEW name
  PROVE  /\ ValueIn(Properties(es[n], d), name) \in Int
         /\ Stands(es[n], name, ValueIn(Properties(es[n], d), name))
  <1>1. CASE es[n].shared
    <2>1. es[n].id \in Places /\ Properties(es[n], d) = d[es[n].id]
      BY <1>1 DEF WellFormed, Properties
    <2> QED BY <1>1, <2>1, DemoValues DEF Stands
  <1>2. CASE ~es[n].shared
    <2>1. es[n].props \in [DOMAIN es[n].props -> Int] /\ Properties(es[n], d) = es[n].props
      BY <1>2 DEF WellFormed, Properties
    <2> QED BY <1>2, <2>1 DEF Stands, ValueIn
  <1> QED BY <1>1, <1>2

\* Of the entities with an id there is a first.
LEMMA FirstIsNamed ==
  ASSUME NEW es, WellFormed(es), NEW n \in 1..Len(es)
  PROVE  FirstNamed(es, n) \in 1..Len(es) /\ es[FirstNamed(es, n)].id = es[n].id
  <1> DEFINE T == {m \in 1..Len(es) : es[m].id = es[n].id}
  <1>1. T \subseteq Nat /\ T # {}
    BY DEF WellFormed
  <1>2. PICK m \in T : \A k \in T : m <= k
    BY <1>1, Least
  <1>3. m \in DOMAIN es /\ es[m].id = es[n].id /\ \A k \in DOMAIN es : es[k].id = es[n].id => m <= k
    BY <1>2 DEF WellFormed
  <1>4. FirstNamed(es, n) \in DOMAIN es /\ es[FirstNamed(es, n)].id = es[n].id
    BY <1>3 DEF FirstNamed
  <1> QED BY <1>4 DEF WellFormed

LEMMA CorrelateSound ==
  ASSUME NEW d, DemoLike(d), NEW es, WellFormed(es),
         NEW props, props = [n \in DOMAIN es |-> Properties(es[n], d)],
         NEW r \in Correlate(es, props)
  PROVE  ResultOK(es, r)
  <1>1. DOMAIN es = 1..Len(es)
    BY DEF WellFormed
  <1>2. PICK pair \in AutoPairs(es, props) :
          r = [pair |-> pair,
               x |-> ValueIn(props[FirstNamed(es, pair[1])], pair[3]),
               y |-> ValueIn(props[FirstNamed(es, pair[2])], pair[3]),
               strength |-> Strength(ValueIn(props[FirstNamed(es, pair[1])], pair[3]),
                                     ValueIn(props[FirstNamed(es, pair[2])], pair[3]))]
    BY DEF Correlate
  <1>3. pair[1] \in 1..Len(es) /\ pair[2] \in 1..Len(es) /\ es[pair[1]].id # es[pair[2]].id
    BY <1>1 DEF AutoPairs
  <1> DEFINE m == FirstNamed(es, pair[1])
             n == FirstNamed(es, pair[2])
             name == pair[3]
  <1>4. m \in 1..Len(es) /\ n \in 1..Len(es) /\ es[m].id # es[n].id
    BY <1>3, FirstIsNamed
  <1>5. /\ r.pair = pair /\ r.x = ValueIn(props[m], name) /\ r.y = ValueIn(props[n], name)
        /\ r.strength = Strength(r.x, r.y)
    BY <1>2
  <1>6. m = FirstNamed(es, r.pair[1]) /\ n = FirstNamed(es, r.pair[2]) /\ name = r.pair[3]
    BY <1>5
  <1> HIDE DEF m, n, name
  <1>7. props[m] = Properties(es[m], d) /\ props[n] = Properties(es[n], d)
    BY <1>1, <1>4
  <1>8. /\ r.x \in Int /\ Stands(es[m], name, r.x)
        /\ r.y \in Int /\ Stands(es[n], name, r.y)
    BY <1>4, <1>5, <1>7, ValuesStand
  <1> QED BY <1>4, <1>5, <1>6, <1>8 DEF ResultOK

\* References to demo entities.
LEMMA DemoEntitiesFormed ==
  ASSUME NEW ids \in Seq(Places)
  PROVE  WellFormed(DemoEntities(ids)) /\ Len(DemoEntities(ids)) = Len(ids)
  <1> DEFINE es == DemoEntities(ids)
             E == {[id |-> ids[n], shared |-> TRUE, located |-> TRUE, props |-> <<>>] : n \in 1..Len(ids)}
  <1>1. Len(ids) \in Nat
    OBVIOUS
  <1>2. es = [n \in 1..Len(ids) |-> [id |-> ids[n], shared |-> TRUE, located |-> TRUE, props |-> <<>>]]
    BY DEF DemoEntities
  <1>3. es \in [1..Len(ids) -> E]
    BY <1>2
  <1> HIDE DEF E
  <1>4. es \in Seq(E) /\ Len(es) = Len(ids)
    BY <1>1, <1>3
  <1>5. \A n \in 1..Len(ids) : /\ es[n] = [id |-> ids[n], shared |-> TRUE, located |-> TRUE, props |-> <<>>]
                               /\ ids[n] \in Places
    BY <1>2
  <1> HIDE DEF es
  <1>6. ASSUME NEW n \in 1..Len(ids)
        PROVE  /\ es[n].shared /\ es[n].id \in Places
               /\ es[n] \in [id : {es[n].id}, shared : BOOLEAN, located : BOOLEAN, props : {es[n].props}]
    <2> DEFINE e == [id |-> ids[n], shared |-> TRUE, located |-> TRUE, props |-> <<>>]
    <2>1. e.shared /\ e.id = ids[n] /\ e \in [id : {e.id}, shared : BOOLEAN, located : BOOLEAN, props : {e.props}]
      OBVIOUS
    <2>2. es[n] = e /\ ids[n] \in Places
      BY <1>5
    <2> HIDE DEF e
    <2> QED BY <2>1, <2>2
  <1>8. DOMAIN es = 1..Len(ids)
    BY <1>3
  <1>9. WellFormed(es)
    BY <1>1, <1>4, <1>6, <1>8 DEF WellFormed
  <1> QED BY <1>4, <1>9 DEF es

\* What is fetched, the repeated and the unknown ids included.
LEMMA FetchedFormed ==
  ASSUME NEW ids \in Asked, NEW sent \in Inline \union {<<>>}
  PROVE  /\ WellFormed(Fetched(ids, sent)) /\ Len(ids) \in Nat
         /\ sent = <<>> => Len(Fetched(ids, sent)) <= Len(ids)
         /\ sent # <<>> => Len(Fetched(ids, sent)) > 0 /\ \A n \in 1..Len(Fetched(ids, sent)) : ~Fetched(ids, sent)[n].shared
  <1>1. ids \in Seq(Range(ids)) /\ Len(ids) \in Nat
    BY MapEngineAssumption
  <1>2. CASE sent = <<>>
    <2>1. /\ Keep(ids, Places) \in Seq(Range(ids) \cap Places)
          /\ Len(Keep(ids, Places)) <= Len(ids)
      BY <1>1, KeepMembers
    <2>2. Keep(ids, Places) \in Seq(Places)
      BY <2>1, SeqMonotonic
    <2> QED BY <1>1, <1>2, <2>1, <2>2, DemoEntitiesFormed DEF Fetched
  <1>3. CASE sent # <<>>
    <2>1. /\ sent \in Seq(Range(sent)) /\ Fetched(ids, sent) = sent
          /\ \A e \in Range(sent) :
               e \in [id : {e.id}, shared : {FALSE}, located : BOOLEAN, props : [DOMAIN e.props -> Int]]
      BY <1>3, MapEngineAssumption DEF Fetched
    <2>2. Len(sent) \in Nat /\ DOMAIN sent = 1..Len(sent) /\ Len(sent) > 0
      BY <1>3, <2>1, EmptySeq
    <2>3. \A n \in 1..Len(sent) : sent[n] \in Range(sent)
      BY <2>2 DEF Range
    <2>4. \A n \in 1..Len(sent) :
            /\ sent[n] \in [id : {sent[n].id}, shared : BOOLEAN, located : BOOLEAN, props : {sent[n].props}]
            /\ ~sent[n].shared /\ sent[n].props \in [DOMAIN sent[n].props -> Int]
      BY <2>1, <2>3
    <2> QED BY <1>1, <1>3, <2>1, <2>2, <2>4 DEF WellFormed
  <1> QED BY <1>2, <1>3

LEMMA EnrichedFormed ==
  ASSUME NEW es, WellFormed(es), NEW counts \in [DOMAIN es -> PoiCounts]
  PROVE  /\ WellFormed(Enriched(es, counts)) /\ Len(Enriched(es, counts)) = Len(es)
         /\ \A n \in 1..Len(es) : Enriched(es, counts)[n].shared = es[n].shared
  <1> DEFINE own(n) == es[n].shared \/ ~es[n].located
             with(n) == [es[n] EXCEPT !.props = Counted(es[n].props, counts[n])]
             have == Enriched(es, counts)
             E == {have[n] : n \in 1..Len(es)}
  <1>1. /\ Len(es) \in Nat /\ DOMAIN es = 1..Len(es) /\ PoiCounts \subseteq Int
        /\ have = [n \in 1..Len(es) |-> IF own(n) THEN es[n] ELSE with(n)]
    BY MapEngineAssumption DEF WellFormed, Enriched
  <1>2. \A n \in 1..Len(es) : counts[n] \in Int
    BY <1>1
  <1>3. have \in Seq(E) /\ Len(have) = Len(es)
    <2>1. have \in [1..Len(es) -> E]
      BY <1>1
    <2> HIDE DEF E, have
    <2> QED BY <1>1, <2>1
  <1>4. ASSUME NEW n \in 1..Len(es)
        PROVE  /\ have[n] \in [id : {have[n].id}, shared : BOOLEAN, located : BOOLEAN, props : {have[n].props}]
               /\ have[n].shared = es[n].shared /\ have[n].id = es[n].id
               /\ ~have[n].shared => have[n].props \in [DOMAIN have[n].props -> Int]
    <2>1. /\ es[n] \in [id : {es[n].id}, shared : BOOLEAN, located : BOOLEAN, props : {es[n].props}]
          /\ ~es[n].shared => es[n].props \in [DOMAIN es[n].props -> Int]
      BY DEF WellFormed
    <2>2. CASE own(n)
      <3>1. have[n] = es[n]
        BY <1>1, <2>2
      <3> HIDE DEF have
      <3> QED BY <2>1, <3>1
    <2>3. CASE ~own(n)
      <3>1. have[n] = with(n)
        BY <1>1, <2>3
      <3>2. /\ with(n).id = es[n].id /\ with(n).shared = es[n].shared /\ with(n).located = es[n].located
            /\ with(n).props = Counted(es[n].props, counts[n])
            /\ with(n) \in [id : {es[n].id}, shared : BOOLEAN, located : BOOLEAN, props : {Counted(es[n].props, counts[n])}]
        BY <2>1
      <3>3. Counted(es[n].props, counts[n]) \in [DOMAIN Counted(es[n].props, counts[n]) -> Int]
        BY <1>2, <2>1, <2>3 DEF Counted
      <3> HIDE DEF have, with
      <3> QED BY <3>1, <3>2, <3>3
    <2> QED BY <2>2, <2>3
  <1>5. DOMAIN have = 1..Len(es)
    BY <1>1
  <1>6. \A n \in 1..Len(es) : have[n].shared => have[n].id \in Places
    BY <1>4 DEF WellFormed
  <1> HIDE DEF have
  <1>7. WellFormed(have)
    BY <1>1, <1>3, <1>4, <1>5, <1>6 DEF WellFormed
  <1> QED BY <1>3, <1>4, <1>7 DEF have

\* Counting again replaces the count.
LEMMA EnrichedDemoLike ==
  ASSUME DemoLike(demo), NEW es, WellFormed(es), NEW counts \in [DOMAIN es -> PoiCounts]
  PROVE  DemoLike(EnrichedDemo(es, counts))
  <1> SUFFICES ASSUME NEW p \in Places
               PROVE  \/ EnrichedDemo(es, counts)[p] = Own[p]
                      \/ \E c \in PoiCounts : EnrichedDemo(es, counts)[p] = Counted(Own[p], c)
    BY DEF DemoLike, EnrichedDemo
  <1> DEFINE at == {n \in DOMAIN es : es[n].shared /\ es[n].id = p}
             last == CHOOSE n \in at : \A m \in at : m <= n
  <1>1. EnrichedDemo(es, counts)[p] = IF at = {} THEN demo[p] ELSE Counted(demo[p], counts[last])
    BY DEF EnrichedDemo
  <1>2. CASE at = {}
    BY <1>1, <1>2 DEF DemoLike
  <1>3. CASE at # {}
    <2>1. at \subseteq 1..Len(es) /\ Len(es) \in Nat
      BY DEF WellFormed
    <2>2. IsFiniteSet(at)
      BY <2>1, FS_Interval, FS_Subset
    <2> DEFINE itself == [n \in at |-> n]
    <2>3. \A n \in at : itself[n] \in Int
      BY <2>1
    <2>4. \E n \in at : \A m \in at : itself[m] <= itself[n]
      <3> HIDE DEF at, itself
      <3> QED BY <1>3, <2>2, <2>3, Highest
    <2>5. \E n \in at : \A m \in at : m <= n
      BY <2>4
    <2>6. last \in at
      <3> HIDE DEF at
      <3> QED BY <2>5
    <2>7. counts[last] \in PoiCounts
      BY <2>6
    <2>8. Counted(demo[p], counts[last]) = Counted(Own[p], counts[last])
      <3> HIDE DEF last
      <3>1. \A c : Counted(Counted(Own[p], c), counts[last]) = Counted(Own[p], counts[last])
        BY DEF Counted
      <3> QED BY <3>1 DEF DemoLike
    <2> HIDE DEF last, at
    <2> QED BY <1>1, <1>3, <2>7, <2>8
  <1> QED BY <1>2, <1>3

\* An analysis leaves the entities with the counts of their last lookup, and its
\* answer with values that stand.
LEMMA AnalyseKeeps ==
  ASSUME AnalysesInv, NEW a \in Runs, Analyse(a)
  PROVE  AnalysesInv'
  <1>1. PICK ids \in Asked, sent \in Inline \union {<<>>}, background \in BOOLEAN :
          LET es == Fetched(ids, sent)
          IN  /\ ~Refusable(ids, background)
              /\ \E outcome \in {"enriched", "not enriched"}, counts \in [DOMAIN es -> PoiCounts] :
                  LET now == IF outcome = "enriched" THEN EnrichedDemo(es, counts) ELSE demo
                      have == IF outcome = "enriched" THEN Enriched(es, counts) ELSE es
                      props == [n \in DOMAIN have |-> Properties(have[n], now)]
                  IN  /\ demo' = now
                      /\ \/ \E words \in Words(es) :
                              run' = [run EXCEPT ![a] =
                                  [pc |-> "done", ids |-> ids, entities |-> have, words |-> words,
                                   results |-> IF Len(es) < 2 THEN {} ELSE Correlate(have, props),
                                   unknown |-> IF sent # <<>> THEN 0 ELSE Len(ids) - Len(es)]]
                         \/ Len(es) >= 2 /\ run' = [run EXCEPT ![a] = [pc |-> "raised"]]
    BY DEF Analyse
  <1> DEFINE es == Fetched(ids, sent)
  <1>2. /\ WellFormed(es) /\ Len(ids) \in Nat
        /\ sent = <<>> => Len(es) <= Len(ids)
        /\ sent # <<>> => Len(es) > 0 /\ \A n \in 1..Len(es) : ~es[n].shared
    BY FetchedFormed
  <1>3. Len(ids) >= 2
    <2>1. ~Refusable(ids, background)
      BY <1>1
    <2>2. ~(Len(ids) < 2)
      BY <2>1 DEF Refusable
    <2> QED BY <1>2, <2>2
  <1>e. /\ Len(es) \in Nat /\ DOMAIN es = 1..Len(es)
    BY <1>2 DEF WellFormed
  <1>f. Len(es) < 2 => Len(ids) - Len(es) > 0
    BY <1>2, <1>3, <1>e
  <1>g. sent # <<>> => 1 \in 1..Len(es)
    <2>1. \A k \in Nat : k > 0 => 1 \in 1..k
      OBVIOUS
    <2> QED BY <1>2, <1>e, <2>1
  <1> HIDE DEF es
  <1>4. PICK outcome \in {"enriched", "not enriched"}, counts \in [DOMAIN es -> PoiCounts] :
          LET now == IF outcome = "enriched" THEN EnrichedDemo(es, counts) ELSE demo
              have == IF outcome = "enriched" THEN Enriched(es, counts) ELSE es
              props == [n \in DOMAIN have |-> Properties(have[n], now)]
          IN  /\ demo' = now
              /\ \/ \E words \in Words(es) :
                      run' = [run EXCEPT ![a] =
                          [pc |-> "done", ids |-> ids, entities |-> have, words |-> words,
                           results |-> IF Len(es) < 2 THEN {} ELSE Correlate(have, props),
                           unknown |-> IF sent # <<>> THEN 0 ELSE Len(ids) - Len(es)]]
                 \/ Len(es) >= 2 /\ run' = [run EXCEPT ![a] = [pc |-> "raised"]]
    BY <1>1 DEF es
  <1> DEFINE now == IF outcome = "enriched" THEN EnrichedDemo(es, counts) ELSE demo
             have == IF outcome = "enriched" THEN Enriched(es, counts) ELSE es
             props == [n \in DOMAIN have |-> Properties(have[n], now)]
  <1>5. DemoLike(now)
    BY <1>2, EnrichedDemoLike DEF AnalysesInv
  <1>6. /\ WellFormed(have) /\ Len(have) = Len(es)
        /\ \A n \in 1..Len(es) : have[n].shared = es[n].shared
    BY <1>2, EnrichedFormed
  <1>7. demo' = now
    BY <1>4
  <1>8. \/ \E words \in Words(es) :
              run' = [run EXCEPT ![a] =
                  [pc |-> "done", ids |-> ids, entities |-> have, words |-> words,
                   results |-> IF Len(es) < 2 THEN {} ELSE Correlate(have, props),
                   unknown |-> IF sent # <<>> THEN 0 ELSE Len(ids) - Len(es)]]
        \/ run' = [run EXCEPT ![a] = [pc |-> "raised"]]
    BY <1>4
  <1>9. \A r \in Correlate(have, props) : ResultOK(have, r)
    <2> HIDE DEF now, have
    <2> QED BY <1>5, <1>6, CorrelateSound
  <1> HIDE DEF now, have, props
  <1>10. /\ DOMAIN run = Runs /\ \A b \in Runs : AnswerOK(run[b])
    BY DEF AnalysesInv
  <1>11. CASE run' = [run EXCEPT ![a] = [pc |-> "raised"]]
    <2>1. AnswerOK([pc |-> "raised"])
      BY DEF AnswerOK
    <2>2. DOMAIN run' = Runs /\ \A b \in Runs : AnswerOK(run'[b])
      BY <1>10, <1>11, <2>1
    <2> QED BY <1>5, <1>7, <2>2 DEF AnalysesInv
  <1>12. ASSUME NEW words \in Words(es),
                run' = [run EXCEPT ![a] =
                    [pc |-> "done", ids |-> ids, entities |-> have, words |-> words,
                     results |-> IF Len(es) < 2 THEN {} ELSE Correlate(have, props),
                     unknown |-> IF sent # <<>> THEN 0 ELSE Len(ids) - Len(es)]]
         PROVE  AnalysesInv'
    <2> DEFINE answer == [pc |-> "done", ids |-> ids, entities |-> have, words |-> words,
                          results |-> IF Len(es) < 2 THEN {} ELSE Correlate(have, props),
                          unknown |-> IF sent # <<>> THEN 0 ELSE Len(ids) - Len(es)]
    <2>1. /\ answer.entities = have /\ answer.words = words
          /\ answer.results = IF Len(es) < 2 THEN {} ELSE Correlate(have, props)
          /\ answer.unknown = IF sent # <<>> THEN 0 ELSE Len(ids) - Len(es)
      OBVIOUS
    <2>2. run' = [run EXCEPT ![a] = answer]
      BY <1>12
    <2> HIDE DEF answer
    <2>3. \A r \in answer.results : ResultOK(answer.entities, r)
      BY <1>9, <2>1
    <2>4. words = "errors" <=> Len(es) < 2
      BY DEF Words
    <2>5. ASSUME words = "errors"
          PROVE  answer.results = {} /\ (answer.unknown > 0 \/ \E e \in Range(answer.entities) : ~e.shared)
      <3>1. Len(es) < 2 /\ answer.results = {}
        BY <2>1, <2>4, <2>5
      <3>2. CASE sent = <<>>
        <4>1. answer.unknown = Len(ids) - Len(es)
          BY <2>1, <3>2
        <4>2. answer.unknown > 0
          BY <1>f, <3>1, <4>1
        <4> QED BY <3>1, <4>2
      <3>3. CASE sent # <<>>
        <4>1. 1 \in 1..Len(es)
          BY <1>g, <3>3
        <4>2. ~have[1].shared /\ 1 \in DOMAIN have
          BY <1>2, <1>6, <3>3, <4>1 DEF WellFormed
        <4>3. \E e \in Range(answer.entities) : ~e.shared
          BY <2>1, <4>2 DEF Range
        <4> QED BY <3>1, <4>3
      <3> QED BY <3>2, <3>3
    <2>6. Len(answer.entities) = Len(es) /\ answer.words = words
      BY <1>6, <2>1
    <2>7. AnswerOK(answer)
      BY <2>3, <2>4, <2>5, <2>6 DEF AnswerOK
    <2>8. DOMAIN run' = Runs /\ \A b \in Runs : AnswerOK(run'[b])
      BY <1>10, <2>2, <2>7
    <2> QED BY <1>5, <1>7, <2>8 DEF AnalysesInv
  <1> QED BY <1>8, <1>11, <1>12

\* The tool computes from the demo entities as they are.
LEMMA ToolKeeps ==
  ASSUME AnalysesInv, NEW a \in Runs, CorrelateTool(a)
  PROVE  AnalysesInv'
  <1>0. PICK ids \in Asked :
          \E order \in SetToSeqs(Places \intersect Range(ids)) :
            LET es == DemoEntities(order)
                props == [n \in DOMAIN es |-> Properties(es[n], demo)]
            IN  run' = [run EXCEPT ![a] =
                    IF Len(es) < 2 THEN [pc |-> "refused"]
                    ELSE [pc |-> "done", ids |-> ids, entities |-> es, words |-> "rules",
                          results |-> Correlate(es, props), unknown |-> 0]]
    BY DEF CorrelateTool
  <1>1. PICK order \in SetToSeqs(Places \intersect Range(ids)) :
          LET es == DemoEntities(order)
              props == [n \in DOMAIN es |-> Properties(es[n], demo)]
          IN  run' = [run EXCEPT ![a] =
                  IF Len(es) < 2 THEN [pc |-> "refused"]
                  ELSE [pc |-> "done", ids |-> ids, entities |-> es, words |-> "rules",
                        results |-> Correlate(es, props), unknown |-> 0]]
    BY <1>0
  <1>2. demo' = demo /\ DemoLike(demo) /\ DOMAIN run = Runs /\ \A b \in Runs : AnswerOK(run[b])
    BY DEF CorrelateTool, AnalysesInv
  <1>3. order \in Seq(Places)
    <2> DEFINE S == Places \intersect Range(ids)
    <2>1. ids \in Seq(Range(ids))
      BY MapEngineAssumption
    <2>2. IsFiniteSet(Members(ids)) /\ S \subseteq Members(ids)
      BY <2>1, MembersFinite DEF Members, Range
    <2>3. Cardinality(S) \in Nat
      <3> HIDE DEF S
      <3> QED BY <2>2, FS_Subset, FS_CardinalityType
    <2>4. order \in [1..Cardinality(S) -> S]
      BY DEF SetToSeqs
    <2>5. order \in [1..Cardinality(S) -> Places]
      BY <2>4
    <2> HIDE DEF S
    <2> QED BY <2>3, <2>5
  <1> DEFINE es == DemoEntities(order)
             props == [n \in DOMAIN es |-> Properties(es[n], demo)]
             answer == IF Len(es) < 2 THEN [pc |-> "refused"]
                       ELSE [pc |-> "done", ids |-> ids, entities |-> es, words |-> "rules",
                             results |-> Correlate(es, props), unknown |-> 0]
  <1>4. WellFormed(es)
    BY <1>3, DemoEntitiesFormed
  <1>5. run' = [run EXCEPT ![a] = answer]
    BY <1>1
  <1>6. AnswerOK(answer)
    <2>1. \A r \in Correlate(es, props) : ResultOK(es, r)
      <3> HIDE DEF es
      <3> QED BY <1>2, <1>4, CorrelateSound
    <2> HIDE DEF es, props
    <2>2. CASE Len(es) < 2
      BY <2>2 DEF AnswerOK
    <2>3. CASE ~(Len(es) < 2)
      <3>1. answer.words = "rules" /\ answer.entities = es /\ answer.results = Correlate(es, props)
        BY <2>3
      <3> HIDE DEF answer
      <3> QED BY <2>1, <2>3, <3>1 DEF AnswerOK
    <2> QED BY <2>2, <2>3
  <1> HIDE DEF answer
  <1>7. DOMAIN run' = Runs /\ \A b \in Runs : AnswerOK(run'[b])
    BY <1>2, <1>5, <1>6
  <1> QED BY <1>2, <1>7 DEF AnalysesInv

LEMMA AnalysesStep == AnalysesInv /\ [AnalysesNext \/ ContextsNext]_engineVars => AnalysesInv'
  <1> SUFFICES ASSUME AnalysesInv, [AnalysesNext \/ ContextsNext]_engineVars PROVE AnalysesInv'
    OBVIOUS
  <1>1. ASSUME NEW a \in Runs, RefuseAnalysis(a) PROVE AnalysesInv'
    <2>1. run' = [run EXCEPT ![a] = [pc |-> "refused"]] /\ demo' = demo
      BY <1>1 DEF RefuseAnalysis
    <2>2. AnswerOK([pc |-> "refused"])
      BY DEF AnswerOK
    <2>3. DOMAIN run' = Runs /\ \A b \in Runs : AnswerOK(run'[b])
      BY <2>1, <2>2 DEF AnalysesInv
    <2> QED BY <2>1, <2>3 DEF AnalysesInv
  <1>2. CASE UNCHANGED analysisVars
    BY <1>2 DEF analysisVars, AnalysesInv
  <1> QED BY <1>1, <1>2, AnalyseKeeps, ToolKeeps DEF AnalysesNext, ContextsNext, engineVars, analysisVars

\* The invariants are enough.
LEMMA EngineInvEnough == AnalysesInv /\ ContextsInv => AnalysesSound
  <1> SUFFICES ASSUME AnalysesInv, ContextsInv PROVE AnalysesSound
    OBVIOUS
  <1>1. \A p \in Places : Restrict(demo[p], DOMAIN Own[p]) = Own[p]
    <2> SUFFICES ASSUME NEW p \in Places PROVE Restrict(demo[p], DOMAIN Own[p]) = Own[p]
      OBVIOUS
    <2>1. Own[p] \in [DOMAIN Own[p] -> Int] /\ "poi" \notin DOMAIN Own[p]
      BY MapEngineAssumption
    <2>2. demo[p] = Own[p] \/ \E c \in PoiCounts : demo[p] = Counted(Own[p], c)
      BY DEF AnalysesInv, DemoLike
    <2>3. \A name \in DOMAIN Own[p] : demo[p][name] = Own[p][name]
      BY <2>1, <2>2 DEF Counted
    <2> QED BY <2>1, <2>3 DEF Restrict
  <1>2. ASSUME NEW a \in Runs, run[a].pc = "done", NEW r \in run[a].results
        PROVE  ResultOK(run[a].entities, r)
    BY <1>2 DEF AnalysesInv, AnswerOK
  <1>3. ASSUME NEW e, NEW name, NEW v, Stands(e, name, v)
        PROVE  (e.shared /\ name = "poi") \/ v = ValueIn(Properties(e, demo), name)
    <2>1. CASE e.shared
      <3>1. e.id \in Places /\ Properties(e, demo) = demo[e.id] /\ (name = "poi" \/ v = ValueIn(Own[e.id], name))
        BY <1>3, <2>1 DEF Stands, Properties
      <3> QED BY <2>1, <3>1, DemoValues DEF AnalysesInv
    <2>2. CASE ~e.shared
      BY <1>3, <2>2 DEF Stands, Properties
    <2> QED BY <2>1, <2>2
  <1>4. ResultsStand
    BY <1>1, <1>2, <1>3 DEF ResultsStand, ResultOK
  <1>5. StrengthSound
    <2> SUFFICES ASSUME NEW a \in Runs, run[a].pc = "done", NEW r \in run[a].results
                 PROVE  /\ \A unit \in 1..3 : r.strength = Strength(unit * r.y, unit * r.x)
                        /\ LET small == Smaller(Magnitude(r.x), Magnitude(r.y))
                               large == Larger(Magnitude(r.x), Magnitude(r.y))
                           IN  /\ r.strength = "very_strong" <=> 10 * small >= 9 * large \/ 10 * small <= large
                               /\ Direction(r.x, r.y) = "negative" => 2 * small < large
      BY DEF StrengthSound
    <2>1. r.x \in Int /\ r.y \in Int /\ r.strength = Strength(r.x, r.y)
      BY <1>2 DEF ResultOK
    <2>2. \A unit \in 1..3 : Strength(r.x, r.y) = Strength(unit * r.y, unit * r.x)
      BY <2>1, StrengthOfUnits
    <2> DEFINE small == Smaller(Magnitude(r.x), Magnitude(r.y))
               large == Larger(Magnitude(r.x), Magnitude(r.y))
    <2>3. /\ Strength(r.x, r.y) = "very_strong" <=> 10 * small >= 9 * large \/ 10 * small <= large
          /\ Direction(r.x, r.y) = "negative" => 2 * small < large
      BY <2>1, StrengthExtremes
    <2> QED BY <2>1, <2>2, <2>3
  <1>6. ExplainsItself
    BY DEF AnalysesInv, AnswerOK, ExplainsItself
  <1> QED BY <1>4, <1>5, <1>6 DEF AnalysesSound, ContextsInv

\* Answers stand whatever later analyses change, their strength is what it says,
\* and contexts last, for any entities, lists of ids, analyses and sessions.
THEOREM AnalysesAreSound == EngineSpec => []AnalysesSound
  <1>1. EngineInit => AnalysesInv /\ ContextsInv
    <2> SUFFICES ASSUME EngineInit PROVE AnalysesInv /\ ContextsInv
      OBVIOUS
    <2>1. AnalysesInv
      <3>1. DOMAIN demo = Places /\ demo = Own
        BY MapEngineAssumption DEF EngineInit
      <3> QED BY <3>1 DEF EngineInit, AnalysesInv, DemoLike, AnswerOK
    <2>2. ContextsInv
      BY DEF EngineInit, ContextsInv, ContextsLast
    <2> QED BY <2>1, <2>2
  <1> QED BY <1>1, AnalysesStep, ContextsStep, EngineInvEnough, PTL DEF EngineSpec

=============================================================================
