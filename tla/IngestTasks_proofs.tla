------------------------- MODULE IngestTasks_proofs -------------------------
(***************************************************************************)
(* Proofs about IngestTasks: type correctness, the inductive invariant     *)
(* IInv in three parts (control, queue, stores), the safety properties     *)
(* that follow from it, and that IngestTasks implements IngestContract.    *)
(***************************************************************************)
EXTENDS IngestTasks, SequenceTheorems, TLAPS

\* Control.  Where a request is decides the status of its row, whether its
\* session may have a transaction open, and that it is the one in the hand of
\* its process's worker; a worker only takes tasks of its own process, and an
\* asynchronous upload always takes the route of ingest_file.
Rows ==
    /\ \A r \in AsyncUpload :
         /\ route[r] = "file"
         /\ pc[r] \in {"new", "store", "insert"} => status[r] = "none"
         /\ pc[r] \in {"enqueue", "queued", "claim"} => status[r] = "pending"
         /\ pc[r] \in PipelineStage \cup {"fetch", "finish"} =>
                status[r] = "processing"
         /\ pc[r] = "raise" => status[r] \in {"processing", "completed"}
         /\ status[r] = "pending" =>
                pc[r] \in {"enqueue", "queued", "claim", "lost", "escaped", "rejected"}
         /\ txn[r] => pc[r] \in PipelineStage \cup {"finish", "raise"}
    /\ \A r \in SyncUpload : pc[r] \notin HandlerStage \cup WorkerStage \cup {"queued"}

Hands ==
    /\ \A r \in AsyncUpload :
         pc[r] \in PipelineStage \cup WorkerStage <=> working[host[r]] = r
    /\ \A p \in Process : working[p] # NoTask => host[working[p]] = p

Control == Rows /\ Hands

\* The queue of a process holds exactly its tasks at stage "queued", each once.
Holds(p, q, stage) ==
    /\ \A i, j \in 1..Len(q) : i # j => q[i] # q[j]
    /\ \A i \in 1..Len(q) : stage[q[i]] = "queued" /\ host[q[i]] = p
    /\ \A r \in AsyncUpload : host[r] = p /\ stage[r] = "queued" =>
         \E i \in 1..Len(q) : q[i] = r

QueueHolds == \A p \in Process : Holds(p, queue[p], pc)

\* The stores.  What a stage of the pipeline may rely on: the bytes before the
\* rows, the rows before the vectors, and no row with these bytes from
\* another task of the process between the lookup and the commit of a task.
Stores ==
    /\ \A r \in Request :
         /\ pc[r] = "commit" => content[r] \in objects
         /\ route[r] = "excel" /\ pc[r] \in {"parse", "relookup", "embed"} =>
                content[r] \in objects
         /\ pc[r] = "relookup" => route[r] = "excel"
         /\ pc[r] = "upsert" => r \in docs
         /\ route[r] = "file" /\ pc[r] = "embed" => r \in docs
    /\ \A r \in AsyncUpload :
         /\ pc[r] = "insert" => content[r] \in objects
         /\ pc[r] = "finish" /\ ~txn[r] =>
                r \in docs /\ (content[r] \notin Blank => r \in indexed)
         /\ pc[r] \in {"put", "commit"} =>
                \A d \in docs \cap AsyncUpload :
                    host[d] = host[r] => content[d] # content[r]
    /\ RowsHaveBytes /\ VectorsHaveRows
    /\ CompletedIsSearchable /\ NoPhantomInProcess

IInv == TypeOK /\ Control /\ QueueHolds /\ Stores

USE IngestAssumption DEF IngestAssumption

\* A stage of the pipeline is followed by a stage of the pipeline.
LEMMA AfterStage == \A r, s : After(r, s) \in PipelineStage
  BY DEF After, PipelineStage

\* What a step of the pipeline may do to the request that takes it: it goes to
\* another stage of the pipeline or leaves it, and only its own session changes.
Exits(r) == IF r \in AsyncUpload THEN {"finish", "raise"} ELSE {"done", "rejected"}

LEMMA PipelineMoves ==
  ASSUME TypeOK, NEW r \in Request, PipelineStep(r)
  PROVE  /\ pc[r] \in PipelineStage
         /\ \E s \in PipelineStage \cup Exits(r) : Goto(r, s)
         /\ \E open \in BOOLEAN : txn' = [txn EXCEPT ![r] = open]
         /\ UNCHANGED <<request, process, working, queue, task>>
<1> DEFINE Target == PipelineStage \cup Exits(r)
<1>1. ASSUME NEW open \in BOOLEAN, Fails(r, open)
      PROVE  /\ \E s \in Target : Goto(r, s)
             /\ \E b \in BOOLEAN : txn' = [txn EXCEPT ![r] = b]
  <2>1. (open /\ r \in AsyncUpload) \in BOOLEAN
    OBVIOUS
  <2>2. QED
    BY <1>1, <2>1 DEF Fails, Exits
<1>2. ASSUME Returns(r)
      PROVE  /\ \E s \in Target : Goto(r, s)
             /\ \E b \in BOOLEAN : txn' = [txn EXCEPT ![r] = b]
  <2>1. (txn[r] /\ r \in AsyncUpload) \in BOOLEAN
    OBVIOUS
  <2>2. QED
    BY <1>2, <2>1 DEF Returns, Exits
<1>3. ASSUME NEW s \in Target, Goto(r, s), UNCHANGED txn
      PROVE  /\ \E t \in Target : Goto(r, t)
             /\ \E b \in BOOLEAN : txn' = [txn EXCEPT ![r] = b]
  BY <1>3 DEF TypeOK
<1>4. CASE Parse(r)
  BY <1>1, <1>3, <1>4, AfterStage DEF Parse, CallFails, TypeOK, PipelineStage
<1>5. CASE LookUp(r)
  <2>1. (r \in AsyncUpload) \in BOOLEAN /\ TRUE \in BOOLEAN
    OBVIOUS
  <2>2. \E b \in BOOLEAN : txn' = [txn EXCEPT ![r] = b]
    BY <1>1, <1>5, <2>1 DEF LookUp, CallFails
  <2>3. \E s \in Target : Goto(r, s)
    BY <1>1, <1>5, AfterStage DEF LookUp, CallFails, Exits
  <2>4. QED
    BY <1>5, <2>2, <2>3 DEF LookUp, PipelineStage
<1>6. CASE PutBytes(r)
  BY <1>1, <1>3, <1>6, AfterStage DEF PutBytes, CallFails, TypeOK, PipelineStage
<1>7. CASE CommitRows(r)
  BY <1>1, <1>7, AfterStage DEF CommitRows, CallFails, TypeOK, PipelineStage
<1>8. CASE Embed(r)
  BY <1>1, <1>2, <1>3, <1>8, AfterStage DEF Embed, CallFails, TypeOK, PipelineStage
<1>9. CASE Upsert(r)
  BY <1>1, <1>2, <1>9 DEF Upsert, CallFails, TypeOK, PipelineStage
<1>10. QED
  BY <1>4, <1>5, <1>6, <1>7, <1>8, <1>9 DEF PipelineStep

\* A step of the pipeline adds to one store at most, and only for its request.
LEMMA PipelineWrites ==
  ASSUME NEW r \in Request, PipelineStep(r)
  PROVE  /\ objects' = objects \/ objects' = objects \cup {content[r]}
         /\ docs' = docs \/ docs' = docs \cup {r}
         /\ indexed' = indexed \/ indexed' = indexed \cup {r}
<1>1. CASE Parse(r) \/ LookUp(r) \/ Embed(r)
  BY <1>1 DEF Parse, LookUp, Embed, stores
<1>2. CASE PutBytes(r)
  BY <1>2 DEF PutBytes
<1>3. CASE CommitRows(r)
  BY <1>3 DEF CommitRows
<1>4. CASE Upsert(r)
  BY <1>4 DEF Upsert
<1>5. QED
  BY <1>1, <1>2, <1>3, <1>4 DEF PipelineStep

\* The two ways such a step may leave the hand of the worker.
Keeps(r) ==
    /\ UNCHANGED working
    /\ pc[r] \in WorkerStage <=> pc'[r] \in PipelineStage \cup WorkerStage

LetsGo(r) ==
    /\ working[host[r]] = r /\ pc'[r] \in EndStage
    /\ working' = [working EXCEPT ![host[r]] = NoTask]

\* What a step other than those of a process and of the pipeline does to the
\* request that takes it, to the session and to the worker.
LEMMA OtherMoves ==
  ASSUME TypeOK, NEW r \in AsyncUpload, UploadStep(r) \/ WorkerStep(r)
  PROVE  /\ UNCHANGED <<content, route, host>>
         /\ \E s \in Stage : pc' = [pc EXCEPT ![r] = s] /\ pc[r] # s
         /\ pc[r] # "queued" /\ pc[r] \in HandlerStage \cup WorkerStage
         /\ Keeps(r) \/ LetsGo(r)
<1> USE DEF TypeOK, Request, Stage, HandlerStage, PipelineStage, WorkerStage,
            EndStage, request, process, Goto, CallFails, Fails, Escape, InHand,
            PutDown, Keeps, LetsGo
<1>1. CASE StoreUpload(r)
  BY <1>1 DEF StoreUpload
<1>2. CASE InsertTask(r)
  BY <1>2 DEF InsertTask
<1>3. CASE Enqueue(r)
  BY <1>3 DEF Enqueue
<1>4. CASE Claim(r)
  BY <1>4 DEF Claim
<1>5. CASE Fetch(r)
  BY <1>5 DEF Fetch
<1>6. CASE Finish(r)
  BY <1>6 DEF Finish
<1>7. CASE RecordFailure(r)
  BY <1>7 DEF RecordFailure
<1>8. QED
  BY <1>1, <1>2, <1>3, <1>4, <1>5, <1>6, <1>7 DEF UploadStep, WorkerStep

\* The initial states are well typed.
LEMMA InitTyped == Init => TypeOK
<1> SUFFICES ASSUME Init PROVE TypeOK
  OBVIOUS
<1>1. queue \in [Process -> TaskQueue] /\ halts \in 0..MaxHalts
  BY DEF Init, TaskQueue
<1>2. pc \in [Request -> Stage] /\ txn \in [Request -> BOOLEAN]
  BY DEF Init, Stage
<1>3. QED
  BY <1>1, <1>2 DEF Init, TypeOK

\* Every step keeps the variables well typed.
LEMMA StepTyped ==
  ASSUME TypeOK, [Next]_vars
  PROVE  TypeOK'
<1> USE DEF TypeOK, Request, Stage, HandlerStage, PipelineStage, WorkerStage,
            EndStage, request, process, stores, task, Goto, SetStatus
<1>1. ASSUME NEW p \in Process, Boot(p) PROVE TypeOK'
  BY <1>1 DEF Boot
<1>2. ASSUME NEW p \in Process, Halt(p) PROVE TypeOK'
  <2>1. pc' \in [Request -> Stage] /\ txn' \in [Request -> BOOLEAN]
    BY <1>2 DEF Halt
  <2>2. <<>> \in TaskQueue /\ halts' \in 0..MaxHalts
    BY <1>2 DEF Halt, TaskQueue
  <2>3. QED
    BY <1>2, <2>1, <2>2 DEF Halt
<1>3. ASSUME NEW p \in Process, Dequeue(p) PROVE TypeOK'
  <2>1. queue[p] \in TaskQueue /\ queue[p] # <<>>
    BY <1>3 DEF Dequeue
  <2>2. Head(queue[p]) \in AsyncUpload /\ Tail(queue[p]) \in TaskQueue
    BY <2>1 DEF TaskQueue
  <2>3. QED
    BY <1>3, <2>2 DEF Dequeue
<1>4. ASSUME NEW r \in Request, Receive(r) PROVE TypeOK'
  BY <1>4 DEF Receive
<1>5. ASSUME NEW r \in Request, PipelineStep(r) PROVE TypeOK'
  <2>1. pc' \in [Request -> Stage] /\ txn' \in [Request -> BOOLEAN]
    BY <1>5, PipelineMoves DEF Exits
  <2>2. /\ objects' \subseteq File
        /\ docs' \subseteq Request
        /\ indexed' \subseteq Request
    BY <1>5, PipelineWrites
  <2>3. QED
    BY <1>5, <2>1, <2>2, PipelineMoves
<1>6. ASSUME NEW r \in AsyncUpload, UploadStep(r) PROVE TypeOK'
  <2>1. CASE StoreUpload(r)
    BY <2>1 DEF StoreUpload
  <2>2. CASE InsertTask(r)
    BY <2>2 DEF InsertTask, Inserted
  <2>3. CASE Enqueue(r)
    <3>1. queue[host[r]] \in TaskQueue
      OBVIOUS
    <3>2. Append(queue[host[r]], r) \in TaskQueue
      BY <3>1 DEF TaskQueue
    <3>3. QED
      BY <2>3, <3>2 DEF Enqueue
  <2>4. QED
    BY <1>6, <2>1, <2>2, <2>3 DEF UploadStep
<1>7. ASSUME NEW r \in AsyncUpload, WorkerStep(r) PROVE TypeOK'
  <2> USE DEF CallFails, Fails, Escape, WorkerStep, Claim, Fetch, Finish,
              RecordFailure, Completed
  <2>1. /\ pc' \in [Request -> Stage]
        /\ working' \in [Process -> AsyncUpload \cup {NoTask}]
    <3> HIDE DEF Claim, Fetch, Finish, RecordFailure, WorkerStep, Stage
    <3>1. PICK s \in Stage : pc' = [pc EXCEPT ![r] = s]
      BY <1>7, OtherMoves
    <3>2. Keeps(r) \/ LetsGo(r)
      BY <1>7, OtherMoves
    <3>3. QED
      BY <3>1, <3>2 DEF Keeps, LetsGo
  <2>2. txn' \in [Request -> BOOLEAN]
    BY <1>7
  <2>3. /\ status' \in [AsyncUpload ->
                 {"none", "pending", "processing", "completed", "failed"}]
        /\ hasRef' \subseteq AsyncUpload
    BY <1>7
  <2>4. UNCHANGED <<request, process, queue, stores>>
    BY <1>7
  <2>5. QED
    BY <2>1, <2>2, <2>3, <2>4
<1>8. CASE UNCHANGED vars
  BY <1>8 DEF vars
<1>9. QED
  BY <1>1, <1>2, <1>3, <1>4, <1>5, <1>6, <1>7, <1>8 DEF Next

\* Every reachable state is well typed.
THEOREM TypeCorrect == Spec => []TypeOK
  BY InitTyped, StepTyped, PTL DEF Spec

\* The facts about queues that the steps Enqueue, Dequeue need.
LEMMA AppendFacts ==
  ASSUME NEW S, NEW q \in Seq(S), NEW x \in S
  PROVE  /\ Append(q, x) \in Seq(S)
         /\ Len(Append(q, x)) = Len(q) + 1
         /\ \A i \in 1..Len(q) : Append(q, x)[i] = q[i]
         /\ Append(q, x)[Len(q) + 1] = x
  OBVIOUS

\* What Dequeue takes and what it leaves.
LEMMA TailFacts ==
  ASSUME NEW S, NEW q \in Seq(S), q # <<>>
  PROVE  /\ Head(q) \in S /\ Head(q) = q[1]
         /\ Tail(q) \in Seq(S)
         /\ Len(q) \in Nat \ {0} /\ Len(Tail(q)) = Len(q) - 1
         /\ \A i \in 1..Len(Tail(q)) : Tail(q)[i] = q[i + 1]
  OBVIOUS

\* The row and the session of a request fit its stage, whatever step is taken.
LEMMA RowsKept ==
  ASSUME TypeOK, TypeOK', Control, QueueHolds, [Next]_vars
  PROVE  Rows'
<1> USE DEF TypeOK, Rows, Request, HandlerStage, PipelineStage, WorkerStage,
            EndStage, request, process, stores, task, Goto, SetStatus
<1>0. Rows
  BY DEF Control
<1>1. ASSUME NEW p \in Process, Boot(p) PROVE Rows'
  BY <1>0, <1>1 DEF Boot
<1>2. ASSUME NEW p \in Process, Halt(p) PROVE Rows'
  BY <1>0, <1>2 DEF Halt
<1>3. ASSUME NEW p \in Process, Dequeue(p) PROVE Rows'
  <2>1. Head(queue[p]) \in AsyncUpload /\ pc[Head(queue[p])] = "queued"
    BY <1>3, TailFacts DEF Dequeue, TaskQueue, QueueHolds, Holds
  <2>2. QED
    BY <1>0, <1>3, <2>1 DEF Dequeue
<1>4. ASSUME NEW r \in Request, Receive(r) PROVE Rows'
  BY <1>0, <1>4 DEF Receive
<1>5. ASSUME NEW r \in Request, PipelineStep(r) PROVE Rows'
  BY <1>0, <1>5, PipelineMoves DEF Exits
<1>6. ASSUME NEW r \in AsyncUpload, UploadStep(r) PROVE Rows'
  <2>1. CASE StoreUpload(r)
    BY <1>0, <2>1 DEF StoreUpload
  <2>2. CASE InsertTask(r)
    BY <1>0, <2>2 DEF InsertTask, Inserted
  <2>3. CASE Enqueue(r)
    BY <1>0, <2>3 DEF Enqueue
  <2>4. QED
    BY <1>6, <2>1, <2>2, <2>3 DEF UploadStep
<1>7. ASSUME NEW r \in AsyncUpload, WorkerStep(r) PROVE Rows'
  <2> USE DEF CallFails, Fails, Escape
  <2>1. CASE Claim(r)
    BY <1>0, <2>1 DEF Claim
  <2>2. CASE Fetch(r)
    BY <1>0, <2>2 DEF Fetch
  <2>3. CASE Finish(r)
    BY <1>0, <2>3 DEF Finish, Completed
  <2>4. CASE RecordFailure(r)
    BY <1>0, <2>4 DEF RecordFailure
  <2>5. QED
    BY <1>7, <2>1, <2>2, <2>3, <2>4 DEF WorkerStep
<1>8. CASE UNCHANGED vars
  BY <1>0, <1>8 DEF vars
<1>9. QED
  BY <1>1, <1>2, <1>3, <1>4, <1>5, <1>6, <1>7, <1>8 DEF Next

\* A worker's hand holds the one task of its process that is being processed.
LEMMA HandsKept ==
  ASSUME TypeOK, TypeOK', Control, QueueHolds, [Next]_vars
  PROVE  Hands'
<1> USE DEF TypeOK, Hands, Request, request, process
<1> DEFINE InWork(s) == s \in PipelineStage \cup WorkerStage
<1>0. /\ \A r \in AsyncUpload : InWork(pc[r]) <=> working[host[r]] = r
      /\ \A p \in Process : working[p] # NoTask => host[working[p]] = p
      /\ \A r \in AsyncUpload : r # NoTask
  BY DEF Control
<1>1. ASSUME UNCHANGED <<host, working>>,
             \A r \in AsyncUpload : InWork(pc'[r]) <=> InWork(pc[r])
      PROVE  Hands'
  BY <1>0, <1>1
<1>2. ASSUME NEW p \in Process, Boot(p) PROVE Hands'
  BY <1>1, <1>2 DEF Boot
<1>3. ASSUME NEW p \in Process, Halt(p) PROVE Hands'
  <2>1. /\ working' = [working EXCEPT ![p] = NoTask] /\ UNCHANGED host
        /\ \A r \in AsyncUpload :
             InWork(pc'[r]) <=> host[r] # p /\ InWork(pc[r])
    BY <1>3 DEF Halt, EndStage, PipelineStage, WorkerStage
  <2>2. QED
    BY <1>0, <2>1
<1>4. ASSUME NEW p \in Process, Dequeue(p) PROVE Hands'
  <2> DEFINE h == Head(queue[p])
  <2>1. h \in AsyncUpload /\ pc[h] = "queued" /\ host[h] = p
    BY <1>4, TailFacts DEF Dequeue, TaskQueue, QueueHolds, Holds
  <2>2. /\ working[p] = NoTask /\ working' = [working EXCEPT ![p] = h]
        /\ pc' = [pc EXCEPT ![h] = "claim"] /\ UNCHANGED host
    BY <1>4 DEF Dequeue, Goto
  <2> HIDE DEF h
  <2>3. \A r \in AsyncUpload : InWork(pc'[r]) <=> r = h \/ InWork(pc[r])
    BY <2>1, <2>2 DEF WorkerStage
  <2>4. QED
    BY <1>0, <2>1, <2>2, <2>3
<1>5. ASSUME NEW r \in Request, Receive(r) PROVE Hands'
  <2>1. \A x \in AsyncUpload : InWork(pc'[x]) <=> InWork(pc[x])
    BY <1>5 DEF Receive, Goto, PipelineStage, WorkerStage
  <2>2. QED
    BY <1>1, <1>5, <2>1 DEF Receive
<1>6. ASSUME NEW r \in Request, PipelineStep(r) PROVE Hands'
  <2>1. \A x \in AsyncUpload : InWork(pc'[x]) <=> InWork(pc[x])
    BY <1>6, PipelineMoves DEF Exits, Goto, WorkerStage
  <2>2. UNCHANGED <<host, working>>
    BY <1>6, PipelineMoves
  <2>3. QED
    BY <1>1, <2>1, <2>2
<1>7. ASSUME NEW r \in AsyncUpload, UploadStep(r) \/ WorkerStep(r) PROVE Hands'
  <2>1. PICK s \in Stage : pc' = [pc EXCEPT ![r] = s]
    BY <1>7, OtherMoves
  <2>2. pc[r] \in HandlerStage \cup WorkerStage /\ UNCHANGED host
    BY <1>7, OtherMoves
  <2>3. CASE Keeps(r)
    <3>1. InWork(pc[r]) <=> pc[r] \in WorkerStage
      BY <2>2 DEF HandlerStage, PipelineStage, WorkerStage
    <3>2. \A x \in AsyncUpload : InWork(pc'[x]) <=> InWork(pc[x])
      BY <2>1, <2>3, <3>1 DEF Keeps
    <3>3. QED
      BY <1>1, <2>2, <2>3, <3>2 DEF Keeps
  <2>4. CASE LetsGo(r)
    <3>1. \A x \in AsyncUpload : InWork(pc'[x]) <=> x # r /\ InWork(pc[x])
      BY <2>1, <2>4 DEF LetsGo, EndStage, PipelineStage, WorkerStage
    <3>2. QED
      BY <1>0, <2>2, <2>4, <3>1 DEF LetsGo
  <2>5. QED
    BY <1>7, <2>3, <2>4, OtherMoves
<1>8. CASE UNCHANGED vars
  BY <1>1, <1>8 DEF vars
<1>9. QED
  BY <1>2, <1>3, <1>4, <1>5, <1>6, <1>7, <1>8 DEF Next

\* Taking the head of a queue leaves the queue of the tasks still queued.
LEMMA HoldsTail ==
  ASSUME NEW p \in Process, NEW q \in Seq(AsyncUpload), q # <<>>,
         NEW stage \in [Request -> Stage], NEW after \in [Request -> Stage],
         Holds(p, q, stage), after = [stage EXCEPT ![Head(q)] = "claim"]
  PROVE  Holds(p, Tail(q), after)
<1> DEFINE h == Head(q)  t == Tail(q)
<1>1. /\ h \in AsyncUpload /\ h = q[1] /\ h \in Request
      /\ Len(q) \in Nat \ {0} /\ Len(t) = Len(q) - 1
      /\ \A i \in 1..Len(t) : t[i] = q[i + 1]
  BY TailFacts DEF Request
<1>2. \A i \in 1..Len(q) : q[i] \in AsyncUpload
  OBVIOUS
<1> HIDE DEF t
<1>3. \A i \in 1..Len(t) : i + 1 \in 1..Len(q) /\ t[i] # h
  BY <1>1 DEF Holds
<1>4. ASSUME NEW i \in 1..Len(t), NEW j \in 1..Len(t), i # j
      PROVE  t[i] # t[j]
  <2>1. i + 1 # j + 1 /\ t[i] = q[i + 1] /\ t[j] = q[j + 1]
    BY <1>1, <1>4
  <2>2. QED
    BY <1>3, <2>1 DEF Holds
<1>5. \A i \in 1..Len(t) : after[t[i]] = "queued" /\ host[t[i]] = p
  BY <1>1, <1>2, <1>3 DEF Holds, Request
<1>6. ASSUME NEW r \in AsyncUpload, host[r] = p, after[r] = "queued"
      PROVE  \E i \in 1..Len(t) : t[i] = r
  <2>1. r # h /\ stage[r] = "queued"
    BY <1>1, <1>6 DEF Request
  <2>2. PICK i \in 1..Len(q) : q[i] = r
    BY <1>6, <2>1 DEF Holds
  <2>3. i # 1 /\ i - 1 \in 1..Len(t) /\ t[i - 1] = r
    BY <1>1, <2>1, <2>2
  <2>4. QED
    BY <2>3
<1>7. QED
  BY <1>4, <1>5, <1>6 DEF Holds, t

\* Appending a task of the process that was not queued.
LEMMA HoldsAppend ==
  ASSUME NEW p \in Process, NEW q \in Seq(AsyncUpload), NEW x \in AsyncUpload,
         NEW stage \in [Request -> Stage], NEW after \in [Request -> Stage],
         Holds(p, q, stage), host[x] = p, stage[x] # "queued",
         after = [stage EXCEPT ![x] = "queued"]
  PROVE  Holds(p, Append(q, x), after)
<1> DEFINE t == Append(q, x)
<1>1. /\ Len(q) \in Nat /\ Len(t) = Len(q) + 1 /\ x \in Request
      /\ \A i \in 1..Len(q) : t[i] = q[i]
      /\ t[Len(q) + 1] = x
  BY AppendFacts DEF Request
<1>2. \A i \in 1..Len(q) : q[i] # x
  BY DEF Holds
<1> HIDE DEF t
<1>3. \A i \in 1..Len(t) : i \in 1..Len(q) \/ i = Len(q) + 1
  BY <1>1
<1>4. ASSUME NEW i \in 1..Len(t), NEW j \in 1..Len(t), i # j
      PROVE  t[i] # t[j]
  <2>1. CASE i \in 1..Len(q) /\ j \in 1..Len(q)
    BY <1>1, <1>4, <2>1 DEF Holds
  <2>2. CASE i \in 1..Len(q) /\ j = Len(q) + 1
    BY <1>1, <1>2, <2>2
  <2>3. CASE i = Len(q) + 1 /\ j \in 1..Len(q)
    BY <1>1, <1>2, <2>3
  <2>4. QED
    BY <1>3, <1>4, <2>1, <2>2, <2>3
<1>5. ASSUME NEW i \in 1..Len(t)
      PROVE  after[t[i]] = "queued" /\ host[t[i]] = p
  <2>1. CASE i \in 1..Len(q)
    <3>1. t[i] = q[i] /\ q[i] \in Request /\ q[i] # x
      BY <1>1, <1>2, <2>1 DEF Request
    <3>2. QED
      BY <2>1, <3>1 DEF Holds
  <2>2. CASE i = Len(q) + 1
    BY <1>1, <2>2
  <2>3. QED
    BY <1>3, <2>1, <2>2
<1>6. ASSUME NEW r \in AsyncUpload, host[r] = p, after[r] = "queued"
      PROVE  \E i \in 1..Len(t) : t[i] = r
  <2>1. CASE r = x
    <3>1. Len(q) + 1 \in 1..Len(t)
      BY <1>1
    <3>2. QED
      BY <1>1, <2>1, <3>1
  <2>2. CASE r # x
    <3>1. stage[r] = "queued"
      BY <1>6, <2>2 DEF Request
    <3>2. PICK i \in 1..Len(q) : q[i] = r
      BY <1>6, <3>1 DEF Holds
    <3>3. i \in 1..Len(t) /\ t[i] = r
      BY <1>1, <3>2
    <3>4. QED
      BY <3>3
  <2>3. QED
    BY <2>1, <2>2
<1>7. QED
  BY <1>4, <1>5, <1>6 DEF Holds, t

\* Stages queued and not queued are kept apart by every step but Enqueue, Dequeue
\* and Halt, which are the ones that change a queue, each that of one process.
LEMMA QueueKept ==
  ASSUME TypeOK, TypeOK', Control, QueueHolds, [Next]_vars
  PROVE  QueueHolds'
<1> DEFINE Untouched(p) ==
             /\ queue'[p] = queue[p]
             /\ \A x \in AsyncUpload :
                  host[x] = p => (pc'[x] = "queued" <=> pc[x] = "queued")
<1> USE DEF TypeOK, Request, request, process, stores, task, Goto, SetStatus
<1>0. UNCHANGED host
  <2>1. ASSUME NEW r \in Request, PipelineStep(r) PROVE UNCHANGED host
    BY <2>1, PipelineMoves
  <2>2. QED
    BY <2>1 DEF Next, vars, Boot, Halt, Dequeue, Receive, UploadStep, StoreUpload,
       InsertTask, Enqueue, WorkerStep, Claim, Fetch, Finish, RecordFailure
<1>1. ASSUME NEW p \in Process, Untouched(p) PROVE Holds(p, queue[p], pc)'
  <2> DEFINE q == queue[p]
  <2>1. Holds(p, q, pc) /\ \A i \in 1..Len(q) : q[i] \in AsyncUpload
    BY DEF QueueHolds, TaskQueue
  <2>2. queue'[p] = q /\ UNCHANGED host
    BY <1>0, <1>1
  <2> HIDE DEF q
  <2>3. Holds(p, q, pc') /\ UNCHANGED host
    BY <1>1, <2>1, <2>2 DEF Holds
  <2>4. QED
    BY <2>2, <2>3 DEF Holds
<1>2. SUFFICES ASSUME NEW p \in Process, ~Untouched(p) PROVE Holds(p, queue[p], pc)'
  BY <1>1 DEF QueueHolds
<1> HIDE DEF Untouched
<1>3. CASE UNCHANGED vars
  BY <1>2, <1>3 DEF vars, Untouched
<1>4. ASSUME NEW o \in Process, Boot(o) PROVE Holds(p, queue[p], pc)'
  BY <1>2, <1>4 DEF Boot, Untouched
<1>5. ASSUME NEW o \in Process, Halt(o) PROVE Holds(p, queue[p], pc)'
  <2>1. o # p => Untouched(p)
    BY <1>5 DEF Halt, Untouched
  <2>2. o = p /\ queue'[p] = <<>>
    BY <1>2, <1>5, <2>1 DEF Halt
  <2>3. \A r \in AsyncUpload : host[r] = p => pc'[r] # "queued"
    BY <1>5, <2>2 DEF Halt, EndStage
  <2>4. QED
    BY <1>0, <2>2, <2>3 DEF Holds
<1>6. ASSUME NEW o \in Process, Dequeue(o) PROVE Holds(p, queue[p], pc)'
  <2>1. /\ queue[o] \in Seq(AsyncUpload) /\ queue[o] # <<>>
        /\ pc' = [pc EXCEPT ![Head(queue[o])] = "claim"]
        /\ queue' = [queue EXCEPT ![o] = Tail(queue[o])]
    BY <1>6 DEF Dequeue, TaskQueue
  <2>2. Head(queue[o]) \in AsyncUpload /\ host[Head(queue[o])] = o
    BY <2>1, TailFacts DEF QueueHolds, Holds
  <2>3. o # p => Untouched(p)
    BY <2>1, <2>2 DEF Untouched
  <2>4. o = p
    BY <1>2, <2>3
  <2>5. Holds(o, Tail(queue[o]), pc')
    BY <2>1, HoldsTail DEF QueueHolds
  <2>6. QED
    BY <1>0, <2>1, <2>4, <2>5 DEF Holds
<1>7. ASSUME NEW r \in Request, Receive(r) PROVE Holds(p, queue[p], pc)'
  BY <1>2, <1>7 DEF Receive, Untouched
<1>8. ASSUME NEW r \in Request, PipelineStep(r) PROVE Holds(p, queue[p], pc)'
  <2>1. PICK s \in PipelineStage \cup Exits(r) : Goto(r, s)
    BY <1>8, PipelineMoves
  <2>2. s # "queued" /\ pc[r] # "queued" /\ UNCHANGED queue
    BY <1>8, <2>1, PipelineMoves DEF PipelineStage, Exits
  <2>3. QED
    BY <1>2, <2>1, <2>2 DEF Untouched
<1>9. ASSUME NEW r \in AsyncUpload, StoreUpload(r) \/ InsertTask(r)
      PROVE  Holds(p, queue[p], pc)'
  BY <1>2, <1>9 DEF StoreUpload, InsertTask, Untouched
<1>10. ASSUME NEW r \in AsyncUpload, Enqueue(r) PROVE Holds(p, queue[p], pc)'
  <2>1. /\ pc[r] = "enqueue" /\ pc' = [pc EXCEPT ![r] = "queued"]
        /\ queue' = [queue EXCEPT ![host[r]] = Append(queue[host[r]], r)]
        /\ host[r] \in Process
    BY <1>10 DEF Enqueue
  <2>2. host[r] # p => Untouched(p)
    BY <2>1 DEF Untouched
  <2>3. host[r] = p
    BY <1>2, <2>2
  <2>4. Holds(p, Append(queue[p], r), pc')
    BY <2>1, <2>3, HoldsAppend DEF QueueHolds, TaskQueue
  <2>5. QED
    BY <1>0, <2>1, <2>3, <2>4 DEF Holds
<1>11. ASSUME NEW r \in AsyncUpload, WorkerStep(r) PROVE Holds(p, queue[p], pc)'
  BY <1>2, <1>11 DEF WorkerStep, Claim, Fetch, Finish, RecordFailure, CallFails,
                     Fails, Escape, Untouched
<1>12. QED
  BY <1>3, <1>4, <1>5, <1>6, <1>7, <1>8, <1>9, <1>10, <1>11 DEF Next, UploadStep

\* The stores part of the invariant is preserved by every step: a store only
\* grows, and a request enters a stage by the stage before it.
LEMMA StoresKept ==
  ASSUME TypeOK, TypeOK', Control, Control', QueueHolds, Stores, [Next]_vars
  PROVE  Stores'
<1> USE DEF TypeOK, Control, Rows, Request, HandlerStage, PipelineStage,
            WorkerStage, EndStage, request, process, stores, task, Goto, SetStatus,
            Stores, RowsHaveBytes, VectorsHaveRows, CompletedIsSearchable,
            NoPhantomInProcess
<1>1. ASSUME (\E p \in Process : Boot(p)) \/ UNCHANGED vars PROVE Stores'
  BY <1>1 DEF Boot, vars
<1>2. ASSUME NEW p \in Process, Halt(p) PROVE Stores'
  BY <1>2 DEF Halt
<1>3. ASSUME NEW p \in Process, Dequeue(p) PROVE Stores'
  <2>1. Head(queue[p]) \in AsyncUpload
    BY <1>3, TailFacts DEF Dequeue, TaskQueue
  <2>2. QED
    BY <1>3, <2>1 DEF Dequeue
<1>4. ASSUME NEW r \in Request, Receive(r) PROVE Stores'
  BY <1>4 DEF Receive
<1>5. ASSUME NEW r \in Request, PipelineStep(r) PROVE Stores'
  <2> USE <1>5 DEF CallFails, Fails, Returns, After
  <2>1. CASE Parse(r)
    BY <2>1 DEF Parse
  <2>2. CASE LookUp(r)
    <3>1. CASE \E d \in docs : content[d] = content[r]
      BY <2>2, <3>1 DEF LookUp
    <3>2. CASE CallFails(r, TRUE)
      BY <2>2, <3>2 DEF LookUp
    <3>3. CASE /\ \A d \in docs : content[d] # content[r]
               /\ Goto(r, After(r, pc[r]))
               /\ txn' = [txn EXCEPT ![r] = TRUE]
      <4>1. CASE route[r] = "file" /\ pc[r] = "lookup"
        BY <2>2, <3>3, <4>1 DEF LookUp
      <4>2. CASE route[r] = "excel" /\ pc[r] = "lookup"
        BY <2>2, <3>3, <4>2 DEF LookUp
      <4>3. CASE route[r] = "excel" /\ pc[r] = "relookup"
        BY <2>2, <3>3, <4>3 DEF LookUp
      <4>4. QED
        BY <2>2, <4>1, <4>2, <4>3 DEF LookUp
    <3>4. QED
      BY <2>2, <3>1, <3>2, <3>3 DEF LookUp
  <2>3. CASE PutBytes(r)
    BY <2>3 DEF PutBytes
  <2>4. CASE CommitRows(r)
    <3>1. /\ pc[r] = "commit" /\ docs' \in {docs, docs \cup {r}}
          /\ UNCHANGED <<content, route, host, status, hasRef, objects, indexed>>
      BY <2>4 DEF CommitRows
    <3>2. \A x \in AsyncUpload : pc[x] \in PipelineStage /\ host[x] = host[r]
                                /\ r \in AsyncUpload => x = r
      BY <3>1 DEF Hands
    <3>3. /\ \A x \in Request : x # r => pc'[x] = pc[x] /\ txn'[x] = txn[x]
          /\ pc'[r] \in {"embed", "upsert"} => r \in docs'
          /\ pc'[r] = "embed" => route[r] = "file"
          /\ pc'[r] \in {"embed", "upsert", "raise", "rejected"}
      BY <2>4 DEF CommitRows
    <3>4. RowsHaveBytes' /\ VectorsHaveRows' /\ CompletedIsSearchable'
      BY <3>1, <3>3
    <3>5. NoPhantomInProcess'
      BY <3>1
    <3>6. QED
      BY <3>1, <3>2, <3>3, <3>4, <3>5
  <2>5. CASE Embed(r)
    BY <2>5 DEF Embed
  <2>6. CASE Upsert(r)
    BY <2>6 DEF Upsert
  <2>7. QED
    BY <2>1, <2>2, <2>3, <2>4, <2>5, <2>6 DEF PipelineStep
<1>6. ASSUME NEW r \in AsyncUpload, UploadStep(r) PROVE Stores'
  BY <1>6 DEF UploadStep, StoreUpload, InsertTask, Inserted, Enqueue
<1>7. ASSUME NEW r \in AsyncUpload, WorkerStep(r) PROVE Stores'
  <2> USE DEF CallFails, Fails, Escape, InHand, PutDown
  <2>1. CASE Claim(r)
    BY <2>1 DEF Claim
  <2>2. CASE Fetch(r)
    BY <2>2 DEF Fetch
  <2>3. CASE Finish(r)
    BY <2>3 DEF Finish, Completed
  <2>4. CASE RecordFailure(r)
    BY <2>4 DEF RecordFailure
  <2>5. QED
    BY <1>7, <2>1, <2>2, <2>3, <2>4 DEF WorkerStep
<1>8. QED
  BY <1>1, <1>2, <1>3, <1>4, <1>5, <1>6, <1>7 DEF Next

\* IInv is inductive, so it holds in every reachable state.
THEOREM Invariance == Spec => []IInv
<1>1. Init => IInv
  <2> SUFFICES ASSUME Init PROVE Control /\ QueueHolds /\ Stores
    BY InitTyped DEF IInv
  <2>1. Control
    BY DEF Init, Control, Rows, Hands, Request, HandlerStage, PipelineStage, WorkerStage
  <2>2. QueueHolds
    BY DEF Init, QueueHolds, Holds, Request
  <2>3. Stores
    BY DEF Init, Stores, Request, RowsHaveBytes, VectorsHaveRows,
           CompletedIsSearchable, NoPhantomInProcess
  <2>4. QED
    BY <2>1, <2>2, <2>3
<1>2. IInv /\ [Next]_vars => IInv'
  BY StepTyped, RowsKept, HandsKept, QueueKept, StoresKept DEF IInv, Control
<1>3. QED
  BY <1>1, <1>2, PTL DEF Spec

\* A completed task has its rows and, when it has text, its vectors.
THEOREM CompletedSearchable == Spec => []CompletedIsSearchable
  BY Invariance, PTL DEF IInv, Stores

\* Outbox order: no vector without its rows, whatever fails or crashes.
THEOREM OutboxOrder == Spec => []VectorsHaveRows
  BY Invariance, PTL DEF IInv, Stores

\* The bytes a row refers to are in the object store.
THEOREM BytesBeforeRows == Spec => []RowsHaveBytes
  BY Invariance, PTL DEF IInv, Stores

\* Two tasks of one process never give two raw documents for the same bytes.
THEOREM WorkerDeduplicates == Spec => []NoPhantomInProcess
  BY Invariance, PTL DEF IInv, Stores

\* A task is handed to one worker once and found pending there.
THEOREM HandOver == Spec => []HandedOverOnce
<1>1. IInv => HandedOverOnce
  <2> SUFFICES ASSUME IInv PROVE HandedOverOnce
    OBVIOUS
  <2>1. ASSUME NEW p \in Process, NEW i \in 1..Len(queue[p])
        PROVE  /\ queue[p][i] \in AsyncUpload
               /\ pc[queue[p][i]] = "queued" /\ host[queue[p][i]] = p
    BY DEF IInv, TypeOK, TaskQueue, QueueHolds, Holds
  <2>2. ASSUME NEW p \in Process, NEW i \in 1..Len(queue[p])
        PROVE  status[queue[p][i]] = "pending"
    BY <2>1 DEF IInv, Control, Rows
  <2>3. ASSUME NEW q \in Process, NEW r \in AsyncUpload, pc[r] = "queued"
        PROVE  r # working[q]
    <3>1. ASSUME working[q] = r PROVE working[host[r]] = r
      <4>1. r # NoTask
        BY DEF Request
      <4>2. host[r] = q
        BY <3>1, <4>1 DEF IInv, Control, Hands
      <4>3. QED
        BY <3>1, <4>2
    <3>2. QED
      BY <2>3, <3>1 DEF IInv, Control, Hands, PipelineStage, WorkerStage
  <2>4. ASSUME NEW p \in Process, NEW i \in 1..Len(queue[p]),
               NEW q \in Process, NEW j \in 1..Len(queue[q]),
               queue[p][i] = queue[q][j]
        PROVE  p = q /\ i = j
    <3>1. p = q
      BY <2>1, <2>4
    <3>2. QED
      BY <2>4, <3>1 DEF IInv, QueueHolds, Holds
  <2>5. ASSUME NEW p \in Process, NEW q \in Process, working[p] = working[q]
        PROVE  p = q \/ working[p] = NoTask
    BY <2>5 DEF IInv, Control, Hands
  <2>6. QED
    BY <2>1, <2>2, <2>3, <2>4, <2>5 DEF HandedOverOnce
<1>2. QED
  BY <1>1, Invariance, PTL

\* A pending row is on its way, unless a restart or a failed claim dropped it or
\* its upload was answered with an error.
THEOREM PendingOnItsWay == Spec => []PendingIsOnItsWay
<1>1. IInv => PendingIsOnItsWay
  <2> SUFFICES ASSUME IInv, NEW r \in AsyncUpload, status[r] = "pending"
               PROVE  \/ pc[r] = "enqueue"
                      \/ \E i \in 1..Len(queue[host[r]]) : queue[host[r]][i] = r
                      \/ InHand(r)
                      \/ pc[r] \in {"lost", "escaped", "rejected"}
    BY DEF PendingIsOnItsWay
  <2>1. CASE pc[r] = "queued"
    <3>1. host[r] \in Process
      BY DEF IInv, TypeOK, Request
    <3>2. QED
      BY <2>1, <3>1 DEF IInv, QueueHolds, Holds
  <2>2. CASE pc[r] # "queued"
    BY <2>2 DEF IInv, Control, Rows, Hands, InHand, WorkerStage
  <2>3. QED
    BY <2>1, <2>2
<1>2. QED
  BY <1>1, Invariance, PTL

\* No database session outlives the task it was opened for.
THEOREM SessionsClosed == Spec => []NoOrphanTransaction
<1>1. IInv => NoOrphanTransaction
  BY DEF IInv, Control, Rows, Hands, InHand, NoOrphanTransaction, WorkerStage
<1>2. QED
  BY <1>1, Invariance, PTL

\* The three stores and the sessions agree, whatever fails or crashes.
THEOREM StoresInAgreement == Spec => []StoresAgree
  BY OutboxOrder, BytesBeforeRows, SessionsClosed, PTL DEF StoresAgree

\* A task is in one place on its way to a worker, and in some place.
THEOREM TasksHandedOver == Spec => []HandedOver
  BY HandOver, PendingOnItsWay, PTL DEF HandedOver

-----------------------------------------------------------------------------
(* IngestTasks implements IngestContract.                                   *)

\* A step of the ingestion machine is a step of the contract or changes nothing
\* the contract shows.
LEMMA StepImplements ==
  ASSUME IInv, [Next]_vars
  PROVE  [Contract!Next]_(Contract!vars)
<1> USE DEF Contract!Next, Contract!vars, Contract!Create, Contract!Start,
            Contract!Fail, Contract!Move, Contract!Complete, Contract!Store,
            Contract!Index, Contract!Retract, IInv, TypeOK, Control, Rows, Hands, InHand, Request,
            request, process, stores, task, Goto, SetStatus
<1>1. ASSUME UNCHANGED <<content, status, docs, indexed>>
      PROVE  UNCHANGED Contract!vars
  BY <1>1
<1>2. ASSUME \/ \E p \in Process : Boot(p) \/ Halt(p) \/ Dequeue(p)
             \/ UNCHANGED vars
      PROVE  UNCHANGED Contract!vars
  BY <1>1, <1>2 DEF Boot, Halt, Dequeue, vars
<1>3. ASSUME NEW r \in Request, Receive(r) PROVE UNCHANGED Contract!vars
  BY <1>1, <1>3 DEF Receive
<1>4. ASSUME NEW r \in Request, PipelineStep(r)
      PROVE  [Contract!Next]_(Contract!vars)
  <2>1. /\ UNCHANGED <<content, status>>
        /\ r \in AsyncUpload => status[r] = "processing"
    BY <1>4, PipelineMoves
  <2>2. CASE Parse(r) \/ LookUp(r) \/ PutBytes(r) \/ Embed(r)
    BY <1>1, <2>1, <2>2 DEF Parse, LookUp, PutBytes, Embed
  <2>3. CASE CommitRows(r)
    BY <2>1, <2>3 DEF CommitRows
  <2>4. CASE Upsert(r)
    <3>1. r \in docs
      BY <2>4 DEF Upsert, Stores
    <3>2. QED
      BY <2>1, <2>4, <3>1 DEF Upsert
  <2>5. QED
    BY <1>4, <2>2, <2>3, <2>4 DEF PipelineStep
<1>5. ASSUME NEW r \in AsyncUpload, UploadStep(r)
      PROVE  [Contract!Next]_(Contract!vars)
  <2>1. CASE StoreUpload(r) \/ Enqueue(r)
    BY <1>1, <2>1 DEF StoreUpload, Enqueue
  <2>2. CASE InsertTask(r)
    BY <1>1, <2>2 DEF InsertTask, Inserted
  <2>3. QED
    BY <1>5, <2>1, <2>2 DEF UploadStep
<1>6. ASSUME NEW r \in AsyncUpload, WorkerStep(r)
      PROVE  [Contract!Next]_(Contract!vars)
  <2>1. CASE Claim(r)
    BY <1>1, <2>1 DEF Claim
  <2>2. CASE Fetch(r)
    BY <1>1, <2>2 DEF Fetch
  <2>3. CASE Finish(r)
    <3>1. status[r] = "processing" /\ UNCHANGED <<content, docs, indexed>>
      BY <2>3 DEF Finish
    <3>2. CASE UNCHANGED status
      BY <1>1, <3>1, <3>2
    <3>3. CASE SetStatus(r, "completed")
      <4>1. ~txn[r] /\ pc[r] = "finish"
        <5>1. txn[r] => UNCHANGED status
          BY <2>3 DEF Finish
        <5>2. status'[r] = "completed"
          BY <3>3
        <5>3. QED
          BY <2>3, <3>1, <5>1, <5>2 DEF Finish
      <4>2. r \in docs /\ (content[r] \notin Blank => r \in indexed)
        BY <4>1 DEF Stores
      <4>3. Contract!Complete(r)
        BY <3>1, <3>3, <4>2
      <4>4. QED
        BY <4>3
    <3>4. QED
      BY <2>3, <3>2, <3>3 DEF Finish, Completed
  <2>4. CASE RecordFailure(r)
    BY <1>1, <2>4 DEF RecordFailure
  <2>5. QED
    BY <1>6, <2>1, <2>2, <2>3, <2>4 DEF WorkerStep
<1>7. QED
  BY <1>2, <1>3, <1>4, <1>5, <1>6 DEF Next

\* The machine with its queue, sessions, failures and crashes implements what
\* the agent promises about a task.
THEOREM Implements == Spec => ImplementsContract
<1>1. Init => Contract!Init
  BY DEF Init, Contract!Init
<1>2. IInv /\ [Next]_vars => [Contract!Next]_(Contract!vars)
  BY StepImplements
<1>3. QED
  BY <1>1, <1>2, Invariance, PTL DEF Spec, ImplementsContract, Contract!Spec

=============================================================================
