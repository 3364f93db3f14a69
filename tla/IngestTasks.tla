----------------------------- MODULE IngestTasks -----------------------------
(***************************************************************************)
(* The ingestion agent: the upload handlers, the ingestion pipeline, the   *)
(* three stores they write (object storage, the relational database, the   *)
(* vector store), and, in every server process, a task queue in memory and *)
(* one background worker.                                                  *)
(*                                                                         *)
(* A request is one call of an upload endpoint.  Asynchronous uploads      *)
(* leave a task row and a queue entry for the worker of the process that   *)
(* took the request; synchronous uploads run the pipeline in the handler.  *)
(* Every await that another request, a worker or a crash can come between  *)
(* is a step of its own.  A call that raises may have taken effect: the    *)
(* object put, the rows committed, and only the answer lost.               *)
(***************************************************************************)
EXTENDS Naturals, Sequences, FiniteSets

CONSTANTS AsyncUpload,   \* requests to POST /ingest/upload/async
          SyncUpload,    \* requests to POST /ingest/upload
          File,          \* distinct file contents (what the hash tells apart)
          Blank,         \* the contents that yield no chunk of text
          Process,       \* the server processes gunicorn keeps
          NoTask,        \* a worker has no task in hand
          QueueCap,      \* maxsize of a queue
          MaxHalts,      \* bound: how many times a process goes down, in all
          CallsFail,     \* a parser, storage, database or model call may raise
          WorkerStarts   \* outcomes of start_worker at boot (TRUE = it runs)

Request == AsyncUpload \cup SyncUpload
TaskQueue == Seq(AsyncUpload)

ASSUME IngestAssumption ==
    /\ AsyncUpload \cap SyncUpload = {}
    /\ Blank \subseteq File
    /\ NoTask \notin Request
    /\ QueueCap \in Nat \ {0}
    /\ MaxHalts \in Nat
    /\ CallsFail \in BOOLEAN
    /\ WorkerStarts \subseteq BOOLEAN

VARIABLES
    content,   \* the bytes each request uploads (never changes)
    route,     \* "file" (ingest_file) or "excel" (ingest_excel, ingest_rows)
    host,      \* the process that takes each request (never changes)
    pc,        \* where each request is: its handler, the queue, the pipeline
    alive,     \* whether a process is up
    halts,     \* how many times one has gone down
    running,   \* whether its worker loop runs
    working,   \* the task in its worker's hand
    queue,     \* its IngestTaskQueue._queue (memory of the process)
    txn,       \* the request's database session has a transaction open
    objects,   \* object storage: the contents put there
    status,    \* table ingest_tasks: the status column
    hasRef,    \* table ingest_tasks: the rows whose storage_ref is not NULL
    docs,      \* table raw_documents: one committed row per request in the set
    indexed    \* vector store: the requests whose chunks have been upserted

request == <<content, route, host>>
process == <<alive, halts, running>>
stores  == <<objects, docs, indexed>>
task    == <<status, hasRef>>
vars == <<content, route, host, pc, alive, halts, running, working, queue, txn,
          objects, status, hasRef, docs, indexed>>

HandlerStage  == {"store", "insert", "enqueue"}
PipelineStage == {"parse", "lookup", "put", "relookup", "embed", "commit", "upsert"}
WorkerStage   == {"claim", "fetch", "finish", "raise"}
EndStage      == {"done", "rejected", "escaped", "lost"}
Stage == {"new", "queued"} \cup HandlerStage \cup PipelineStage
         \cup WorkerStage \cup EndStage

TypeOK ==
    /\ content \in [Request -> File]
    /\ route \in [Request -> {"file", "excel"}]
    /\ host \in [Request -> Process]
    /\ pc \in [Request -> Stage]
    /\ alive \in [Process -> BOOLEAN]
    /\ halts \in 0..MaxHalts
    /\ running \in [Process -> BOOLEAN]
    /\ working \in [Process -> AsyncUpload \cup {NoTask}]
    /\ queue \in [Process -> TaskQueue]
    /\ txn \in [Request -> BOOLEAN]
    /\ objects \subseteq File
    /\ status \in [AsyncUpload ->
                     {"none", "pending", "processing", "completed", "failed"}]
    /\ hasRef \subseteq AsyncUpload
    /\ docs \subseteq Request
    /\ indexed \subseteq Request

Init ==
    /\ content \in [Request -> File]
    /\ route \in {f \in [Request -> {"file", "excel"}] :
                    \A r \in AsyncUpload : f[r] = "file"}
    /\ host \in [Request -> Process]
    /\ pc = [r \in Request |-> "new"]
    /\ alive = [p \in Process |-> FALSE] /\ halts = 0
    /\ running = [p \in Process |-> FALSE]
    /\ working = [p \in Process |-> NoTask]
    /\ queue = [p \in Process |-> <<>>]
    /\ txn = [r \in Request |-> FALSE]
    /\ objects = {} /\ docs = {} /\ indexed = {}
    /\ status = [r \in AsyncUpload |-> "none"]
    /\ hasRef = {}

Goto(r, stage) == pc' = [pc EXCEPT ![r] = stage]
SetStatus(r, s) == status' = [status EXCEPT ![r] = s]

\* The worker of the process that took r has r in its hand, or puts it down.
InHand(r)  == working[host[r]] = r
PutDown(r) == working' = [working EXCEPT ![host[r]] = NoTask]

-----------------------------------------------------------------------------
(* A process: start, stop, crash.  What is in memory goes with it.          *)

\* Mutant of Boot: a start that puts interrupted tasks back to pending.
BootResets(p) ==
    /\ ~alive[p]
    /\ alive' = [alive EXCEPT ![p] = TRUE]
    /\ \E b \in WorkerStarts : running' = [running EXCEPT ![p] = b]
    /\ status' = [r \in AsyncUpload |->
                    IF status[r] = "processing" THEN "pending" ELSE status[r]]
    /\ UNCHANGED <<request, halts, pc, working, queue, txn, hasRef, stores>>

\* startup_event: tables are created, start_worker is called on the empty
\* queue.  A worker that fails to start is logged as non-fatal.
Boot(p) ==
    /\ ~alive[p]
    /\ alive' = [alive EXCEPT ![p] = TRUE]
    /\ \E b \in WorkerStarts : running' = [running EXCEPT ![p] = b]
    /\ UNCHANGED <<request, halts, pc, working, queue, txn, task, stores>>

\* A process ends: killed, or shut down (stop_worker cancels the loop in the
\* middle of whatever it awaits; CancelledError is not caught by _process).
\* Its handlers and worker vanish, their open transactions are rolled back.
Halt(p) ==
    /\ alive[p] /\ halts < MaxHalts
    /\ alive' = [alive EXCEPT ![p] = FALSE] /\ halts' = halts + 1
    /\ running' = [running EXCEPT ![p] = FALSE]
    /\ working' = [working EXCEPT ![p] = NoTask]
    /\ queue' = [queue EXCEPT ![p] = <<>>]
    /\ pc' = [r \in Request |->
                IF host[r] # p \/ pc[r] \in EndStage \cup {"new"}
                THEN pc[r] ELSE "lost"]
    /\ txn' = [r \in Request |-> host[r] # p /\ txn[r]]
    /\ UNCHANGED <<request, task, stores>>

-----------------------------------------------------------------------------
(* upload_file_async                                                        *)

\* A request arrives.  Either the extension, emptiness and size checks turn it
\* away with a 4xx, or the handler goes on.
Receive(r) ==
    /\ alive[host[r]] /\ pc[r] = "new"
    /\ \/ Goto(r, "rejected")
       \/ /\ r \in AsyncUpload
          /\ Goto(r, "store")
       \/ /\ r \in SyncUpload
          /\ Goto(r, IF route[r] = "file" THEN "parse" ELSE "lookup")
    /\ UNCHANGED <<request, process, working, queue, txn, task, stores>>

\* Mutant of StoreUpload: an error of the object store is ignored.
StoreUploadIgnored(r) ==
    /\ pc[r] = "store"
    /\ Goto(r, "insert")
    /\ objects' \in {objects, objects \cup {content[r]}}
    /\ UNCHANGED <<request, process, working, queue, txn, task, docs, indexed>>

\* storage.put under the content-addressed key; an error is a 500.
StoreUpload(r) ==
    /\ pc[r] = "store"
    /\ \/ Goto(r, "insert") /\ objects' = objects \cup {content[r]}
       \/ /\ CallsFail /\ Goto(r, "rejected")
          /\ objects' \in {objects, objects \cup {content[r]}}
    /\ UNCHANGED <<request, process, working, queue, txn, task, docs, indexed>>

\* The task row as the upload handler commits it.
Inserted(r) == SetStatus(r, "pending") /\ hasRef' = hasRef \cup {r}

\* The task row is inserted as pending and committed.  A commit that raises is a
\* 500, whether the row is there or not.
InsertTask(r) ==
    /\ pc[r] = "insert"
    /\ \/ Goto(r, "enqueue") /\ Inserted(r)
       \/ CallsFail /\ Goto(r, "rejected") /\ (Inserted(r) \/ UNCHANGED task)
    /\ UNCHANGED <<request, process, working, queue, txn, stores>>

\* Mutant of Enqueue: put_nowait, and the QueueFull it raises is lost.
EnqueueDrops(r) ==
    /\ pc[r] = "enqueue"
    /\ queue' = [queue EXCEPT ![host[r]] =
                   IF Len(@) < QueueCap THEN Append(@, r) ELSE @]
    /\ Goto(r, "queued")
    /\ UNCHANGED <<request, process, working, txn, task, stores>>

\* queue.enqueue: blocks while the queue is full.
Enqueue(r) ==
    /\ pc[r] = "enqueue"
    /\ Len(queue[host[r]]) < QueueCap
    /\ queue' = [queue EXCEPT ![host[r]] = Append(@, r)]
    /\ Goto(r, "queued")
    /\ UNCHANGED <<request, process, working, txn, task, stores>>

-----------------------------------------------------------------------------
(* The worker of a process: _loop and _process                              *)

Dequeue(p) ==
    /\ running[p] /\ working[p] = NoTask /\ queue[p] # <<>>
    /\ working' = [working EXCEPT ![p] = Head(queue[p])]
    /\ queue' = [queue EXCEPT ![p] = Tail(@)]
    /\ Goto(Head(queue[p]), "claim")
    /\ UNCHANGED <<request, process, txn, task, stores>>

\* _process is left by an exception that only _loop catches and logs; the
\* session is closed and the loop takes the next task.
Escape(r) ==
    /\ Goto(r, "escaped")
    /\ PutDown(r)
    /\ txn' = [txn EXCEPT ![r] = FALSE]

\* The first transaction of _process.  It is outside the try block.
Claim(r) ==
    /\ InHand(r) /\ pc[r] = "claim"
    /\ \/ /\ SetStatus(r, "processing")
          /\ Goto(r, "fetch")
          /\ UNCHANGED <<working, txn>>
       \/ CallsFail /\ Escape(r) /\ (SetStatus(r, "processing") \/ UNCHANGED status)
    /\ UNCHANGED <<request, process, queue, hasRef, stores>>

\* An exception inside the pipeline.  The worker goes to its except clause with
\* the session as it is ("open" says whether a transaction is still begun); a
\* synchronous handler answers an error and its session is closed.
Fails(r, open) ==
    /\ Goto(r, IF r \in AsyncUpload THEN "raise" ELSE "rejected")
    /\ txn' = [txn EXCEPT ![r] = open /\ r \in AsyncUpload]

CallFails(r, open) == CallsFail /\ Fails(r, open)

\* object_storage.get(task.storage_ref)
Fetch(r) ==
    /\ InHand(r) /\ pc[r] = "fetch"
    /\ \/ /\ r \in hasRef /\ content[r] \in objects
          /\ Goto(r, "parse") /\ UNCHANGED txn
       \/ ~(r \in hasRef /\ content[r] \in objects) /\ Fails(r, FALSE)
       \/ CallFails(r, FALSE)
    /\ UNCHANGED <<request, process, working, queue, task, stores>>

\* Mutant of Finish: the status "partial", which nothing in the code sets.
FinishPartial(r) ==
    /\ InHand(r) /\ pc[r] = "finish" /\ ~txn[r]
    /\ SetStatus(r, "partial")
    /\ Goto(r, "done") /\ PutDown(r)
    /\ UNCHANGED <<request, process, queue, txn, hasRef, stores>>

\* The task row as the worker completes it (result has no storage_ref).
Completed(r) == SetStatus(r, "completed") /\ hasRef' = hasRef \ {r}

\* The last transaction of _process.  begin() raises when a transaction is
\* already begun on the session; otherwise the commit succeeds, or raises, and
\* then too the row may be completed.
Finish(r) ==
    /\ InHand(r) /\ pc[r] = "finish"
    /\ \/ /\ ~txn[r] /\ Completed(r)
          /\ Goto(r, "done") /\ PutDown(r)
          /\ UNCHANGED txn
       \/ txn[r] /\ Fails(r, TRUE) /\ UNCHANGED <<working, task>>
       \/ /\ ~txn[r] /\ CallFails(r, FALSE)
          /\ Completed(r) \/ UNCHANGED task
          /\ UNCHANGED working
    /\ UNCHANGED <<request, process, queue, stores>>

\* Mutant of RecordFailure: the exception is logged and no status is written.
RecordNothing(r) ==
    /\ InHand(r) /\ pc[r] = "raise"
    /\ Goto(r, "done") /\ PutDown(r)
    /\ txn' = [txn EXCEPT ![r] = FALSE]
    /\ UNCHANGED <<request, process, queue, task, stores>>

\* The except clause of _process: it too calls begin().  It writes "failed" over
\* whatever the row says, "completed" too.
RecordFailure(r) ==
    /\ InHand(r) /\ pc[r] = "raise"
    /\ \/ /\ ~txn[r]
          /\ SetStatus(r, "failed")
          /\ Goto(r, "done") /\ PutDown(r)
          /\ UNCHANGED txn
       \/ txn[r] /\ Escape(r) /\ UNCHANGED status
       \/ /\ ~txn[r] /\ CallsFail /\ Escape(r)
          /\ SetStatus(r, "failed") \/ UNCHANGED status
    /\ UNCHANGED <<request, process, queue, hasRef, stores>>

-----------------------------------------------------------------------------
(* IngestionPipeline: ingest_file, and ingest_excel with ingest_rows        *)

\* Where the pipeline of r goes after a stage that succeeded.
After(r, stage) ==
    IF route[r] = "file"
    THEN CASE stage = "parse"  -> "lookup"
           [] stage = "lookup" -> "put"
           [] stage = "put"    -> "commit"
           [] stage = "commit" -> "embed"
           [] OTHER            -> "upsert"
    ELSE CASE stage = "lookup"   -> "put"
           [] stage = "put"      -> "parse"
           [] stage = "parse"    -> "relookup"
           [] stage = "relookup" -> "embed"
           [] stage = "embed"    -> "commit"
           [] OTHER              -> "upsert"

\* The pipeline returns its result to the worker or to the handler.
Returns(r) ==
    /\ Goto(r, IF r \in AsyncUpload THEN "finish" ELSE "done")
    /\ txn' = [txn EXCEPT ![r] = @ /\ r \in AsyncUpload]

\* parse_file, or reading the workbook; an Excel file without rows is refused.
Parse(r) ==
    /\ pc[r] = "parse"
    /\ \/ /\ route[r] = "excel" => content[r] \notin Blank
          /\ Goto(r, After(r, "parse")) /\ UNCHANGED txn
       \/ route[r] = "excel" /\ content[r] \in Blank /\ Fails(r, txn[r])
       \/ CallFails(r, txn[r])
    /\ UNCHANGED <<request, process, working, queue, task, stores>>

\* Mutant of LookUp: the row with the same hash is not looked for.
LookUpSkipped(r) ==
    /\ pc[r] \in {"lookup", "relookup"}
    /\ Goto(r, After(r, pc[r]))
    /\ txn' = [txn EXCEPT ![r] = TRUE]
    /\ UNCHANGED <<request, process, working, queue, task, stores>>

\* _find_existing_raw: the SELECT begins a transaction that only the commit of
\* the pipeline ends.  A row with the same hash ends the run as "duplicated".
LookUp(r) ==
    /\ pc[r] \in {"lookup", "relookup"}
    /\ \/ /\ \E d \in docs : content[d] = content[r]
          /\ Goto(r, IF r \in AsyncUpload THEN "finish" ELSE "done")
          /\ txn' = [txn EXCEPT ![r] = r \in AsyncUpload]
       \/ /\ \A d \in docs : content[d] # content[r]
          /\ Goto(r, After(r, pc[r]))
          /\ txn' = [txn EXCEPT ![r] = TRUE]
       \/ CallFails(r, TRUE)
    /\ UNCHANGED <<request, process, working, queue, task, stores>>

PutBytes(r) ==
    /\ pc[r] = "put"
    /\ \/ /\ objects' = objects \cup {content[r]}
          /\ Goto(r, After(r, "put")) /\ UNCHANGED txn
       \/ /\ CallFails(r, txn[r])
          /\ objects' \in {objects, objects \cup {content[r]}}
    /\ UNCHANGED <<request, process, working, queue, task, docs, indexed>>

\* The rows (raw document, canonical documents, chunks) are flushed and the
\* session committed; others see them only then.  A flush that fails leaves the
\* transaction begun, a commit that fails need not, and may have taken effect.
CommitRows(r) ==
    /\ pc[r] = "commit"
    /\ \/ /\ docs' = docs \cup {r}
          /\ Goto(r, After(r, "commit"))
          /\ txn' = [txn EXCEPT ![r] = FALSE]
       \/ /\ \E open \in BOOLEAN : CallFails(r, open)
          /\ docs' \in {docs, docs \cup {r}}
    /\ UNCHANGED <<request, process, working, queue, task, objects, indexed>>

\* encode_documents; ingest_file skips it and the upsert when there is no chunk.
Embed(r) ==
    /\ pc[r] = "embed"
    /\ \/ /\ content[r] \in Blank
          /\ Returns(r)
       \/ /\ content[r] \notin Blank
          /\ Goto(r, After(r, "embed")) /\ UNCHANGED txn
       \/ /\ content[r] \notin Blank
          /\ CallFails(r, txn[r])
    /\ UNCHANGED <<request, process, working, queue, task, stores>>

\* Mutant of Upsert: best effort, an error of the vector store is ignored.
UpsertIgnored(r) ==
    /\ pc[r] = "upsert"
    /\ indexed' \in {indexed, indexed \cup {r}}
    /\ Returns(r)
    /\ UNCHANGED <<request, process, working, queue, task, objects, docs>>

\* async_create_collection and async_upsert.
Upsert(r) ==
    /\ pc[r] = "upsert"
    /\ \/ /\ indexed' = indexed \cup {r}
          /\ Returns(r)
       \/ /\ indexed' \in {indexed, indexed \cup {r}}
          /\ CallFails(r, txn[r])
    /\ UNCHANGED <<request, process, working, queue, task, objects, docs>>

-----------------------------------------------------------------------------

UploadStep(r)   == StoreUpload(r) \/ InsertTask(r) \/ Enqueue(r)
PipelineStep(r) == Parse(r) \/ LookUp(r) \/ PutBytes(r) \/ CommitRows(r)
                   \/ Embed(r) \/ Upsert(r)
WorkerStep(r)   == Claim(r) \/ Fetch(r) \/ Finish(r) \/ RecordFailure(r)

Next ==
    \/ \E p \in Process : Boot(p) \/ Halt(p) \/ Dequeue(p)
    \/ \E r \in Request : Receive(r) \/ PipelineStep(r)
    \/ \E r \in AsyncUpload : UploadStep(r) \/ WorkerStep(r)

Spec == Init /\ [][Next]_vars

\* The event loop of a live process runs every ready coroutine, so a handler or
\* the worker that can go on does; gunicorn restarts a process.  Nothing
\* is assumed of clients, of Halt, or of how a call turns out.
Fairness ==
    /\ \A p \in Process : WF_vars(Boot(p)) /\ WF_vars(Dequeue(p))
    /\ \A r \in Request : WF_vars(PipelineStep(r))
    /\ \A r \in AsyncUpload : WF_vars(UploadStep(r)) /\ WF_vars(WorkerStep(r))

FairSpec == Spec /\ Fairness

-----------------------------------------------------------------------------
(* Safety                                                                   *)

\* Contract with the caller: the machine above implements IngestContract.  The
\* queue, the session, retries of the client and crashes do not show in it.
Contract == INSTANCE IngestContract WITH
    Task <- AsyncUpload, Document <- Request, stored <- docs,
    textual <- {r \in Request : content[r] \notin Blank}

ImplementsContract == Contract!Spec

\* A task reported completed has its rows committed and, when it has text, its
\* vectors upserted: _process reaches its last transaction on no other path,
\* the "duplicated" early return of ingest_file included.
CompletedIsSearchable ==
    \A r \in AsyncUpload : status[r] = "completed" =>
        r \in docs /\ (content[r] \notin Blank => r \in indexed)

\* The outbox order of ingest_file and ingest_rows: a vector in the vector
\* store always has its committed rows, whatever failed or crashed in between.
VectorsHaveRows == indexed \subseteq docs

\* Every row that refers to an object (a task row, a raw document) refers to
\* bytes that were put before it: the worker can always fetch what it was given.
RowsHaveBytes ==
    /\ \A r \in hasRef : content[r] \in objects
    /\ \A d \in docs : content[d] \in objects

\* Exactly-once hand-over: a task is at one place of one queue at most, never in
\* a queue and in a worker's hand at once nor in the hands of two workers, and
\* whatever a queue holds is a pending row, so no task is processed twice.
HandedOverOnce ==
    /\ \A p, q \in Process : \A i \in 1..Len(queue[p]) :
         /\ status[queue[p][i]] = "pending"
         /\ queue[p][i] # working[q]
         /\ \A j \in 1..Len(queue[q]) :
              queue[p][i] = queue[q][j] => p = q /\ i = j
    /\ \A p, q \in Process : working[p] = working[q] => p = q \/ working[p] = NoTask

\* A pending row is on its way: its handler is about to enqueue it, or it is
\* queued, or the worker is claiming it.  It is out of the way, and stays pending
\* for good, in three cases: the process went down on it, the claim failed, or
\* the commit of the row took effect and raised (the client is told of a failure
\* and the handler never gets to the queue).
PendingIsOnItsWay ==
    \A r \in AsyncUpload : status[r] = "pending" =>
        \/ pc[r] = "enqueue"
        \/ \E i \in 1..Len(queue[host[r]]) : queue[host[r]][i] = r
        \/ InHand(r)
        \/ pc[r] \in {"lost", "escaped", "rejected"}

\* Deduplication holds among the tasks of one process: it has one worker, so the
\* lookup and the commit of two of its tasks never interleave, across restarts
\* either.  Tasks of two processes, and synchronous uploads, do duplicate.
NoPhantomInProcess ==
    \A a, b \in docs \cap AsyncUpload :
        host[a] = host[b] /\ content[a] = content[b] => a = b

\* The session of a task has a transaction begun only while the worker runs the
\* pipeline on that task or is about to find out; no session survives its task.
NoOrphanTransaction ==
    \A r \in AsyncUpload : txn[r] =>
        InHand(r) /\ pc[r] \in PipelineStage \cup {"finish", "raise"}

\* What one store refers to is in the other, and no session is left between.
StoresAgree == VectorsHaveRows /\ RowsHaveBytes /\ NoOrphanTransaction

\* From its row to a worker's hand a task is in one place, and in some place.
HandedOver == HandedOverOnce /\ PendingIsOnItsWay

\* The doc_comment of models.RawDocument.content_hash: the same bytes never give
\* two raw documents, whichever endpoints they came through.
NoPhantom == \A a, b \in docs : content[a] = content[b] => a = b

-----------------------------------------------------------------------------
(* Liveness                                                                 *)

\* Backpressure lets go: an upload blocked on a full queue gets its place or
\* goes down with the process.
BlockedUploadReturns ==
    \A r \in AsyncUpload : pc[r] = "enqueue" ~> pc[r] # "enqueue"

\* A pending task is claimed, unless its process stopped on it, the claiming
\* transaction failed, or the upload was answered with an error after its commit.
PendingIsClaimed ==
    \A r \in AsyncUpload : status[r] = "pending" ~>
        status[r] # "pending" \/ pc[r] \in {"lost", "escaped", "rejected"}

\* An upload is neither held up for ever nor left in the queue.
UploadsGoOn == BlockedUploadReturns /\ PendingIsClaimed

\* A task that is processing is settled, unless the process stopped on it or the
\* exception escaped _process.
ProcessingSettles ==
    \A r \in AsyncUpload : status[r] = "processing" ~>
        status[r] \in {"completed", "failed"} \/ pc[r] \in {"lost", "escaped"}

\* What the polling client is told to rely on (tasks.py, step 3 of the worker):
\* a task marked processing is marked completed or failed in the end.
TaskSettles ==
    \A r \in AsyncUpload : status[r] = "processing" ~>
        status[r] \in {"completed", "failed"}
=============================================================================
