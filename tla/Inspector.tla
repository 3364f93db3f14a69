------------------------------ MODULE Inspector ------------------------------
(***************************************************************************)
(* The RAG inspector of the observability agent deletes documents from the *)
(* database (rows of chunks) and from Qdrant (points), which no transaction *)
(* spans, while uploads put them there.  Calls and uploads are cut at their *)
(* awaits; the server may stop between any two of them.                    *)
(***************************************************************************)
EXTENDS Naturals

CONSTANTS
    Docs,       \* documents that are uploaded
    Sheets,     \* those of them that are rows of an Excel file
    Calls,      \* calls of delete_document and reindex_document
    ChunksPer   \* chunks of a document, one of a row

ASSUME InspectorAssumption == ChunksPer \in Nat \ {0} /\ Sheets \subseteq Docs

VARIABLES
    exists,     \* the documents that have their row
    rows,       \* the committed rows of chunks
    held,       \* the points of the collection
    uploads,    \* how far the upload of a document is
    calls       \* the calls: their document, the ids of the chunks they saw, and
                \* the points they deleted

inspectorVars == <<exists, rows, held, uploads, calls>>

NoDoc == "none"
NewCall == [pc |-> "new", doc |-> NoDoc, seen |-> {}, taken |-> {}]

RowsOf(d) == {r \in rows : r[1] = d}
ChunksOf(d) == {d} \X (1..(IF d \in Sheets THEN 1 ELSE ChunksPer))

\* The point of a chunk has the chunk's id, but that of an Excel row has the id
\* of its document, and the chunk one of its own.
PointOf(r) == IF r[1] \in Sheets THEN <<r[1], 0>> ELSE r

InspectorInit ==
    /\ exists = {} /\ rows = {} /\ held = {}
    /\ uploads = [d \in Docs |-> "none"]
    /\ calls = [c \in Calls |-> NewCall]

\* The document and its chunks are committed; the answer may be lost.
CommitRows(d) ==
    /\ uploads[d] = "none"
    /\ exists' = exists \union {d}
    /\ rows' = rows \union ChunksOf(d)
    /\ \E to \in {"rows", "failed"} : uploads' = [uploads EXCEPT ![d] = to]
    /\ UNCHANGED <<held, calls>>

\* Whether the rows are still there is not asked.
UpsertPoints(d) ==
    /\ uploads[d] = "rows"
    /\ \/ /\ held' = held \union {PointOf(r) : r \in ChunksOf(d)}
          /\ \E to \in {"done", "failed"} : uploads' = [uploads EXCEPT ![d] = to]
       \/ /\ uploads' = [uploads EXCEPT ![d] = "failed"]
          /\ UNCHANGED held
    /\ UNCHANGED <<exists, rows, calls>>

\* Mutant of SelectChunks: the chunks of all documents.
SelectAllChunks(c, d) ==
    /\ calls[c].pc = "new" /\ uploads[d] # "none"
    /\ calls' = [calls EXCEPT ![c] = [NewCall EXCEPT !.pc = "points", !.doc = d, !.seen = rows]]
    /\ UNCHANGED <<exists, rows, held, uploads>>

\* Without confirm=DELETE nothing begins (router.py:551-568).  Its id is known of
\* a document that was committed, but whether it is still there is not asked: a
\* second call finds no chunks and goes on.
SelectChunks(c, d) ==
    /\ calls[c].pc = "new" /\ uploads[d] # "none"
    /\ calls' = [calls EXCEPT ![c] = [NewCall EXCEPT !.pc = "points", !.doc = d, !.seen = RowsOf(d)]]
    /\ UNCHANGED <<exists, rows, held, uploads>>

\* The points that have the chunks' ids.  A failure of Qdrant is only logged.
DeletePoints(c) ==
    /\ calls[c].pc = "points"
    /\ \E gone \in {{}, calls[c].seen \intersect held} :
          /\ held' = held \ gone
          /\ calls' = [calls EXCEPT ![c].pc = "rows", ![c].taken = gone]
    /\ UNCHANGED <<exists, rows, uploads>>

\* The rows of the document, those not seen before included, and its own row.
\* The answer of the commit may be lost.
DeleteRows(c) ==
    /\ calls[c].pc = "rows"
    /\ rows' = rows \ RowsOf(calls[c].doc)
    /\ exists' = exists \ {calls[c].doc}
    /\ \E to \in {"ok", "failed"} : calls' = [calls EXCEPT ![c].pc = to]
    /\ UNCHANGED <<held, uploads>>

\* The database fails: the transaction is rolled back, the points are not.
DeletionFails(c) ==
    /\ calls[c].pc \in {"points", "rows"}
    /\ calls' = [calls EXCEPT ![c].pc = "failed"]
    /\ UNCHANGED <<exists, rows, held, uploads>>

\* Reindexing ends before it has changed anything: a document that is gone is
\* not found, and one that is there has no attribute `fields' for
\* render_canonical_text to read.
Reindex(c, d) ==
    /\ calls[c].pc = "new" /\ uploads[d] # "none"
    /\ calls' = [calls EXCEPT ![c] = [NewCall EXCEPT !.pc = "failed", !.doc = d]]
    /\ UNCHANGED <<exists, rows, held, uploads>>

\* The server stops: what is under way ends without a trace.
StopServer ==
    /\ \/ \E c \in Calls : calls[c].pc \in {"points", "rows"}
       \/ \E d \in Docs : uploads[d] = "rows"
    /\ calls' = [c \in Calls |->
          IF calls[c].pc \in {"points", "rows"} THEN [calls[c] EXCEPT !.pc = "lost"] ELSE calls[c]]
    /\ uploads' = [d \in Docs |-> IF uploads[d] = "rows" THEN "failed" ELSE uploads[d]]
    /\ UNCHANGED <<exists, rows, held>>

InspectorNext ==
    \/ \E d \in Docs : CommitRows(d) \/ UpsertPoints(d)
    \/ \E c \in Calls, d \in Docs : SelectChunks(c, d) \/ Reindex(c, d)
    \/ \E c \in Calls : DeletePoints(c) \/ DeleteRows(c) \/ DeletionFails(c)
    \/ StopServer

InspectorSpec == InspectorInit /\ [][InspectorNext]_inspectorVars

-----------------------------------------------------------------------------
(* Properties. *)

\* A row of a chunk has its point once its upload is done, whichever deletions
\* overlap, fail or stop, but for the rows of a deletion that took the points and
\* has not ended well.
RowsHavePoints ==
    \A r \in rows : PointOf(r) \notin held =>
        \/ uploads[r[1]] \in {"rows", "failed"}
        \/ \E c \in Calls : calls[c].pc # "ok" /\ r \in calls[c].taken

\* A point without a row is that of an Excel row, which no deletion finds, or one
\* of which a deletion saw the chunk and left the point: Qdrant failed, or the
\* upload put it there afterwards.
OrphansWereSeen ==
    \A p \in held \ {PointOf(r) : r \in rows} :
        p[1] \notin Sheets =>
            \E c \in Calls : calls[c].pc \in {"ok", "failed"} /\ p \in calls[c].seen \ calls[c].taken

\* Whoever is told that a document is deleted finds nothing of it in the
\* database, and what is left between the stores is as above; of Excel rows the
\* points always are (delete_document, rag_inspector.py:238-283; ingest_rows,
\* pipeline.py:187-206).
DeletionsSound ==
    /\ RowsHavePoints /\ OrphansWereSeen
    /\ \A d \in Sheets : uploads[d] = "done" => <<d, 0>> \in held
    /\ \A c \in Calls : calls[c].pc = "ok" => calls[c].doc \notin exists /\ RowsOf(calls[c].doc) = {}
=============================================================================
