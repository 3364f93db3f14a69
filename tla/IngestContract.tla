--------------------------- MODULE IngestContract ---------------------------
(***************************************************************************)
(* What the ingestion agent promises about one asynchronous upload, with   *)
(* the queues, the workers, the sessions and the crashes left out: a task  *)
(* goes pending -> processing -> completed | failed and never back to work *)
(* once settled, its rows are visible before its vectors, and it is called *)
(* completed only when what it has to index is in the vector store.  A     *)
(* completed task may still be called failed: the worker does so when the  *)
(* commit that completed it took effect and raised.                        *)
(***************************************************************************)
CONSTANTS Task,      \* asynchronous uploads
          Document   \* every upload, the asynchronous ones included

VARIABLES status,    \* what GET /ingest/tasks/{id} answers
          stored,    \* uploads with committed rows
          indexed,   \* uploads with vectors
          textual    \* uploads whose content yields at least one chunk

vars == <<status, stored, indexed, textual>>

Init ==
    /\ status = [t \in Task |-> "none"]
    /\ stored = {} /\ indexed = {}
    /\ textual \subseteq Document

Move(t, from, to) ==
    /\ status[t] = from
    /\ status' = [status EXCEPT ![t] = to]
    /\ UNCHANGED <<stored, indexed, textual>>

Create(t) == Move(t, "none", "pending")
Start(t)  == Move(t, "pending", "processing")
Fail(t)   == Move(t, "processing", "failed")
Retract(t) == Move(t, "completed", "failed")

\* A task is completed with its rows stored and its text searchable.
Complete(t) ==
    /\ t \in stored
    /\ t \in textual => t \in indexed
    /\ Move(t, "processing", "completed")

\* Rows appear while the task is being processed (at any time for a
\* synchronous upload), never after it is settled.
Store(d) ==
    /\ d \in Task => status[d] = "processing"
    /\ stored' = stored \cup {d}
    /\ UNCHANGED <<status, indexed, textual>>

\* Outbox order: vectors only for committed rows.
Index(d) ==
    /\ d \in stored
    /\ d \in Task => status[d] = "processing"
    /\ indexed' = indexed \cup {d}
    /\ UNCHANGED <<status, stored, textual>>

Next ==
    \/ \E t \in Task : Create(t) \/ Start(t) \/ Complete(t) \/ Fail(t) \/ Retract(t)
    \/ \E d \in Document : Store(d) \/ Index(d)

Spec == Init /\ [][Next]_vars
=============================================================================
