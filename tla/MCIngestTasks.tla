--------------------------- MODULE MCIngestTasks ---------------------------
(* Instances of IngestTasks for TLC. *)
EXTENDS IngestTasks, TLC

CONSTANTS a1, a2, s1, f1, f2, p1, p2

None == {}
One == {a1}
Two == {a1, a2}
OneSync == {s1}
Files == {f1, f2}
BlankFile == {f2}
OneProcess == {p1}
TwoProcesses == {p1, p2}
Started == {TRUE}
StartedOrNot == {TRUE, FALSE}

Symmetric == Permutations(AsyncUpload) \cup Permutations(Process)
=============================================================================
