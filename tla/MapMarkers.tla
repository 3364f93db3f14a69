----------------------------- MODULE MapMarkers -----------------------------
(***************************************************************************)
(* The marker store of the map agent: a JSON file that every worker        *)
(* process of the server reads once, keeps in its memory and replaces as a *)
(* whole on each change.  Handlers do not await while they use the store,  *)
(* so a worker does one thing at a time; the workers do not know of each   *)
(* other, and each may be killed or recycled at any moment.                *)
(***************************************************************************)
CONSTANTS Workers, Markers, Notes, None

VARIABLES
    file,      \* the markers of the file, with their notes
    cache,     \* _cache of each worker, None before the first _load
    saving,    \* the list a worker is about to write, and for which marker
    used,      \* ids given out
    kept,      \* history: what the last acknowledged request left of each marker
    doubtful,  \* history: markers whose last request failed or was cut off
    owed,      \* history: markers a failed save was followed by the answer that
               \* nothing is left to save, and that were not saved since
    writers    \* history: workers that acknowledged a change or replaced the file

markerVars == <<file, cache, saving, used, kept, doubtful, owed, writers>>

Board == [Markers -> Notes \cup {None}]
Save == [list : Board, marker : Markers]

ASSUME MarkerAssumption == None \notin Notes \cup Board \cup Save

MarkersTypeOK ==
    /\ file \in Board
    /\ cache \in [Workers -> Board \cup {None}]
    /\ saving \in [Workers -> Save \cup {None}]
    /\ used \subseteq Markers
    /\ kept \in Board
    /\ doubtful \subseteq Markers /\ owed \subseteq Markers
    /\ writers \subseteq Workers

MarkersInit ==
    /\ file \in Board
    /\ cache = [w \in Workers |-> None]
    /\ saving = [w \in Workers |-> None]
    /\ used = {m \in Markers : file[m] # None}
    /\ kept = file
    /\ doubtful = {} /\ owed = {}
    /\ writers = {}

\* _load
Loaded(w) == IF cache[w] = None THEN file ELSE cache[w]

\* list_all, get, search, filter_by_tag.
Read(w) ==
    /\ saving[w] = None
    /\ cache' = [cache EXCEPT ![w] = Loaded(w)]
    /\ UNCHANGED <<file, saving, used, kept, doubtful, owed, writers>>

\* An update that asks for what the cached marker holds already is answered 200
\* and saves nothing, even if the cached marker is what a failed save has left.
UpdateNothing(w, m, note) ==
    /\ saving[w] = None
    /\ Loaded(w)[m] = note
    /\ cache' = [cache EXCEPT ![w] = Loaded(w)]
    /\ kept' = [kept EXCEPT ![m] = note]
    /\ owed' = owed \cup ({m} \cap doubtful)
    /\ doubtful' = doubtful \ {m}
    /\ writers' = writers \cup {w}
    /\ UNCHANGED <<file, saving, used>>

\* The part of a change that comes before _save: seen is what the cached list
\* is by then, list what will be written.
Change(w, m, seen, list) ==
    /\ saving[w] = None
    /\ cache' = [cache EXCEPT ![w] = seen]
    /\ saving' = [saving EXCEPT ![w] = [list |-> list, marker |-> m]]

\* create appends to the cached list itself.
CreateMarker(w, m, note) ==
    /\ m \notin used
    /\ LET list == [Loaded(w) EXCEPT ![m] = note] IN Change(w, m, list, list)
    /\ used' = used \cup {m}
    /\ UNCHANGED <<file, kept, doubtful, owed, writers>>

\* update changes the cached marker itself.
UpdateMarker(w, m, note) ==
    /\ Loaded(w)[m] \notin {None, note}
    /\ LET list == [Loaded(w) EXCEPT ![m] = note] IN Change(w, m, list, list)
    /\ UNCHANGED <<file, used, kept, doubtful, owed, writers>>

\* delete builds a new list.
DeleteMarker(w, m) ==
    /\ Loaded(w)[m] # None
    /\ Change(w, m, Loaded(w), [Loaded(w) EXCEPT ![m] = None])
    /\ UNCHANGED <<file, used, kept, doubtful, owed, writers>>

\* os.replace and the answer to the request.
SaveEnds(w) ==
    /\ saving[w] # None
    /\ file' = saving[w].list
    /\ cache' = [cache EXCEPT ![w] = saving[w].list]
    /\ kept' = [kept EXCEPT ![saving[w].marker] = saving[w].list[saving[w].marker]]
    /\ doubtful' = doubtful \ {saving[w].marker}
    /\ owed' = {m \in owed \ {saving[w].marker} : saving[w].list[m] # kept[m]}
    /\ writers' = writers \cup {w}
    /\ saving' = [saving EXCEPT ![w] = None]
    /\ UNCHANGED used

\* Mutants of SaveFails: the file is opened for writing in place; the error is
\* swallowed and the request answered as if it had been saved.
SaveFailsTruncates(w) ==
    /\ saving[w] # None
    /\ file' = [m \in Markers |-> None]
    /\ doubtful' = doubtful \cup {saving[w].marker}
    /\ saving' = [saving EXCEPT ![w] = None]
    /\ UNCHANGED <<cache, used, kept, owed, writers>>
SaveFailsQuietly(w) ==
    /\ saving[w] # None
    /\ kept' = [kept EXCEPT ![saving[w].marker] = saving[w].list[saving[w].marker]]
    /\ saving' = [saving EXCEPT ![w] = None]
    /\ UNCHANGED <<file, cache, used, doubtful, owed, writers>>

\* _save raises: the temporary file is removed, the request is answered 500, and
\* the cached list stays as the change has left it.
SaveFails(w) ==
    /\ saving[w] # None
    /\ doubtful' = doubtful \cup {saving[w].marker}
    /\ saving' = [saving EXCEPT ![w] = None]
    /\ UNCHANGED <<file, cache, used, kept, owed, writers>>

\* The worker is replaced by a new process, before or after os.replace if it was
\* about to save.
Replaced(w) ==
    /\ cache' = [cache EXCEPT ![w] = None]
    /\ saving' = [saving EXCEPT ![w] = None]
    /\ \/ saving[w] = None /\ UNCHANGED <<file, doubtful, writers>>
       \/ /\ saving[w] # None
          /\ doubtful' = doubtful \cup {saving[w].marker}
          /\ \/ UNCHANGED <<file, writers>>
             \/ file' = saving[w].list /\ writers' = writers \cup {w}
    /\ UNCHANGED <<used, kept, owed>>

MarkersNext ==
    \E w \in Workers :
        \/ Read(w) \/ SaveEnds(w) \/ SaveFails(w) \/ Replaced(w)
        \/ \E m \in Markers :
             \/ DeleteMarker(w, m)
             \/ \E n \in Notes : CreateMarker(w, m, n) \/ UpdateMarker(w, m, n) \/ UpdateNothing(w, m, n)

MarkersSpec == MarkersInit /\ [][MarkersNext]_markerVars

-----------------------------------------------------------------------------

\* One worker at most has changed markers or said so.
SoleWriter(w) == writers \subseteq {w}

\* As long as one worker handles all the changes, the file holds what the last
\* acknowledged request left of every marker, through failed saves and workers
\* replaced at any point (the crash safety of marker_store); but for a marker
\* whose update was repeated after its save had failed: update then finds the
\* cached marker changed already and the request is answered 200, and the file
\* gets the change with the next save of that worker or, if it is replaced
\* before, never.
AcknowledgedKept ==
    (\E w \in Workers : SoleWriter(w)) =>
        \A m \in Markers \ (doubtful \cup owed) : file[m] = kept[m]

\* The worker that handles the changes lists what is in the file, but for the
\* markers whose change could not be saved.
ListedIsSaved ==
    \A w \in Workers : SoleWriter(w) /\ saving[w] = None /\ cache[w] # None =>
        \A m \in Markers \ (doubtful \cup owed) : cache[w][m] = file[m]

\* What is acknowledged, what is listed and what is in the file are the same,
\* unless a save failed.
FileKeeps == AcknowledgedKept /\ ListedIsSaved

\* "Data should persist when a new store instance reads the same file": whoever
\* reads the file, after whatever the other workers did; failed saves apart.
PersistsAcrossInstances ==
    \A m \in Markers \ (doubtful \cup owed) : file[m] = kept[m]
=============================================================================
