SPECIFICATION MapSpec
CONSTANTS
  Messages = 3
  Analyses = {a1, a2}
  Tabs = {t1, t2}
  None = None
  Workers = {w1, w2}
  Markers = {m1, m2}
  Notes = {n1, n2}
  Places = {"p", "q"}
  Own <- Natural
  Asked <- IdLists
  Inline <- InlineLists
  Runs = {x1, x2}
  PoiCounts = {0, 3}
  SessionIds = {s1, s2}
  Marked = {e1, e2}
  SessionTTL = 1
  LastMoment = 4
INVARIANTS
  AnalysesSound
  ReachesAll
  FileKeeps
PROPERTIES
  SettledForGood
  OutcomeReaches
CONSTRAINT Focus
CHECK_DEADLOCK FALSE
