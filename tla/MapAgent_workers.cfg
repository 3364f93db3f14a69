SPECIFICATION MarkersSpec
CONSTANTS
  None = None
  Workers = {w1, w2}
  Markers = {m1, m2}
  Notes = {n1, n2}
INVARIANT PersistsAcrossInstances
CHECK_DEADLOCK FALSE
