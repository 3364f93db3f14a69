CONSTANTS
  a1 = a1
  a2 = a2
  s1 = s1
  f1 = f1
  f2 = f2
  p1 = p1
  p2 = p2
  NoTask = NoTask
  Process <- OneProcess
  AsyncUpload <- Two
  SyncUpload <- None
  File <- Files
  Blank <- None
  QueueCap = 1
  MaxHalts = 0
  CallsFail = FALSE
  WorkerStarts <- Started
CHECK_DEADLOCK FALSE
SPECIFICATION FairSpec
PROPERTY TaskSettles
