CONSTANTS
  a1 = a1
  a2 = a2
  s1 = s1
  f1 = f1
  f2 = f2
  p1 = p1
  p2 = p2
  NoTask = NoTask
  Process <- TwoProcesses
  AsyncUpload <- Two
  SyncUpload <- OneSync
  File <- Files
  Blank <- BlankFile
  QueueCap = 1
  MaxHalts = 1
  CallsFail = TRUE
  WorkerStarts <- StartedOrNot
CHECK_DEADLOCK FALSE
SPECIFICATION Spec
SYMMETRY Symmetric
INVARIANTS
  TypeOK
  CompletedIsSearchable
  StoresAgree
  HandedOver
  NoPhantomInProcess
PROPERTY ImplementsContract
