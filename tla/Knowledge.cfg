SPECIFICATION KnowledgeSpec
CONSTANTS
  Asks = {1, 2, 3, 4}
  Keys = {1, 2, 3}
  MaxSize = 2
  TTL = 2
  MaxTime = 3
  None = None
  RagIngests = {g1, g2}
  RagSearches = {s1}
  RagCollections = {"fde_knowledge", "other"}
  DefaultCollection = "fde_knowledge"
  DocLists <- DocumentLists
  PagesOf <- Pages
  MaxChunks = 1
  TopKs = {1, 2}
  RrfK = 60
  TopKEach = 3
  Size = 3
  Overlap = 1
  MaxParent = 4
  ChildSize = 2
  ChildOverlap = 1
  MaxText = 7
  MaxColumns = 3
  Questions <- WordedQuestions
  Generated <- Statements
  Stocked = 3
  MaxResults = 2
  Facts <- Explored
  Cubes <- Aggregated
  Dimensions <- RegionMonthProduct
  Docs = {"d1", "d2"}
  Sheets = {"d2"}
  Calls = {c1, c2, c3}
  ChunksPer = 1
  Procs = {p1, p2}
  Setups <- Environments
  Works = {k1, k2}
  DefaultSize = 4
  OnnxDefault = 3
CONSTRAINT Focus
INVARIANTS
  TypeOK
  AgeWithinTTL
  SearchSound
  TextsSurvive
  AnswersSound
  DeletionsSound
  VectorsSound
PROPERTIES
  EvictsLeastUsed
CHECK_DEADLOCK FALSE
