SPECIFICATION BusinessSpec
CONSTANTS
  b1 = b1
  b2 = b2
  c1 = c1
  c2 = c2
  c3 = c3
  Nameless = Nameless
  Processes = {p1, p2}
  Ingests = {i1, i2, i3}
  Buyers = {b1, b2}
  Manifests <- TwoManifests
  MaxPages = 2
  Pushes = {q1}
  Consignees = {c1, c2, c3}
  Sanctioned = {c2}
  Mid = 2
  High = 3
  SegmentFilters <- ListFilters
  MailRequests <- SomeMail
  DefaultLimit = 2
  MaxShipments = 3
  JobIds = {j1, j2}
  Executions = {x1}
  Targets = {t1}
  MaxJobs = 3
  Staff <- Departments
  Competencies = {"c", "d"}
  Needs <- Positions
  Scores = {4998, 5999, 7000}
  Parts = 2
  MaxReviews = 12
  ShortHistory = 3
  Reductions = {1}
  Shapes <- TextShapes
  Hosts <- SomeHosts
  Patterns <- SomePatterns
  MaxSignals = 3
  Collects = {r1}
  Feeds <- TwoFeeds
  About <- Contents
  Wanted = {1, 3, 4}
  PageSize = 2
  MaxApiPages = 2
  MaxRetries = 1
  Newer = 1
INVARIANTS
  CountsSound
  
  FiresOnlyScheduled
  ScoresSound
  CollectionSound
PROPERTY SlumpRaisesRisk
SYMMETRY Symmetry
CHECK_DEADLOCK FALSE
