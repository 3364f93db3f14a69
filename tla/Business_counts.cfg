SPECIFICATION BusinessSpec
CONSTANTS
  b1 = b1
  b2 = b2
  c1 = c1
  c2 = c2
  c3 = c3
  Nameless = Nameless
  Processes = {p1, p2}
  Ingests = {i1, i2, i3}
  Buyers = {b1, b2}
  Manifests <- TwoManifests
  MaxPages = 2
  Pushes = {}
  Consignees = {c1, c2, c3}
  Sanctioned = {c2}
  Mid = 2
  High = 3
  SegmentFilters <- ListFilters
  MailRequests <- SomeMail
  DefaultLimit = 2
  MaxShipments = 3
  JobIds = {j1, j2}
  Executions = {x1}
  Targets = {t1}
  MaxJobs = 0
  Staff <- Departments
  Competencies = {"c", "d"}
  Needs <- Positions
  Scores = {4998, 5999, 7000}
  Parts = 2
  MaxReviews = 0
  ShortHistory = 0
  Reductions = {}
  Shapes <- TextShapes
  Hosts <- SomeHosts
  Patterns <- SomePatterns
  MaxSignals = 0
  Collects = {}
  Feeds <- TwoFeeds
  About <- Contents
  Wanted = {1, 3, 4}
  PageSize = 2
  MaxApiPages = 2
  MaxRetries = 1
  Newer = 0
SYMMETRY Symmetry
INVARIANT CountsAllShipments
CHECK_DEADLOCK FALSE
