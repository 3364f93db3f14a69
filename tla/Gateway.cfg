SPECIFICATION GatewaySpec
CONSTANTS
  None = None
  NoValue = NoValue
  Ids = {k1}
  RpmQuotas = {1, 3}
  TpmQuotas = {1, 2}
  Estimates = {0, 1, 2}
  Window = 2
  TrackerMax = 3
  MaxTime = 3
  Requests = {r1, r2}
  Deployments <- ThreeDeployments
  MaxRetries = 3
  Costs = {0, 4}
  Limits = {5}
  Hour = 2
  Day = 3
  BufferMax = 1
  Tenants = {t1}
  KeyIds = {k2, k3, k4}
  Ops = {o1, o2, o3}
  Names = {"n1", "n2"}
  Mails = {"m1", "m2"}
  Registrations = {e1, e2, e3}
  Calls = {c1, c2}
  Visits = {v1}
  AccessLife = 3
  RefreshLife = 4
  Margin = 2
  Timeout = 2
  LastTick = 4
  Sends = {s1, s2}
  RealPlatforms = {"wecom"}
  TokenLife = 4
  Buffer = 2
  ImTimeout = 1
  LastClock = 7
  RuleIds = {a1, a2}
  Thresholds = {10, 60}
  MaxSpans = 2
  MaxAlerts = 3
  Suppress = 2
  AlertWindow = 1
  MaxBaseline = 2
  LastSecond = 3
INVARIANTS
  QuotasHeld
  ChatServed
  EventsSpaced
  KeysAccounted
  AccountsSound
  TokensReachAlive
PROPERTIES
  RequestRateHeld
  ForGood
  OneYoungAlert
SYMMETRY Interchangeable
CONSTRAINT Focus
CHECK_DEADLOCK FALSE
