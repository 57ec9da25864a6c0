SPECIFICATION ServiceSpec
CONSTANTS
  \* security events
  Detects = {d1, d2}
  Enforced = {e1, e2}
  Natives = {n1}
  Capacity = 3
  Batch = 2
  MaxFailures = 2
  \* metric rollups
  Nodes = {m1, m2}
  Findings = {f1, f2}
  RollupWindow = 2
  RollupReads = 2
  RowsPerBucket = 2
  KeepFindings = 2
  KeepRows = 2
  MaxBucket = 4
  MaxTickFailures = 1
  \* alerts
  NumRules = 2
  Channels = {z1}
  ReminderTicks = 2
  Moving = {2}
  MaxMishaps = 1
  \* feeds
  FeedNames = {g1, g2}
  Staleness = 1
  MaxHour = 5
  MaxRebuilds = 1
  \* the policy gate
  Hosts = {h1, h2}
  MaxDomains = 1
  Workers = {w1, w2}
  Requests = {r1}
  MaxReloads = 3
  \* the circuit breaker
  Calls = {c1, c2}
  MaxConsecutiveFailures = 2
  SuccessThreshold = 2
  RateTrips = TRUE
  LosesReports = TRUE
  \* requests that retry
  Journeys = {j1, j2}
  Timed = {j1}
  Contents = {a}
  Required = {a}
  FailOpen = FALSE
  MaxProcessing = 1
  MaxRetries = 2
  MaxConfigs = 1
INVARIANTS Accounted RecountsOnlyIfCut GateInv RouteIsCurrent
PROPERTIES PriorityKept EventuallySettled FindingsCounted FeedsAreCurrent AlertsAreHeard
PROPERTIES ReloadSettles BreakerRecovers RequestsEnd
CHECK_DEADLOCK FALSE
