SPECIFICATION ClientsSpec
CONSTANTS
  x1 = x1
  x2 = x2
  \* routing
  Names = {1, 2}
  RouteHosts = {x1, x2}
  Weights = {1, 2}
  Absent = Absent
  EditKinds = {"domain", "hosts", "weight", "pattern"}
  MaxEdits = 3
  \* the request path
  Journeys = {x1, x2}
  Timed = {x1, x2}
  Contents = {a, b}
  Required = {a, b}
  FailOpen = FALSE
  MaxProcessing = 1
  MaxRetries = 1
  MaxConfigs = 2
  \* challenges
  c1 = c1
  c2 = c2
  s1 = s1
  s2 = s2
  Clients = {c1, c2}
  Sites = {s1, s2}
  SiteOf <- MCSiteOf
  Visits = {x1, x2}
  MarkerLevels = {0}
  BaseKind = "pow"
  Ladder <- MCLadder
  LoopThreshold = 3
  BypassOnLoop = "Refuse"
  MaxAttempts = 2
  MaxTokens = 1
  MaxSites = 1
  TokenTtl = 1
  Decay = 1
  MaxPages = 2
  MaxTime = 2
  \* domain-keyed state
  d1 = d1
  d2 = d2
  i1 = i1
  i2 = i2
  Slots = {d1, d2}
  Overflow = overflow
  Identities = {i1, i2}
  Threads = {x1, x2}
  MaxDomains = 1
  MaxEntries = 1
  Ttls = {0, 1}
  MaxClock = 1
  MaxInserts = 2
  \* inspection by the WAF
  Score <- MCScore
  Threshold = 2
  Profiles <- MCProfiles
  BodyLimit = 2
  PrefixLimit = 1
  Units = {2, 102}
  AnswerUnits = {100}
  MaxBody = 3
  MaxAnswer = 2
  MaxChunk = 2
  MaxServed = 2
SYMMETRY Symmetric
INVARIANTS  PathGuarded ChallengeInv StoreInv WafGuards
PROPERTIES StaleIsHealed TokenKept NeverDisplaced
CHECK_DEADLOCK FALSE
