SPECIFICATION ConvergeSpec
CONSTANTS
  \* the projection
  Absent = Absent
  Requests = {r1}
  Domains = {d}
  Policies = {p}
  Values = {v1}
  Mode = "by_type"
  Window = 1
  ReadLimit = 4
  Faults = {"abort", "crash", "commit", "reload", "hand_edit"}
  MaxFaults = 2
  MaxVersions = 2
  MaxClock = 0
  \* the certificate
  NameSets = {"a", "b"}
  OnlyHotReload = FALSE
  MaxRules = 1
  MaxNamings = 1
  MaxTerm = 2
PROPERTIES PendingIsSettled CertificateCatchesUp
CHECK_DEADLOCK FALSE
