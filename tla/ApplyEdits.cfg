SPECIFICATION Spec
CONSTANTS
  Absent = Absent
  r1 = r1
  r2 = r2
  Requests = {r1, r2}
  Domains = {d}
  Policies = {p}
  Values = {v1}
  Mode = "by_type"
  Window = 1
  ReadLimit = 4
  Faults = {"reload"}
  MaxFaults = 1
  MaxVersions = 3
  MaxClock = 1
SYMMETRY Symmetric
INVARIANTS EditBaseKept StoredIsApplied
PROPERTIES NoLostUpdate
CHECK_DEADLOCK FALSE
