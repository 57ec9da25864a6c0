SPECIFICATION Spec
CONSTANTS
  Absent = Absent
  r1 = r1
  r2 = r2
  Requests = {r1}
  Domains = {d}
  Policies = {p}
  Values = {v1}
  Mode = "by_item"
  Window = 1
  ReadLimit = 4
  Faults = {}
  MaxFaults = 0
  MaxVersions = 3
  MaxClock = 0
INVARIANTS StoredIsApplied
CHECK_DEADLOCK FALSE
