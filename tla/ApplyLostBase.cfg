SPECIFICATION Spec
CONSTANTS
  Absent = Absent
  r1 = r1
  r2 = r2
  Requests = {r1}
  Domains = {d}
  Policies = {p}
  Values = {v1, v2}
  Mode = "by_type"
  Window = 1
  ReadLimit = 4
  Faults = {"abort", "hand_edit"}
  MaxFaults = 2
  MaxVersions = 3
  MaxClock = 0
INVARIANTS EditBaseKept
CHECK_DEADLOCK FALSE
