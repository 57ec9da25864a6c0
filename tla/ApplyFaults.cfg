SPECIFICATION Spec
CONSTANTS
  Absent = Absent
  r1 = r1
  r2 = r2
  Requests = {r1, r2}
  Domains = {d}
  Policies = {p}
  Values = {v1}
  Mode = "by_type"
  Window = 1
  ReadLimit = 4
  Faults = {"abort", "crash", "commit", "reload", "hand_edit"}
  MaxFaults = 2
  MaxVersions = 3
  MaxClock = 0
SYMMETRY Symmetric
INVARIANTS Inv RollbackTargetConfirmed
PROPERTIES LifeCycle ImplementsLedger
CHECK_DEADLOCK FALSE
