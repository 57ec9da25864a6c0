SPECIFICATION RouteSpec
CONSTANTS
  Names = {1, 2}
  RouteHosts = {h1, h2}
  Weights = {1}
  Absent = Absent
  EditKinds = {"domain", "hosts"}
  MaxEdits = 2
INVARIANTS IndexIsLinearScan
