SPECIFICATION AccessSpec
CONSTANTS
  r1 = r1
  r2 = r2
  Reqs = {r1, r2}
  MaxSessions = 2
  MaxPasswords = 2
  MaxSecrets = 2
  MaxStep = 3
  Codes = {0, 2}
  MaxGuards = 2
  SessionTtl = 1
  Surfaces <- MCSurfaces
SYMMETRY Symmetric
INVARIANTS AccessInv
PROPERTIES RotationCutsOff
CHECK_DEADLOCK FALSE
