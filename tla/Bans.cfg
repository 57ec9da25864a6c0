SPECIFICATION Spec
CONSTANTS
  first = first
  mixed = mixed
  Off = Off
  Domains = {d1}
  Namespaces = {n1}
  Identities = {i1, i2}
  Paths = {p1}
  Requests = {r1, r2}
  Generations = {first, mixed}
  Config <- MCConfig
  MaxDomains = 1
  MaxEntries = 2
  Batch = 1
  Cursors = {0}
  Limits = {2}
  MaxClock = 2
  MaxSequence = 2
  MaxIncarnation = 2
SYMMETRY Symmetric
INVARIANTS DerivedIsExact
PROPERTIES EndsOnce BanHolds FreshEvidence
