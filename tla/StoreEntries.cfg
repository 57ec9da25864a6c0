SPECIFICATION StoresSpec
CONSTANTS
  \* domain-keyed state: one bucket
  s1 = s1
  s2 = s2
  i1 = i1
  i2 = i2
  i3 = i3
  t1 = t1
  t2 = t2
  k1 = k1
  Slots = {}
  Overflow = overflow
  Identities = {i1, i2, i3}
  Threads = {t1, t2}
  MaxDomains = 1
  MaxEntries = 2
  Ttls = {1, 2}
  MaxClock = 2
  MaxInserts = 3
  \* the file cache
  CacheKeys = {k1}
  Tasks = {t1, t2}
  Lengths = {1, 2}
  HotLength = 1
  MaxSize = 2
  ReadingMax = 1
  WritingMax = 1
  MaxEvict = 2
  Width = 8
  MaxPuts = 3
  MaxLeft = 1
  \* baselines
  Labels = {l1, l2}
  MaxLearners = 1
  Limits = {1, 2}
  MaxAge = 1
  LateEnable = TRUE
  MaxSamples = 4
  MaxDay = 3
  MaxRestarts = 1
SYMMETRY Symmetric
INVARIANTS EarliestIsBound CacheServes
PROPERTIES RefusedOnlyWhenFull StoredNeverShrinks
