\* Two goroutines over all three tiers, each in-process map holding one entry.
\* A ttl of 0 expires at once in memory and never in Redis.
SPECIFICATION Spec
CONSTANTS
  Keys = {k1, k2}
  EmptyKey = ek
  Values = {v1, v2}
  Clients = {c1, c2}
  MaxEntries = 1
  ConfigTTL = 1
  TTLs = {0, 1}
  UseRedis = TRUE
  MaxTime = 2
  None = None
SYMMETRY Symmetry
INVARIANTS TypeOK SizeBound Coherent
