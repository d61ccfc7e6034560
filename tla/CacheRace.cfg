\* Two goroutines that look up one key around its expiry.
SPECIFICATION Spec
CONSTANTS
  Keys = {k1}
  EmptyKey = ek
  Values = {v1}
  Clients = {c1, c2}
  MaxEntries = 1
  ConfigTTL = 1
  TTLs = {0}
  UseRedis = FALSE
  MaxTime = 2
  None = None
INVARIANT RaceFree
