CONSTANTS
  Clients = {c1, c2, c3}
  Nesters = {c1}
  MaxConns = 2
  Unknown = Unknown
SPECIFICATION FairSpec
INVARIANTS TypeOK PoolProgress
PROPERTIES Atomic TransactionEnds
