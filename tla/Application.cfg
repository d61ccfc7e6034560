CONSTANT Requests = {r1, r2, r3, r4}
SPECIFICATION FairSpec
INVARIANTS TypeOK ServedByLive
PROPERTY SignalEnds
CHECK_DEADLOCK FALSE
