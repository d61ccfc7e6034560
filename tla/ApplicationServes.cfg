CONSTANT Requests = {r1}
SPECIFICATION Spec
INVARIANT StartedServes
CHECK_DEADLOCK FALSE
