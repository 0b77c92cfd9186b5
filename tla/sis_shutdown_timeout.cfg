CONSTANTS
  Pings = {p1, p2}
SPECIFICATION Spec
CHECK_DEADLOCK FALSE
INVARIANTS GracefulStop
