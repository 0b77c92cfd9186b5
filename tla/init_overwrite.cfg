CONSTANTS
  Runs = {r1, r2}
  Threshold = 1
  MaxStops = 0
  MaxFaults = 0
SPECIFICATION Spec
CHECK_DEADLOCK FALSE
INVARIANTS OutputHasKeys
