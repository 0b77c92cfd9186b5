CONSTANTS
  Runs = {r1, r2, r3}
  Threshold = 1
  MaxStops = 2
  MaxFaults = 2
SPECIFICATION Spec
CHECK_DEADLOCK FALSE
INVARIANTS TypeOK DoneMeansHealthy KeysKept
