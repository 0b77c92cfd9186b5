CONSTANTS
  Root = root
  Namespaces = {root, n1, n2}
  Keys = {k1}
  CanListNamespaces = TRUE
  CreateSetsDeletable = FALSE
  Workers = {w1, w2}
  Ops = {"ensureAll", "listAll", "createNs", "deleteNs"}
  MaxRequests = 2
  MaxFaults = 1
SPECIFICATION FairSpec
CHECK_DEADLOCK FALSE
INVARIANTS ReportSound SweepCovers
PROPERTIES EveryRequestAnswered
