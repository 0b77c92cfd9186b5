CONSTANTS
  Root = root
  Namespaces = {root, n1}
  Keys = {k1}
  CanListNamespaces = TRUE
  CreateSetsDeletable = FALSE
  Workers = {w1, w2}
  Ops = {"create", "delete", "info", "ensureAll", "createNs", "deleteNs"}
  MaxRequests = 4
  MaxFaults = 0
SPECIFICATION Spec
SYMMETRY Symmetry
CHECK_DEADLOCK FALSE
INVARIANTS AcknowledgedHolds EngineLeftMounted
