CONSTANTS
  Root = root
  Namespaces = {root, n1}
  Keys = {k1}
  CanListNamespaces = TRUE
  CreateSetsDeletable = FALSE
  Workers = {w1, w2}
  Ops = {"create"}
  MaxRequests = 2
  MaxFaults = 0
SPECIFICATION Spec
SYMMETRY Symmetry
CHECK_DEADLOCK FALSE
INVARIANTS EngineMountedIfNeeded
