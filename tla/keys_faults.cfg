CONSTANTS
  Root = root
  Namespaces = {root, n1}
  Keys = {k1}
  CanListNamespaces = FALSE
  CreateSetsDeletable = FALSE
  Workers = {w1, w2}
  Ops = {"create", "delete", "rotate", "namespaces", "list"}
  MaxRequests = 3
  MaxFaults = 1
SPECIFICATION Spec
SYMMETRY Symmetry
CHECK_DEADLOCK FALSE
INVARIANTS TypeOK TruthfulReply
