CONSTANTS
  Namespaces <- OneNamespace
  SecretNames <- OneName
  Values = {v1, empty}
  Empty = empty
  Absent = absent
  Workers = {w1, w2}
  MaxRequests = 3
  MaxFaults = 1
SPECIFICATION Spec
SYMMETRY Symmetry
CHECK_DEADLOCK FALSE
INVARIANTS TypeOK DeleteRepeatable
PROPERTIES ImplementsStore
