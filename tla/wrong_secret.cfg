CONSTANTS
  Namespaces <- OneNamespace
  SecretNames <- SlashedNames
  Values = {v1, v2, empty}
  Empty = empty
  Absent = absent
  Workers = {w1, w2}
  MaxRequests = 2
  MaxFaults = 0
SPECIFICATION Spec
SYMMETRY Symmetry
CHECK_DEADLOCK FALSE
PROPERTIES OnlyNamedSecretsGo
