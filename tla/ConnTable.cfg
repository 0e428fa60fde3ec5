SPECIFICATION TableSpec
CONSTANTS
  SrcPorts = {1, 3, 4}
  CONNECTION_HASH_SIZE = 2
  Cells = {c1, c2, c3}
  Values = {v1, v2}
  NULL = NULL
SYMMETRY Symmetry
INVARIANTS ChainsSound
PROPERTIES ImplementsMap
CHECK_DEADLOCK FALSE
