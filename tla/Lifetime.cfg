SPECIFICATION FairSpec
CONSTANTS
  MaxStarts = 2
  MaxLate = 1
INVARIANTS Served
PROPERTIES Quiesces
CHECK_DEADLOCK FALSE
