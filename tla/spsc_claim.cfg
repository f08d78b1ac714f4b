SPECIFICATION Spec
CONSTANTS
  Size = 4
  Counts = {1, 2, 3, 5}
  MaxWritten = 10
INVARIANTS ReadsInOrder
CHECK_DEADLOCK FALSE
