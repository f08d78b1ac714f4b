SPECIFICATION Spec
CONSTANTS
  Size = 3
  Byte = {a, b}
  WriteCounts = {1, 2, 4}
  ReadCounts = {0, 1, 2, 3}
  OverCounts = {1, 3, 4}
  PeekOffsets = {0}
  MaxStat = 1
INVARIANTS TypeOK NeverMoreReadable
PROPERTIES FifoSpec
