SPECIFICATION Spec
CONSTANTS
  Writers = {w1, w2}
  Rows = {1, 2, 3}
  MaxCrashes = 2
INVARIANTS
  TypeOK
  RowsAscend
  IndexReadable
  AckedKept
PROPERTIES
  RowsOnlyGrow
