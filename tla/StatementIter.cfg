CONSTANTS
  Iters = {i1, i2, i3}
  Results = 3
  MaxRuns = 5
SPECIFICATION IterSpec
INVARIANTS IterTypeOK RowsInOrder NoOrphanCursor
CHECK_DEADLOCK FALSE
