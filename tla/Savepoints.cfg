CONSTANTS
  Keys = {k1, k2}
  Vals = {v1}
  NoRow = NoRow
  DrainLimit = 2
  MaxDepth = 2
  MaxSteps = 10
  Habits = {}
SPECIFICATION Spec
INVARIANTS TypeOK RollbackRestores
PROPERTY ImplementsSql
CHECK_DEADLOCK FALSE
