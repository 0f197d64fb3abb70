CONSTANTS
  Keys = {k1}
  Vals = {v1}
  NoRow = NoRow
  DrainLimit = 2
  MaxDepth = 2
  MaxSteps = 7
  Habits = {"ROLLBACK TO a savepoint that nothing was written since"}
SPECIFICATION Spec
PROPERTY ImplementsSql
CHECK_DEADLOCK FALSE
