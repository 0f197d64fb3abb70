CONSTANTS
  Keys = {1, 2}
  Cells = {0, 1, 2}
  Bases <- SmallBases
  Ours <- SmallOurs
  Theirs <- SmallTheirs
  Indexed = {1}
  Updates <- NewRows
  MaxCommits = 5
  MaxUpdates = 1
  Habits = {}
SPECIFICATION Spec
INVARIANTS TypeOK MergesBoth IndexAgrees AsTold
PROPERTY CommitsAsTold
CHECK_DEADLOCK FALSE
