CONSTANTS
  Clones = {a, b}
  Http = {a}
  MaxCommits = 4
  MaxTrouble = 1
  Habits = {}
SPECIFICATION FairSpec
INVARIANTS TypeOK RefsResolve PushedStays 
PROPERTIES PushesItsBranch 
CHECK_DEADLOCK FALSE
