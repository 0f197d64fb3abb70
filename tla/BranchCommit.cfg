CONSTANTS
  Sessions = {s1, s2}
  Rows = {r1}
  MaxCommits = 5
  Habits = {}
SPECIFICATION ReconnectSpec
INVARIANTS TypeOK CommitsKeepRows WorkKeepsCommitted
PROPERTIES TipAdvances Answered
