CONSTANTS
  Sessions = {s1, s2}
  Rows = {r1}
  MaxCommits = 3
  Habits = {"CommitTogether"}
SPECIFICATION Spec
PROPERTIES TipAdvances
