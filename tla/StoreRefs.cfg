CONSTANTS
  Conns = {c1, c2}
  Rows = {r1}
  Tags = {t1}
  MaxFiles = 1
  MaxSize = 5
  MaxAppend = 1
SYMMETRY Interchangeable
SPECIFICATION RefsSpec
INVARIANTS OneAppender WriterHasHead
VIEW WhatIsRead
