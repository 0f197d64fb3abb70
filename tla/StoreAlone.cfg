CONSTANTS
  Conns = {c1}
  Rows = {r1, r2}
  Tags = {t1}
  MaxFiles = 2
  MaxSize = 5
  MaxAppend = 2
SYMMETRY Interchangeable
SPECIFICATION AllSpec
INVARIANTS HeadIsSerial
