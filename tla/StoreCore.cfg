CONSTANTS
  Conns = {c1, c2}
  Rows = {r1, r2}
  Tags = {}
  MaxFiles = 1
  MaxSize = 9
  MaxAppend = 2
SYMMETRY Interchangeable
SPECIFICATION Spec
INVARIANTS TypeOK HeadIsSerial OneWriter
PROPERTIES FirstReadIsFresh SnapshotIsStable ImplementsAtomicStore
