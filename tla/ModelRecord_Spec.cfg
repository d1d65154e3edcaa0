CONSTANTS
  Variables = {x, y}
  Null = Null
  MaxId = 1
  MaxJobs = 3
  MaxTouches = 2
SYMMETRY Symmetry
SPECIFICATION Spec
INVARIANTS TypeOK OneRowPerRecord RowsHoldTogether
PROPERTY RepliesWriteBoundOnly
CHECK_DEADLOCK FALSE
