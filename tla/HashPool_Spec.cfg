CONSTANTS
  Workers = {w1, w2, w3}
  MaxJobs = 4
SPECIFICATION Spec
INVARIANTS TypeOK EachJobOnce BoundedOvertaking
PROPERTIES EveryHashComputed StopReturnsWhenAwake
