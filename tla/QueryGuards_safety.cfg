CONSTANTS
  MaxHandle = 1
  Window = 1
  DefaultLength = 1
  Sizes = {1, 2}
  Caps = {0, 1, 2}
  MaxTime = 3
  MaxAccepted = 3
SPECIFICATION Spec
INVARIANTS TypeOK RateLimitIsExact BackpressureHolds
