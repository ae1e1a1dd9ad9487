\* Programs stop for good when Bluetooth cannot start, and where a bound ends.
CONSTANTS
  Chosen <- MCChosen
  Wrap = 8
  QueueSize = 4
  PoolSize = 4
  Period = 4
  WorkTime = 1
  MaxHeld = 8
  HighWater = 5
  MaxDrift = 2
  RingSize = 2
  FifoChunk = 2
  PullChunk = 1
  MaxBytes = 4
  MaxCount = 3
  TableSizes = {2, 4}
  MaxAngle = 8
  ClickStep = 1
  SweepStep = 2
  Second = 8
  Refresh = 3
  MaxElapsed = 30
  CycleWrap = 4
SPECIFICATION Spec
CHECK_DEADLOCK FALSE
INVARIANT EventPostsCount
