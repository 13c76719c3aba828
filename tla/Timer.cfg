SPECIFICATION Spec
CONSTANTS
  Period = 6
  TimeRange = 16
  MaxFrame = 2
  Horizon = 13
  Delays <- MCDelays
  Semaphores <- MCSemaphores
INVARIANTS
  NeverEarly NotLate
