SPECIFICATION Spec
CONSTANTS
  Period = 3
  ClockStart = 2
  TimeRange = 32
  Horizon = 3
  MsPerSecond = 2
  MaxLate = 0
  Corrections = {2}
  MaxDelta = 1
  Buttons <- MCButtons
  CtrlStates <- MCCtrlStates
  MaxKeys = 1
  MaxQueue = 1
  MaxPending = 17
INVARIANTS
  SignalPerWord StreamDecodes TimesAddUp KeysOnce ButtonsReported PendingBounded
