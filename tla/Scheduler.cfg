SPECIFICATION FairSpec
CONSTANTS
  idle = idle
  a = a
  b = b
  urgent = urgent
  input = input
  mutex = mutex
  nil = nil
  Processes <- MCProcesses
  Semaphores <- MCSemaphores
  External <- MCExternal
  MaxPriority = 3
  Priority <- MCPriority
  Idle = idle
  NilPointer = nil
  MaxExcess = 2
  MaxPending = 2
INVARIANTS
  TypeOK
  OnePlace
  MostUrgentIsActive
  IdleReady
  NoLostWakeup
  ContextsPreserved
PROPERTIES
  FirstComeFirstServed
  UrgentProcessRuns
