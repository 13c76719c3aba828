SPECIFICATION Spec
CONSTANTS
  idle = idle
  a = a
  b = b
  urgent = urgent
  input = input
  mutex = mutex
  nil = nil
  Processes <- MCProcesses
  Semaphores <- MCSemaphores
  External <- MCExternal
  MaxPriority = 3
  Priority <- MCPriority
  Idle = idle
  NilPointer = nil
  MaxExcess = 1
  MaxPending = 1
INVARIANTS
  CountsExact
  NoDanglingProcess
PROPERTIES
  ImplementsScheduler
