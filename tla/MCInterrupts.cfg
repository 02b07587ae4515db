SPECIFICATION Spec
CONSTANTS
  TIMER_VECTOR = 32
  DeviceVectors = {36}
  GenericVectors = {64}
  CHUNK = 2
  FIFO_DEPTH = 3
  TICK_LOG = 2
  LOG_LIMIT = 1
  MAX_RAISED = 3
  MAX_CALLS = 2
INVARIANTS HandlersDoNotNest ConsoleExclusive SerialNotOverrun TicksAccounted
PROPERTIES TickServed LogReturns
CHECK_DEADLOCK FALSE
