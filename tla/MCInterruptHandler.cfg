SPECIFICATION FairSpec
CONSTANTS
  Parallel = TRUE
  MaxSignals = 4
\* after Stop both goroutines return: the system may stop
CHECK_DEADLOCK FALSE
INVARIANTS
  WakeupExact
  NoDoubleClose
PROPERTIES
  ImplementsInterrupts
  StatusReturns
  AbortReachesSuite
