SPECIFICATION LiveSpec
CONSTANTS
  MaxGeneration = 2
  MaxCalls = 2
  MaxFaults = 2
INVARIANTS HandledOnce
PROPERTIES NeverBackToOlder CallsAreAnswered
CHECK_DEADLOCK FALSE
