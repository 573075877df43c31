SPECIFICATION Spec
CONSTANTS
  l1 = l1
  l2 = l2
  Launchers = {l1, l2}
  None = None
  Other = Other
  Attempts = 2
  MaxStarts = 2
  MaxEvents = 2
INVARIANTS ServiceHolds
PROPERTIES WorkingAppLeftAlone PageServedAgain LaunchersEnd
CHECK_DEADLOCK FALSE
