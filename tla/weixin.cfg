SPECIFICATION Spec
CONSTANTS
  p1 = p1
  p2 = p2
  Peers = {p1, p2}
  Inbox <- MCInbox
  Runs = {1, 2}
  Overlap = 1
  History = 1
  LateEnd = FALSE
  MaxFaults = 1
  MaxCuts = 1
INVARIANTS ContactsApart MessagesHandled
PROPERTIES StopEnds
CHECK_DEADLOCK FALSE
