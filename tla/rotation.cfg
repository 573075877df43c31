SPECIFICATION RotationSpec
CONSTANTS
  ra = ra
  rb = rb
  rc = rc
  m1 = m1
  r1 = r1
  r2 = r2
  c1 = c1
  c2 = c2
  Requests = {r1, r2}
  Configs <- AllConfigs
  Convs = {c1}
  Models = {m1}
  NoConv = NoConv
  NoModel = NoModel
  Chat = {rb}
  NoAggregate = NoAggregate
  NoRelay = NoRelay
  MaxRequests = 3
  MaxEdits = 1
SYMMETRY RequestSymmetry
INVARIANTS FairShare ConversationKeepsMember
PROPERTIES FailoverIsThorough FailoverFollowsServer
CHECK_DEADLOCK FALSE
