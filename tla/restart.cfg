SPECIFICATION RestartSpec
CONSTANTS
  p1 = p1
  p2 = p2
  i1 = i1
  i2 = i2
  i3 = i3
  Procs = {p1, p2}
  Legacy = {}
  Ids = {i1, i2, i3}
  NoProc = NoProc
  NoId = NoId
  LegacyReplaced = FALSE
  MaxBirth = 2
  Launchers = {p1, p2}
  MaxPolls = 2
SYMMETRY IdSymmetry
INVARIANTS OngoingSyncSurvives
