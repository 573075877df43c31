SPECIFICATION LiveSpec
CONSTANTS
  p1 = p1
  p2 = p2
  l1 = l1
  i1 = i1
  i2 = i2
  i3 = i3
  Procs = {p1, p2}
  Legacy = {l1}
  Ids = {i1, i2, i3}
  NoProc = NoProc
  NoId = NoId
  LegacyReplaced = FALSE
  MaxBirth = 2
INVARIANTS MutualExclusion
PROPERTIES ReclaimsOnlyOrphans ImplementsMutex NeverWedged
