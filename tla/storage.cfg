SPECIFICATION Spec
CONSTANTS
  launcher = launcher
  manager = manager
  d1 = d1
  d2 = d2
  Actors = {launcher, manager}
  Dbs <- Order
  Busy = {d1}
  MaxOps = 2
  MaxWrites = 1
  MaxFaults = 2
SYMMETRY ActorSymmetry
PROPERTIES RemovedIsBackedUp ReportsAreTrue UndoOverwritesNothing
CHECK_DEADLOCK FALSE
