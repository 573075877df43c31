SPECIFICATION SyncLiveSpec
CONSTANTS
  f1 = f1
  f2 = f2
  d1 = d1
  openai = openai
  custom = custom
  Rollouts = {f1, f2}
  Dbs = {d1}
  Providers = {openai, custom}
  NoProvider = NoProvider
  NoRollout = NoRollout
  Keep = 2
  MaxStamp = 5
  ClockGoesBack = FALSE
  MaxEnv = 3
INVARIANTS EventsKept BackedUp
PROPERTIES SyncedMeansUniform LaterFailureRestores OwnBackupKept Converges
