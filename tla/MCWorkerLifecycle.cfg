CONSTANTS
  Process = {w1, w2}
  Stopper = {s1, s2}
  Attempts = 2
  StopDuringRelaunch = FALSE
  LoseWhenAsked = FALSE
  DisturbEnd = FALSE
  UnreliableArchive = {"finalizer"}
  MaxDeaths = 2
  MaxCrashes = 1
  MaxRetries = 1
SPECIFICATION LiveSpec
INVARIANTS IInv RunningIsRecorded StopsAreMarked
PROPERTIES TombstoneStays StopsFinish RecoverySettles
CHECK_DEADLOCK FALSE
