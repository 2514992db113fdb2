CONSTANTS
  Process = {w1, w2}
  Stopper = {}
  Attempts = 2
  StopDuringRelaunch = FALSE
  LoseWhenAsked = FALSE
  DisturbEnd = TRUE
  UnreliableArchive = {}
  MaxDeaths = 2
  MaxCrashes = 0
  MaxRetries = 0
SPECIFICATION LiveSpec
PROPERTIES RecoverySettles
CHECK_DEADLOCK FALSE
