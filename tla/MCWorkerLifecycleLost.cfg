CONSTANTS
  Process = {w1, w2, w3}
  Stopper = {s1}
  Attempts = 2
  StopDuringRelaunch = TRUE
  LoseWhenAsked = FALSE
  DisturbEnd = FALSE
  UnreliableArchive = {}
  MaxDeaths = 1
  MaxCrashes = 0
  MaxRetries = 0
SPECIFICATION Spec
PROPERTIES TombstoneStays
CHECK_DEADLOCK FALSE
