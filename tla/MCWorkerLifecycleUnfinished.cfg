CONSTANTS
  Process = {w1, w2}
  Stopper = {s1}
  Attempts = 2
  StopDuringRelaunch = FALSE
  LoseWhenAsked = TRUE
  DisturbEnd = FALSE
  UnreliableArchive = {s1}
  MaxDeaths = 1
  MaxCrashes = 0
  MaxRetries = 0
SPECIFICATION LiveSpec
PROPERTIES StopsFinish
CHECK_DEADLOCK FALSE
