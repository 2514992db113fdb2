CONSTANTS
  c1 = c1
  c2 = c2
  cl1 = cl1
  cl2 = cl2
  Command <- MCCommand
  Client <- MCClient
  Owner <- MCOwner
  DrainCommand <- MCDrainCommand
  Response = {ok, err}
  CompactAfter = 3
  TornWrites = TRUE
  AdmitInOrder = TRUE
  MaxCrashes = 2
  MaxDrops = 0
SPECIFICATION Spec
INVARIANT AtMostOnce
CHECK_DEADLOCK FALSE
