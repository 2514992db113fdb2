CONSTANTS
  c1 = c1
  c2 = c2
  cl1 = cl1
  cl2 = cl2
  Command <- MCCommand
  Client <- MCClient
  Owner <- MCOwner
  DrainCommand <- MCDrainCommand
  Response = {ok, err}
  CompactAfter = 3
  TornWrites = FALSE
  AdmitInOrder = TRUE
  MaxCrashes = 1
  MaxDrops = 1
SPECIFICATION LiveSpec
INVARIANTS
  IInv
  AtMostOnce
  MemoryOnDisk
  AnswerTruthful
PROPERTIES
  ForgottenOnlyWhenAnswered
  ImplementsOnce
  EventuallySettled
CHECK_DEADLOCK FALSE
