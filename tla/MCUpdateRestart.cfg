CONSTANTS
  Worker <- MCWorker
  Resident <- MCResident
  Input = {"stop", "job", "prompt", "new"}
  Of <- MCOf
  Creation <- MCCreation
  Urgent <- MCUrgent
  Scheduled <- MCScheduled
  MaxFaults = 1
  MaxCoordinators = 2
SPECIFICATION MCLiveSpec
INVARIANT IInv
INVARIANT NothingLost
INVARIANT RunOnce
INVARIANT CheckpointExact
INVARIANT NoStraggler
PROPERTY UpdateSettles
CHECK_DEADLOCK FALSE
