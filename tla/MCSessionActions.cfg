CONSTANTS
  Input <- MCInput
  Command <- MCCommand
  LaneOf <- MCLaneOf
  Keyed = {}
  Waking <- MCInput
  QueueIfBusy = {}
  Navigator <- MCNavigator
  Batching = TRUE
  None = None
  MaxInterrupts = 1
  MaxReruns = 1
SPECIFICATION Spec
INVARIANT IInv
INVARIANT OneDispatch
INVARIANT NavigationHeld
INVARIANT TakenBack
INVARIANT Truthful
PROPERTY Promise
CHECK_DEADLOCK FALSE
