CONSTANTS
  Input <- MCOne
  Command = {}
  LaneOf <- MCLaneOfOne
  Keyed = {}
  Waking <- MCOne
  QueueIfBusy = {}
  Navigator <- MCNavigator
  Batching = FALSE
  None = None
  MaxInterrupts = 0
  MaxReruns = 0
SPECIFICATION LiveSpec
PROPERTY PromptsAlwaysSettle
CHECK_DEADLOCK FALSE
