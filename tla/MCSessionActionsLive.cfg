CONSTANTS
  Input <- MCQueue
  Command = {}
  LaneOf <- MCLaneOfQueue
  Keyed <- MCKeyed
  Waking <- MCBeat
  QueueIfBusy <- MCBeat
  Navigator = {}
  Batching = FALSE
  None = None
  MaxInterrupts = 1
  MaxReruns = 1
SPECIFICATION LiveSpec
PROPERTY PromptsSettle
CHECK_DEADLOCK FALSE
