\* One channel with two disturbances; two connections one after the other.
CONSTANTS
  Channel = {x}
  QUEUED_FRAMES = 1
  BUFFERED_FRAMES = 1
  PullChanges = 4
  MaxHead = 5
  MaxEvents = 2
  MaxConnections = 2
  MaxMutations = 2
  MaxControls = 2
  MaxFaults = 1
SPECIFICATION MCFairSpec
INVARIANTS TypeOK CursorCoversDelivered NothingPassedOver PausedIsQuiet
PROPERTIES CaughtUp Pushed
\* A lane with nothing left to do rests.
CHECK_DEADLOCK FALSE
