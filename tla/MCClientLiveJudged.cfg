\* A resubscription after frames were lost during a catch-up.
CONSTANTS
  Channel = {x}
  QUEUED_FRAMES = 1
  BUFFERED_FRAMES = 1
  PullChanges = 1
  MaxHead = 4
  MaxEvents = 2
SPECIFICATION Spec
INVARIANT FramesNotJudged
CHECK_DEADLOCK FALSE
