\* Two channels that advance three times in all, pages of one invalidation.
CONSTANTS
  Channel = {x, y}
  PullChanges = 1
  MaxHead = 2
  MaxPositions = 3
SPECIFICATION FairSpec
INVARIANTS TypeOK NoLostWake
PROPERTIES Streams FollowsHead
\* A released socket whose channels are at the bound rests.
CHECK_DEADLOCK FALSE
