\* Writers of overlapping records through different rows.
CONSTANTS
  ch1 = ch1
  ch2 = ch2
  row1 = row1
  row2 = row2
  Keys = 2
  Channel = {ch1, ch2}
  Source = {row1, row2}
  derives <- Derives
  Work <- WritersWork
  PullChanges = 1
  Tx = {t1, t2}
SPECIFICATION Spec
SYMMETRY Symmetry
INVARIANTS StampNamesContent StampCountsChanges NothingMissed CommitWakes NoStampDeadlock
\* All work may be done and the reader at every head.
CHECK_DEADLOCK FALSE
