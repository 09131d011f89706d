\* Two handlers that write the same row.
CONSTANTS
  ch1 = ch1
  ch2 = ch2
  row1 = row1
  row2 = row2
  Keys = 2
  Channel = {ch1, ch2}
  Source = {row1, row2}
  derives <- Derives
  Work <- WritersWork
  PullChanges = 1
  Tx = {t1, t2}
SPECIFICATION Spec
SYMMETRY Symmetry
INVARIANT ConflictsRetried
\* All work may be done and the reader at every head.
CHECK_DEADLOCK FALSE
