\* Four small applications of records.
CONSTANTS
  a = a
  b = b
  x = x
  y = y
  Absent = Absent
  Keys = 2
  Value = {a, b}
  Channel = {x, y}
  PullChanges = 1
  Application <- Applications
  MaxMutations = 2
  MaxVersion = 2
SPECIFICATION Spec
INVARIANTS TruthIsServerVersion VisibleIsReplay NoStaleBefore Converged OrderIrrelevant
PROPERTIES OptimismIsShallow CascadeExtends
CHECK_DEADLOCK FALSE
