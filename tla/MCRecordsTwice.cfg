\* One mutation creates a record and updates it.
CONSTANTS
  a = a
  b = b
  x = x
  y = y
  Absent = Absent
  Keys = 1
  Value = {a, b}
  Channel = {x, y}
  PullChanges = 2
  Application <- OnlyTwice
  MaxMutations = 1
  MaxVersion = 2
SPECIFICATION Spec
INVARIANT OptimismRemoved
CHECK_DEADLOCK FALSE
