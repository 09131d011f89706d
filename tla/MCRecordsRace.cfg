\* A page with an old deletion arrives after a receipt with a newer child.
CONSTANTS
  a = a
  b = b
  x = x
  y = y
  Absent = Absent
  Keys = 2
  Value = {a, b}
  Channel = {x, y}
  PullChanges = 2
  Application <- OnlyRace
  MaxMutations = 1
  MaxVersion = 3
SPECIFICATION Spec
INVARIANT Converged
CHECK_DEADLOCK FALSE
