SPECIFICATION Spec
CONSTANTS
  Scalar <- Scalars
  Null = Null
  h1 = h1
  h2 = h2
  Handle = {h1, h2}
  Application <- Applications
  Found <- Starts
  Channel = {"x"}
  MaxFile = 3
  MaxWork = 1
  MaxCommits = 2
  MaxRestarts = 2
  MaxFaults = 1
SYMMETRY Symmetry
INVARIANTS OneWriter Kept Storable
PROPERTY Moved
