\* Every chain of three compiles of a small project, slot lists, bindings.
CONSTANTS
  Null = Null
  Scalar <- Scalars
  Project <- Projects
  MaxCompiles = 3
  MaxCrashes = 1
SPECIFICATION Spec
INVARIANTS Served Readable NothingForgotten UpdatedInPlace
CHECK_DEADLOCK FALSE
