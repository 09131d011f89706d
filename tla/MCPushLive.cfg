\* Two mutations, one prerequisite key and two server transactions under fairness,
\* and against the abstract specification.
CONSTANTS
  MaxMutations = 2
  PushMutations = 2
  Key = {k}
  Tx = {t1, t2}
  Lossy = TRUE
SPECIFICATION FairSpec
PROPERTIES EventuallySettled NoHeadOfLineBlocking Settles
CHECK_DEADLOCK FALSE
