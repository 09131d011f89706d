\* Three mutations, one prerequisite key, batches of at most two, two server
\* transactions.
CONSTANTS
  MaxMutations = 3
  PushMutations = 2
  Key = {k}
  Tx = {t1, t2}
  Lossy = FALSE
SPECIFICATION Spec
SYMMETRY Symmetry
INVARIANTS ExactlyOnce OutcomeAgreement NeverWedged FrozenBatch LifecycleOrder SequenceOrder StableReceipt
\* The bound on mutations lets everything settle and the system rest.
CHECK_DEADLOCK FALSE
