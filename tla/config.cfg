SPECIFICATION Spec
CONSTANTS
  t1 = t1  t2 = t2  t3 = t3
  Nobody = Nobody
  Tasks = {t1, t2, t3}
  Requests <- MCRequests
  Initial <- MCInitial
  StepPct = 50
  MinQueueCap = 2
  MaxQueueCap = 6
  DebugAssertions = TRUE
INVARIANTS PairInSync SnapshotValid ThresholdBounded
PROPERTY DecayProgress
SYMMETRY TaskSymmetry
CHECK_DEADLOCK FALSE
