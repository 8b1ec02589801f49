SPECIFICATION Spec
CONSTANTS
  t1 = t1  t2 = t2  t3 = t3
  Nobody = Nobody
  Tasks = {t1, t2, t3}
  Requests <- SetRequests
  Initial <- MCInitial
  StepPct = 50
  MinQueueCap = 2
  MaxQueueCap = 6
  DebugAssertions = TRUE
INVARIANT ConsistentPair
CHECK_DEADLOCK FALSE
