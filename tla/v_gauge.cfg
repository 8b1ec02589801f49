SPECIFICATION Spec
CONSTANTS
  p1 = p1  p2 = p2  r1 = r1  s1 = s1  b1 = b1  b2 = b2  b3 = b3  c1 = c1
  Flusher = Flusher
  Nobody = Nobody
  Jobs = {p1, p2, r1, s1}
  JobSpec <- PoolSpec
  Cfg <- OnePermit
  NeuralWarm = FALSE
  KindOrder <- OneKind
  DepthMod = 8
  OverflowChecks = TRUE
  Cancellable = {p1, r1}
  MayShutdown = FALSE
INVARIANT SubmitNeverPanics
CHECK_DEADLOCK FALSE
