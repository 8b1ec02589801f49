SPECIFICATION Spec
CONSTANTS
  p1 = p1  p2 = p2  r1 = r1  s1 = s1  b1 = b1  b2 = b2  b3 = b3  c1 = c1
  Flusher = Flusher
  Nobody = Nobody
  Jobs = {b1, b2, b3}
  JobSpec <- BatchSpec
  Cfg <- OnePermit
  NeuralWarm = FALSE
  KindOrder <- TwoKinds
  DepthMod = 8
  OverflowChecks = FALSE
  Cancellable = {b1}
  MayShutdown = FALSE
INVARIANT BatchedIsAnswered
CHECK_DEADLOCK FALSE
