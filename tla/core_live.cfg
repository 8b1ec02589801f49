SPECIFICATION FairSpec
CONSTANTS
  p1 = p1  p2 = p2  r1 = r1  s1 = s1  b1 = b1  b2 = b2  b3 = b3  c1 = c1
  Flusher = Flusher
  Nobody = Nobody
  Jobs = {b1, r1, s1}
  JobSpec <- LiveSpec
  Cfg <- OnePermit
  NeuralWarm = TRUE
  KindOrder <- TwoKinds
  DepthMod = 8
  OverflowChecks = FALSE
  Cancellable = {r1}
  MayShutdown = TRUE
PROPERTIES CallsEnd PermitsReturn
CHECK_DEADLOCK FALSE
