SPECIFICATION Spec
CONSTANTS
  p1 = p1  p2 = p2  r1 = r1  s1 = s1  b1 = b1  b2 = b2  b3 = b3  c1 = c1
  Flusher = Flusher
  Nobody = Nobody
  Jobs = {b1, b2, b3, c1}
  JobSpec <- MixedSpec
  Cfg <- OnePermit
  NeuralWarm = TRUE
  KindOrder <- OneKind
  DepthMod = 8
  OverflowChecks = TRUE
  Cancellable = {b1}
  MayShutdown = FALSE
INVARIANTS OneOwner RunsOnce OwnContent
PROPERTY ServiceSpec
