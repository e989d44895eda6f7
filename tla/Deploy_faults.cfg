SPECIFICATION FairSpec
CONSTANTS
  a = a
  b = b
  c = c
  d = d
  o = o
  Instance = {a, b, c, d, o}
  Other = {o}
  Capacity = 2
  MaxSize = 3
  Fault = {"crash", "api", "disk"}
  MaxRetries = 2
  WavePolls = 1
  WaveSize = 10
  DetachBatch = 1
  TerminateBatch = 2
  Operator = {}
  DesiredBound = 2
INVARIANTS
  TypeOK
  CheckpointsHold
  ZeroDowntime
  OnlyOldCordoned
  RestoredOnSuccess
  MaxSizeRaised
PROPERTIES
  ImplementsReplacement
  InvocationEnds
  ResumesUnlessStranded
CHECK_DEADLOCK FALSE
