SPECIFICATION Spec
CONSTANTS
  s1 = s1
  s2 = s2
  u1 = u1
  p1 = p1
  p2 = p2
  c1 = c1
  c2 = c2
  k1 = k1
  k2 = k2
  r1 = r1
  r2 = r2
  n1 = n1
  n2 = n2
  MaxRetries = 6
  Fault = {"api", "update"}
  MaxCapacity = 25
  Sleep <- SleepValues
  Scheduler = {s1, s2}
  Custom = {"custom"}
  Configurer = {u1}
  Context = {c1, c2}
  Cluster = {k1, k2}
  Call = {p1, p2}
  Given <- FlagValues
  Lifetime = 3
  MaxEKSBuild = 9
  MaxConsecutiveMisses = 3
  Run = {r1, r2}
  Name = {n1, n2}
INVARIANTS
  VerifiedOnSuccess
  PatientOnlyWhenWaiting
  WaitsDocumentedTime
  ScheduledOnSuccess
  ConfiguredOnSuccess
  MeantCluster
  TempFilesRemoved
  WaitsOutlastTokens
  LatestBuildFound
  ChainVerifies
PROPERTIES
  OthersKept
  OwnSecretsSign
CHECK_DEADLOCK FALSE
