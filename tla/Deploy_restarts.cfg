SPECIFICATION Spec
CONSTANTS
  a = a
  b = b
  c = c
  d = d
  e = e
  Instance = {a, b, c, d, e}
  Other = {}
  Capacity = 1
  MaxSize = 1
  Fault = {"crash", "api", "read", "instance"}
  MaxRetries = 0
  WavePolls = 1
  WaveSize = 10
  DetachBatch = 1
  TerminateBatch = 2
  Operator = {"ignore", "remove", "apply"}
  DesiredBound = 2
SYMMETRY Symmetry
INVARIANTS
  NoWorkloadRemoved
CHECK_DEADLOCK FALSE
