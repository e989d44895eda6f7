SPECIFICATION Spec
CONSTANTS
  a = a
  b = b
  Instance = {a, b}
  Other = {}
  Capacity = 1
  MaxSize = 1
  Fault = {"api"}
  MaxRetries = 1
  WavePolls = 1
  WaveSize = 10
  DetachBatch = 1
  TerminateBatch = 2
  Operator = {}
  DesiredBound = 2
SYMMETRY Symmetry
INVARIANTS
  OldTerminatedOnSuccess
CHECK_DEADLOCK FALSE
