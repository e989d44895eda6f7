SPECIFICATION Spec
CONSTANTS
  g = g
  h = h
  Group = {g, h}
  Roomy = {h}
  Newest = 1
  Fault = {"api"}
INVARIANTS
  RolledOutOnSuccess
CHECK_DEADLOCK FALSE
