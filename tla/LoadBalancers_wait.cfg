SPECIFICATION Spec
CONSTANTS
  s = s
  t = t
  p = p
  q = q
  Service = {s, t}
  Port = {p, q}
  Retries = 1
  ChanSize = 1
  Fault = {"api"}
SYMMETRY Symmetry
INVARIANTS
  ServedOnSuccess
  NoStragglers
  NeverStuck
CHECK_DEADLOCK FALSE
