SPECIFICATION FairSpec
CONSTANTS
  s = s
  p = p
  Service = {s}
  Port = {p}
  Retries = 1
  ChanSize = 1
  Fault = {"api"}
PROPERTIES
  WaitReturns
CHECK_DEADLOCK FALSE
