SPECIFICATION Spec
CONSTANTS
  p = p
  q = q
  Process = {p}
  Newest = 1
  Supported = {1}
  Untabled = {}
  Upstream = {"line"}
  Granted = {{"list"}}
  Options <- Alone
  MaxEdits = 0
  Fault = {}
INVARIANTS
  WaitedOnSuccess
