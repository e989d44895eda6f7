SPECIFICATION FairSpec
CONSTANTS
  p = p
  q = q
  Process = {p, q}
  Newest = 4
  Supported = {1, 2, 3}
  Untabled = {1}
  Upstream = {"line"}
  Granted = {{"list"}}
  Options <- Selected
  MaxEdits = 1
  Fault = {"api", "upgrade", "edit"}
INVARIANTS
  SyncedOnSuccess
  CoreDNSCompatible
PROPERTIES
  NoLostEdits
  Converges
