SPECIFICATION FairSpec
CONSTANTS
  g = g
  h = h
  Group = {g, h}
  Roomy = {h}
  Newest = 1
  Fault = {"crash", "api", "disk"}
INVARIANTS
  AlwaysResumable
PROPERTIES
  CatchesUp
CHECK_DEADLOCK FALSE
