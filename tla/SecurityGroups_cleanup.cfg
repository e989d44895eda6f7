SPECIFICATION FairSpec
CONSTANTS
  t = t
  m = m
  n = n
  Primary = Primary
  Foreign = Foreign
  Tagged = {t}
  Interface = {m, n}
  Retries = 2
  Fault = {"api", "busy", "cni", "other"}
INVARIANTS
  CleanedToTheEnd
  InterfacesFirst
PROPERTIES
  OthersUntouched
  RerunDeletesPrimary
CHECK_DEADLOCK FALSE
