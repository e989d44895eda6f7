SPECIFICATION FairSpec
CONSTANTS
  a = a
  b = b
  c = c
  x = x
  y = y
  g = g
  h = h
  Node = {a, b, c}
  Group = {g, h}
  Pod = {x, y}
  EmptyGroups = FALSE
  Fault = {"api", "kubectl"}
INVARIANTS
  DrainedOnSuccess
  OnlyRequested
PROPERTIES
  EvictedOnlyOnce
  ImplementsReplacement
  CommandEnds
CHECK_DEADLOCK FALSE
