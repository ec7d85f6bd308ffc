CONSTANTS
  p1 = p1  p2 = p2  a1 = a1  a2 = a2   g1 = g1
  x = x  y = y  w1 = w1  w2 = w2
  None = None
  Pipeline = {p1}
  Agent = {a1}
  Group = {g1}
  Component = {x, y}
  Online = {a1}
  Configs <- OneEach
  Worker = {w1, w2}
  Revertible = {"active", "superseded"}
  Listed = {a1}
  MaxRows = 3
  MaxChanges = 1
  MaxRestarts = 0
SPECIFICATION FairSpec
PROPERTIES AgentsConverge
CHECK_DEADLOCK FALSE
