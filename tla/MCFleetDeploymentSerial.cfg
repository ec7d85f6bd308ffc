CONSTANTS
  p1 = p1  p2 = p2  a1 = a1  a2 = a2   g1 = g1
  x = x  y = y  w1 = w1  w2 = w2
  None = None
  Pipeline = {p1, p2}
  Agent = {a1, a2}
  Group = {g1}
  Component = {x, y}
  Online = {}
  Configs <- OneEach
  Worker = {w1}
  Revertible = {"active"}
  Listed = {a1}
  MaxRows = 4
  MaxChanges = 0
  MaxRestarts = 1
SPECIFICATION Spec
SYMMETRY Symmetry
INVARIANTS TypeOK OneActive CollisionFree TargetsExist NothingIsUndeployed
CHECK_DEADLOCK FALSE
