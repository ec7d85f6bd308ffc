CONSTANTS
  a = a
  b = b
  c = c
  Module = {a, b, c}
  Existing = {a, b}
  Request = {q1, q2}
  Asked <- Lists
  MaxRestarts = 1

SYMMETRY Symmetry
SPECIFICATION Spec
INVARIANTS TypeOK AcyclicDependencies TopologicalSort CountIsRight SearchIsExact
CHECK_DEADLOCK FALSE
PROPERTY NeverMixed
