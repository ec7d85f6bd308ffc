\* One lane with cascades and user runs, cancellations anywhere, one
\* createModuleRun in flight against everything else.
SPECIFICATION Spec
CONSTANTS
  None = None
  lane1 = lane1
  lane2 = lane2
  c1 = c1
  c2 = c2
  w1 = w1
  w2 = w2
  p1 = p1
  p2 = p2
  Lane = {lane1}
  Byoc = {}
  Routable = {lane1}
  Creator = {c1}
  Worker = {w1}
  Poller = {p1}
  Kinds = {"cascade","envroot"}
  Requests = {"cancel"}
  Faults = {}
  Patient = TRUE
  MaxRuns = 4
  MaxTokens = 1
  MaxConcurrent = 1
  MaxRestarts = 0
INVARIANTS TypeOK PositionsInOrder OneWaitingCascade
PROPERTY ServesLanesInOrder
CHECK_DEADLOCK FALSE
