\* Two runs of one lane created while none is active.
SPECIFICATION Spec
CONSTANTS
  None = None
  lane1 = lane1
  lane2 = lane2
  c1 = c1
  c2 = c2
  w1 = w1
  w2 = w2
  p1 = p1
  p2 = p2
  Lane = {lane1}
  Byoc = {}
  Routable = {lane1}
  Creator = {c1}
  Worker = {w1}
  Poller = {p1}
  Kinds = {"envroot"}
  Requests = {}
  Faults = {}
  Patient = TRUE
  MaxRuns = 2
  MaxTokens = 1
  MaxConcurrent = 2
  MaxRestarts = 0
INVARIANT OneActiveRunPerLane
CHECK_DEADLOCK FALSE
