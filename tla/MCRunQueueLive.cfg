\* Fair timers, handlers and runners; launches that fail, cancellations
\* racing callbacks; one slot for two runs.
SPECIFICATION FairSpec
CONSTANTS
  None = None
  lane1 = lane1
  lane2 = lane2
  c1 = c1
  c2 = c2
  w1 = w1
  w2 = w2
  p1 = p1
  p2 = p2
  Lane = {lane1}
  Byoc = {}
  Routable = {lane1}
  Creator = {c1}
  Worker = {w1, w2}
  Poller = {p1}
  Kinds = {"cascade","envroot"}
  Requests = {"cancel","outputs"}
  Faults = {"refused","lost"}
  Patient = TRUE
  MaxRuns = 2
  MaxTokens = 1
  MaxConcurrent = 1
  MaxRestarts = 0
PROPERTIES ReadyIsDispatched RunningComesToAnEnd
CHECK_DEADLOCK FALSE
