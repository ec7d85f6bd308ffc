\* The diamond, two callbacks at a time, failing launches, an outside run in
\* the lane of the root, and a sweep that may expire the run meanwhile.
SPECIFICATION FairSpec
CONSTANTS
  None = None
  Dispatcher = Dispatcher
  a = a
  b = b
  c = c
  d = d
  w1 = w1
  w2 = w2
  Module = {a, b, c, d}
  Dep <- Diamond
  Archived = {}
  Busy = {a}
  Worker = {w1, w2}
  Posts = {"running","succeeded","failed"}
  Requests = {"expire"}
  Prompt = TRUE
  MaxRestarts = 0
  MaxRequests = 0
INVARIANT SuccessIsComplete
PROPERTIES EveryModuleSettles VerdictIsReached
CHECK_DEADLOCK FALSE
