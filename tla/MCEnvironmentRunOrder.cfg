\* Any one user request, the sweep, failing launches and a restart, with rows
\* still being inserted when the first poll comes.
SPECIFICATION Spec
CONSTANTS
  None = None
  Dispatcher = Dispatcher
  a = a
  b = b
  c = c
  d = d
  w1 = w1
  w2 = w2
  Module = {a, b, c}
  Dep <- Join
  Archived = {}
  Busy = {}
  Worker = {w1}
  Posts = {"planned","failed"}
  Requests = {"cancel","confirm","expire","runcancel","rundiscard","runconfirm"}
  Prompt = FALSE
  MaxRestarts = 1
  MaxRequests = 1
INVARIANTS TypeOK DependencyOrder SkippedHasCause
SYMMETRY Symmetry
CHECK_DEADLOCK FALSE
