\* Overlapping polls, failing launches, a restart with crash recovery,
\* runners that post again without awaiting an answer, plans confirmed or
\* discarded, and a byoc lane without a dispatch target whose callers hold
\* tokens.
SPECIFICATION Spec
CONSTANTS
  None = None
  lane1 = lane1
  lane2 = lane2
  c1 = c1
  c2 = c2
  w1 = w1
  w2 = w2
  p1 = p1
  p2 = p2
  Lane = {lane1, lane2}
  Byoc = {lane2}
  Routable = {lane1}
  Creator = {c1}
  Worker = {w1}
  Poller = {p1, p2}
  Kinds = {"manual","envroot"}
  Requests = {"discard","confirm"}
  Faults = {"refused","lost"}
  Patient = FALSE
  MaxRuns = 2
  MaxTokens = 2
  MaxConcurrent = 1
  MaxRestarts = 1
INVARIANT WaitingNeverLaunched
PROPERTY LaneIsHandedOn
SYMMETRY Symmetry
CHECK_DEADLOCK FALSE
