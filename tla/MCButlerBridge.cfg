\* A token lives three minutes, so that what is left of it passes refresh,
\* margin and expiry in turn. butler-server is down at the start, or goes down
\* later, or both; then three timers are enough for all that may overlap.
SPECIFICATION Spec
CONSTANTS
  None = None
  q1 = q1
  r1 = r1
  Timer = {1, 2, 3}
  Lifetime = 6
  Early = 4
  Margin = 2
  Soon = 1
  Lag = 1
  MaxOutages = 1
  Request = {q1}
  Relay = {r1}
  Travel = 1
  MaxRevocations = 1
INVARIANT TypeOK
PROPERTIES SessionComesBack RelayEndsTogether
CHECK_DEADLOCK FALSE
