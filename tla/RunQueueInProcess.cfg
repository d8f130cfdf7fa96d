\* the default deployment: one server that executes runs in its own event loop
SPECIFICATION Spec
CONSTANTS
  Runs = {r1, r2}
  Workers = {}
  Servers = {api}
  Clis = {}
  NoOne = NoOne
  QueueMode = FALSE
  MaxAttempt = 3
INVARIANT OneWriter
CHECK_DEADLOCK FALSE
