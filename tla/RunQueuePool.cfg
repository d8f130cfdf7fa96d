\* two workers and an API server in queue mode
SPECIFICATION Spec
CONSTANTS
  Runs = {r1}
  Workers = {w1, w2}
  Servers = {api}
  Clis = {}
  NoOne = NoOne
  QueueMode = TRUE
  MaxAttempt = 3
SYMMETRY WorkersAlike
INVARIANTS LeaseMatchesStatus OneWriter MachineKnowsStatus
PROPERTY ImplementsOwnership
CHECK_DEADLOCK FALSE
