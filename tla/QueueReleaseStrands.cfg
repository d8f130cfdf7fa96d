SPECIFICATION Spec
CONSTANTS
  Runs = {r1}
  Workers = {w1, w2}
  Servers = {api}
  Clis = {}
  NoOne = NoOne
  QueueMode = TRUE
  MaxAttempt = 2
PROPERTY OnlyFinishedRunsReleased
CHECK_DEADLOCK FALSE
