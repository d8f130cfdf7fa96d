\* two runs at a time, without end, compete for two workers; no resumes
SPECIFICATION LoadSpec
CONSTANTS
  Runs = {r1, r2}
  Workers = {w1, w2}
  Servers = {api}
  Clis = {}
  NoOne = NoOne
  QueueMode = TRUE
  MaxAttempt = 1
PROPERTIES QueuedIsClaimed ExpiredIsTakenBack
CHECK_DEADLOCK FALSE
