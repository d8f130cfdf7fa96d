CONSTANTS
  Files = {f1}
  Crlf = {f1}
  Procs = {w1, w2}
  NoOne = NoOne
  Leases = TRUE
  MaxAttempt = 2
  MaxEdits = 0
SYMMETRY Symmetry
CONSTRAINT FirstPatch
SPECIFICATION Spec
CHECK_DEADLOCK FALSE
PROPERTIES SettledByItsStarter EndedIsFinal
