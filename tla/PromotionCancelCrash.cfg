CONSTANTS
  Files = {f1, f2}
  Crlf = {}
  Procs = {api}
  NoOne = NoOne
  Leases = FALSE
  MaxAttempt = 2
  MaxEdits = 0
SYMMETRY Symmetry
SPECIFICATION Spec
CHECK_DEADLOCK FALSE
INVARIANT CrashLeavesNoHalf
