CONSTANTS
  Files = {f1, f2}
  Crlf = {f2}
  Procs = {api}
  NoOne = NoOne
  Leases = FALSE
  MaxAttempt = 3
  MaxEdits = 2
SYMMETRY Symmetry
SPECIFICATION Spec
CHECK_DEADLOCK FALSE
INVARIANTS JournalCoversRepo AppliedMeansLanded UncertainMeansAsked
PROPERTIES PromotedOnce NeverRerun EditsLostOnlyInWindow
