CONSTANTS
  Definitions <- MCDefinitions
  MaxVisits = 2
  max_attempts = 2
  allow_unapproved_writes = FALSE
  LostResponses = TRUE
  MaxCrashes = 2
SPECIFICATION FairSpec
INVARIANTS TypeOK GateHolds
PROPERTIES MadeOnce EndedIsQuiet ComesToRest
CHECK_DEADLOCK FALSE
