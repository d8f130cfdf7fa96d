SPECIFICATION FairSpec
INVARIANTS NothingIsLeftBehind
PROPERTIES WorkIsCounted WorkEnds
CHECK_DEADLOCK FALSE
