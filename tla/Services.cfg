SPECIFICATION Spec
INVARIANTS EventsAreHandledOnce
PROPERTIES AccessIsBounded OperatorsWordHolds EffectsAreGranted ExecutionKeepsItsWord
CHECK_DEADLOCK FALSE
