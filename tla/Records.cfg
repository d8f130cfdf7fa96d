SPECIFICATION Spec
INVARIANTS HistoryIsKept RewardsAddUp
PROPERTIES PeoplesWordStays StorageSurvives
CHECK_DEADLOCK FALSE
