SPECIFICATION Spec
INVARIANTS
    PoliciesOnlyTighten DefinitionsAreSound ServicesAreHeard TimesAreFirst EditsAreExact CommandsAreJudged
    ConversationIsFaithful AssessmentsAddUp
CHECK_DEADLOCK FALSE
