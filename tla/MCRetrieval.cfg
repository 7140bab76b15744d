SPECIFICATION Spec
CONSTANTS
    Indexed <- MCIndexed
    NameQuestions <- MCNameQuestions
    HitQuestions <- MCHitQuestions
INVARIANTS NamesLeadToOneTable ContextIsBestFirst
CHECK_DEADLOCK FALSE
