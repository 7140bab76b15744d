\* Orders, items and customers: every join, every scope, every order.
CONSTANTS
    Workloads <- MCWorkloads
    Spelling <- MCSpelling
    Letters <- MCLetters
    NonAdditive <- MCNonAdditive
    SemiAdditive <- MCSemiAdditive
    Additive <- MCAdditive
    Quantity <- MCQuantity

SPECIFICATION Spec

INVARIANTS
    FanTrapsAreReal
    
    JoinsAreJudged
