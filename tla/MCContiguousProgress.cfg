CONSTANTS
    Start = 1
    Limit = 5
SPECIFICATION FairSpec
INVARIANTS
    NoGapCrossed
    NoDebrisBetweenCalls
PROPERTIES
    MarkReturns
    ImplementsPrefixTracker
