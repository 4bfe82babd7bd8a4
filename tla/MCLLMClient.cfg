SPECIFICATION Spec
CONSTANTS
    Listings = {l1, l2, l3}
    ClassifyConcurrency = 2
    SummaryConcurrency = 2
SYMMETRY InterchangeableListings
INVARIANTS TypeOK SilenceIsDegraded UnloggedIsAFailure FallbackIsEarned AskedOnce
PROPERTIES ImplementsOutcomes
CHECK_DEADLOCK FALSE
