SPECIFICATION FairSpec

CONSTANTS
    Fresh = {"opportunity-constructor"}
    MaxFaults = 2
    SizePercent = 50
    MinSize = 1
    KellySizes = {2}
    MaxSingleTradePercent = 1
    MaxBridgeExposurePercent = 1
    Capacities = {1, 2, 4}
    MaxSignals = 1

INVARIANTS
    TypeOK
    EveryTradeJustified
    BookedWithinLimit
    RetradedOnlyAfterReplay
    BooksFollowPlans

PROPERTIES
    ImplementsAtLeastOnce
    EveryPlanTraded
    EveryCandidateEvaluated

CHECK_DEADLOCK FALSE
