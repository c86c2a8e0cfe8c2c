SPECIFICATION Spec
CONSTANTS
    OtherAddrs = {"OLD"}
    Sources = {"provider"}
    Founders = {"founder"}
    Inflows = {20}
    Draws = {2}
    PolicyChoices = {}
    Registrations <- MCMoveOpsToFounder
    MaxInflows = 1
    MaxPaid = 2
    MaxGovOps = 1
    StartSteps = {17}
INVARIANT FounderHardCap
CHECK_DEADLOCK FALSE
