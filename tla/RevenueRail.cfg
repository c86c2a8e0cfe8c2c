SPECIFICATION Spec
CONSTANTS
    OtherAddrs = {"OLD"}
    Sources = {"provider"}
    Founders = {"founder"}
    Inflows = {0, 7, 39}
    Draws = {1}
    PolicyChoices <- MCPolicyChoices
    Registrations <- MCRegistrations
    MaxInflows = 2
    MaxPaid = 1
    MaxGovOps = 3
    StartSteps = {6, 14, 16, 17}
INVARIANTS
    TypeOK
    EtherInFlight
    SinkBooksBalance
    HistoryMatchesInflows
    TreasuryFloorInHistory
    EveryWeiRouted
PROPERTIES
    WiringLocked
    ImplementsLedger
CHECK_DEADLOCK FALSE
