SPECIFICATION Spec
CONSTANTS
    Snapshots <- Quotes
    PriceStep = 10
    MinSpreadBps = 8
    MinLiquidity = 750
    MinCapacity = 3000
    MaxSignals = 2
    ScannerFaults = 2
    Requests = 2
    BridgeFaults = 2
    Plans = 2
    ArbFaults = 2
    Polls = 3
    GasPrices = {1, 9}
    HistoryLength = 3
    MinSamples = 3
    GasSpikeMultiplier = 2
    BlockDelay = 5
    MaxTimestamp = 40
    Balances = {100, 85, 60}
    MonitorFaults = 1
    InputTopics = {"spread-signal", "execution-result"}
    Cooldown = 2
    MaxTime = 4
    AlertStops = 1
    MaxConnections = 4
    MaxBlock = 2
    FeedFaults = 3
INVARIANTS
    FeedWatched
    BlockPublishedOnce
    OrientedUntilRebuilt
    SignalTracksMarket
    SuccessMeansMined
    MovedOncePerRead
    OneAlertPerWindow
PROPERTIES
    DrainNeverSilent
CHECK_DEADLOCK FALSE
