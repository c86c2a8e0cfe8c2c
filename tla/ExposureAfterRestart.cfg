SPECIFICATION Spec

CONSTANTS
    Fresh = {}
    MaxFaults = 1
    SizePercent = 50
    MinSize = 1
    KellySizes = {1}
    MaxSingleTradePercent = 1
    MaxBridgeExposurePercent = 1
    Capacities = {2}
    MaxSignals = 2

INVARIANT BridgeExposureKept

CHECK_DEADLOCK FALSE
