SPECIFICATION Spec
CONSTANTS
    Endpoints = 4
    Accepting = {2, 3}
    Refusing = {4}
    Pushing = {3}
    MaxFaults = 2
    Listed = {"WETH/MON", "MON/USDC"}
    MaxBlock = 3
INVARIANT
    SyntheticOnlyWhenUnavailable
CHECK_DEADLOCK FALSE
