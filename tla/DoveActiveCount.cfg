CONSTANTS
    Contracts = {c1, c2}
    Owners = {o1, o2}
    EventTypes = {t1}
    MaxObservations = 5
    MaxActs = 1
SPECIFICATION Spec
CHECK_DEADLOCK FALSE
INVARIANT ActiveCountRight
