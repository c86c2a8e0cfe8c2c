CONSTANTS
    Contracts = {c1, c2}
    Owners = {o1, o2}
    EventTypes = {t1, "OBSERVER_REGISTERED"}
    MaxObservations = 4
    MaxActs = 1
SPECIFICATION Spec
CHECK_DEADLOCK FALSE
INVARIANTS
    TypeOK
    IndexesAgree
    StatusAgrees
    RegistryAgrees
    EveryEntryCounted
    PagesTileLog
PROPERTIES
    HistoryPreserved
    ImplementsWitness
