SPECIFICATION Spec
CONSTANTS
    SinkOrder <- AllSinks
    Sources <- ExampleSources
    Revokes = FALSE
    MaxPending = 3
    MaxFaults = 2
INVARIANT ResumesFromCheckpoint
CHECK_DEADLOCK FALSE
