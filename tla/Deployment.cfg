SPECIFICATION Spec
CONSTANTS
    SinkOrder <- TwoSinks
    Sources <- ExampleSources
    Revokes = TRUE
    MaxPending = 2
    MaxFaults = 2
INVARIANTS
    CompleteMeansWired
    RecordedBeforeUsed
PROPERTIES
    SurvivesOneInterruption
    AlwaysASource
CHECK_DEADLOCK FALSE
