\* Warm-up, two concurrent sequences with a retry each, one duplicated datagram.
SPECIFICATION Spec
CONSTANTS
    Count = 2
    Warmup = 1
    Concurrency = 2
    MaxRetries = 1
    CompletedCap = 9
    MaxCopies = 1
    MaxMalformed = 0
INVARIANTS
    TypeOK
    InflightIffAwaiting
    RetriesAgree
    ReportComplete
    CountersHaveCauses
PROPERTIES
    DoneIsFinal
    ImplementsProbeRun
    Termination
