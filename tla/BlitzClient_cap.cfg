\* A semaphore that binds, and a _completed that is cleared at its second entry.
SPECIFICATION Spec
CONSTANTS
    Count = 2
    Warmup = 2
    Concurrency = 1
    MaxRetries = 1
    CompletedCap = 1
    MaxCopies = 1
    MaxMalformed = 1
INVARIANTS
    PhasesApart
    RecordedOnce
