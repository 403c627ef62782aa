\* The same instance, against what the documentation says of validate-config.
SPECIFICATION BatchSpec
CONSTANTS
    Callers = {1, 2}
    Intervals = {0, 2}
    Tenth = 3
    BucketCount = 7
    Requests <- AllRequests
    Count = 2
    MaxRetries = 1
    MaxAddresses = 2
    Rtts = {1, 5}
    MaxTime = 4
    Files <- Earlier
    NoFile <- Absent
INVARIANTS
    RuntimeValidation
