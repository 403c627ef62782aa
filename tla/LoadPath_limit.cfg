\* Three sources for a table of two; a token every second tick, bursts of two
\* and a half.  Nobody tests, or source 1 does, with one token of burst per
\* limiter and a delay of at most one tick: what Sustainable just allows.
SPECIFICATION PathSpec
CONSTANTS
    Hosts = {1, 2, 3}
    MaxTracked = 2
    TTL = 5
    CleanupInterval = 3
    Unit = 2
    Gain = 1
    TicksPerSecond = 5
    MaxTime = 8
    MaxDatagrams = 4
    Testers = {0, 1}
    Intervals = {2}
    Tenth = 0
    Warmup = 2
    MaxDelay = 1
INVARIANTS
    TypeOK
    TableBounded
    RateHeldAcrossExpiry
    PacedNeverRefused
PROPERTIES
    EvictsOnlyLeastRecent
    IdleForgotten
    ImplementsRateLimiter
