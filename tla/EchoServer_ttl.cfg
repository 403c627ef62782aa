\* A TTL of one tick, in which a bucket of one token gains half of it.
SPECIFICATION Spec
CONSTANTS
    Hosts = {1}
    MaxTracked = 1
    TTL = 1
    CleanupInterval = 2
    Unit = 2
    Gain = 1
    TicksPerSecond = 1
    MaxTime = 3
    MaxDatagrams = 3
INVARIANTS
    RateIsMaximum
