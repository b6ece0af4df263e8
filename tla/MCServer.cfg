SPECIFICATION Spec
CONSTANTS
    Keys = {a, b, c}
    Capacity = 6
    Token = 3
    Refill = 1
    PerSecond = 2
    SweepAbove = 1
    MaxKeys = 2
    SweepEveryMs = 3
    SweepEveryInserts = 2
    MaxClock = 4
    Instances = {i1, i2}
    Files = 2
    Checksums <- MCChecksums
    NoOne = NoOne
    MaxStops = 2
    Requests = {r1, r2, r3}
    Versions = {current, old, gone}
    Current = current
    Unknown = {gone}
    CacheCapacity = 1
    Root = Root
    MaxFailures = 1
INVARIANTS
    RatesHold
    BootsAgree
PROPERTIES
    GetsAnswered
CHECK_DEADLOCK FALSE
