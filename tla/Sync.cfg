SPECIFICATION FairSpec
CONSTANTS
    Spends = {1, 2}
    Flushes = {3}
    None = None
    MaxReads = 2
    MaxEvents = 2
INVARIANTS
    SpendsCounted
PROPERTIES
    KeepsItsPromise
    NeverGoesBack
    EverySpendSettles
CHECK_DEADLOCK FALSE
