SPECIFICATION Spec
CONSTANTS
    MaxVersion = 3
    MaxReads = 5
    AfterRelease = 2
    Every = 4
    PerUnit = 2
    MaxClock = 7
    Unlock <- MCUnlock
    Newcomer = "n"
    MaxIntents = 2
    Nobody = Nobody
INVARIANTS
    PollsOn
    CrankHolds
    AskedHolds
PROPERTIES
    NoJump
CHECK_DEADLOCK FALSE
