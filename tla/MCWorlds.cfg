SPECIFICATION Spec
CONSTANTS
    s1 = s1
    s2 = s2
    k1 = k1
    k2 = k2
    Slots = {s1, s2}
    Keys = {k1, k2}
    Ops = {"buy"}
    Bodies <- MCBodies
    Versions = {"v1", "v2", "v3"}
    Published = {"v1", "v2"}
    InitialVersion = "v1"
    Label <- MCLabel
    Rejects <- MCRejects
    Misfits <- MCMisfits
    LogRetention = 1
    IdemRetention = 1
    MaxClock = 3
    MaxBack = 1
    MaxRequests = 3
SYMMETRY Symmetry
INVARIANTS
    ReplayExact
    OnceWithinRetention
    TapCeiling
    AnswersSound
PROPERTIES
    VersionNamesState
