SPECIFICATION EngineSpec
CONSTANTS
    None = None
    Power = "Power"
    Items <- MCItems
    Recipes <- MCRecipes
    Inputs <- MCInputs
    Outputs <- MCOutputs
    Primary <- MCPrimary
    UnlockTier <- MCUnlockTier
    Marks <- MCMarks
    Lane <- MCLane
    StorageCurve <- MCStorageCurve
    QuantumCurve <- MCQuantumCurve
    Requires <- MCRequires
    Horizon = 1
    Stocked <- MCStocked
    StoredCap <- MCStoredCap
    PooledCap <- MCPooledCap
    Asks <- MCAsks
    Laws <- MCLaws
    NoLaw = NoLaw
    RateOf <- MCRateOf
    Starts <- MCStarts
    MaxFineSteps = 4
    CoarseStep = 3
    OfflineMs = 5
    TapMs = 2
    Windows = {0, 1, 3, 5, 7}
    MaxNow = 4
CHECK_DEADLOCK FALSE
INVARIANTS
    AdviceHelps
    ResolveAgrees
