SPECIFICATION Spec
CONSTANTS
    SeedAt = 4096
    MaxExpansions = 3
    MaxIterations = 5
    BracketDen = 64
    TolNum = 1
    TolDen = 16
    Top = 7
    Readings = {1, 4, 6, 7, 12, 100000}
    Bases = {1, 2, 3, 6}
    CapAt <- MCCapAt
    CostOf <- MCCostOf
    Early = 1
    Late = 3
    Tiers = 3
    Overrun = 2
    Whole = 32
    CapFloor = 32
    CapCeiling = 512
    MaxTurns = 24
    PrecisionDen = 50
    One = 20
    Grids <- MCGrids
    Bundles <- MCBundles
    Needs <- MCNeeds
    Miss <- MCMiss
    Runaway <- MCRunaway
    AuthoredCaps = {32, 100}
    Gates <- MCGates
    TierTargets <- MCTargets
    Reports <- MCReports
    Limit = 2
    MaxDead = 2
    TierBand = 1
    DriftBand = 1
    NoReport = NoReport
    Recipes = {"a", "b", "c"}
    LiveFrom <- MCLiveFrom
    Requires <- MCRequires
    AuthoredOrder <- MCOrder
    Reservable = {"a"}
    MachinePrice <- MCMachinePrice
    LevelPrice <- MCLevelPrice
    MaxLevel = 1
    MaxMoney = 5
    MaxOwned = 5
    MaxTier = 2
    Income = 2
    Patience = 2
INVARIANTS
    SearchFinds
    ReportsPlay
    EmitsOnePair
PROPERTIES
    GateTells
    DecisionsSettle
CHECK_DEADLOCK FALSE
