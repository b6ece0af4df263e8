SPECIFICATION Spec
CONSTANTS
    ore = ore
    plate = plate
    iron = iron
    drill = drill
    mine = mine
    sift = sift
    press = press
    Items <- MCItems
    Lanes <- MCLanes
    LaneOf <- MCLaneOf
    Pools <- MCPools
    MaxMark = 2
    Recipes <- MCRecipes
    PoolOf <- MCPoolOf
    Output <- MCOutput
    RecipeTier <- MCRecipeTier
    InCycle = {}
    Authored <- MCAuthored
    MarkTier <- MCMarkTier
    RateOf <- MCRateOf
    MachineSpent <- MCMachineSpent
    StorageSpent <- MCStorageSpent
    QuantumSpent <- MCQuantumSpent
    StorageCapOf <- MCStorageCap
    QuantumCapOf <- MCQuantumCap
    Milestone <- MCMilestone
    MaxTier = 2
    MaxLevel = 1
    MaxCount = 2
    MaxStacks = 1
    TapDuration = 1
    OfflineCap = 2
    StartTier = 0
    StartMachines <- MCStartMachines
    StartAssigned <- MCStartAssigned
    DefaultRecipe <- MCDefaultRecipe
    StartPriority <- MCStartPriority
    MaxMachines = 2
    MaxRate = 1
    MaxWindow = 3
    MaxNow = 4
INVARIANTS
    NothingFromNothing
    PoolsFit
    StockLegal
PROPERTIES
    BoundIsRefund
    CapsGateMilestones
