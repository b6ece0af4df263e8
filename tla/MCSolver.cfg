SPECIFICATION Spec
CONSTANTS
    ore = ore
    ingot = ingot
    slag = slag
    plate = plate
    fuel = fuel
    power = power
    mine = mine
    smelt = smelt
    press = press
    mix = mix
    burn = burn
    Power = power
    ItemIds <- MCItemIds
    TopologicalItems <- MCTopologicalItems
    Recipes <- MCRecipes
    Primary <- MCPrimary
    Makes <- MCMakes
    Takes <- MCTakes
    Draw <- MCDraw
    ReserveFloor <- MCFloor
    PowerPasses = 4
    Worlds <- MCWorlds
    MaxEvents = 1
CHECK_DEADLOCK FALSE
INVARIANTS
    FlowsHold
    LiftedStays
    LowerCostsOnlyTheFloor
