----------------------------- MODULE MCEconomy -----------------------------
(***************************************************************************)
(* A small factory for Economy: one lane, one pool of two marks, two       *)
(* recipes that make ore and a third, unlocked later, that makes plate.    *)
(* Machines cost ore (the second twice the first), levels cost ore, the    *)
(* one milestone costs ore, and caps grow with the level and the tier.     *)
(***************************************************************************)
EXTENDS Economy, TLC

CONSTANTS ore, plate, iron, drill, mine, sift, press

MCItems == {ore, plate}
MCLanes == {iron}
MCLaneOf == [i \in MCItems |-> iron]
MCPools == {drill}
MCRecipes == {mine, sift, press}
MCPoolOf == [r \in MCRecipes |-> drill]
MCOutput == mine :> ore @@ sift :> ore @@ press :> plate
MCRecipeTier == mine :> 0 @@ sift :> 1 @@ press :> 0
MCAuthored == mine :> 1 @@ sift :> 2 @@ press :> 3
MCMarkTier == <<0, 1>>
MCRateOf == <<1, 2>>

Ore(n) == ore :> n @@ plate :> 0

MCMachineSpent(p, m, n) == Ore(IF m = 1 THEN <<0, 1, 3>>[n + 1] ELSE 2 * n)
MCStorageSpent(n) == Ore(n)
MCQuantumSpent(n) == Ore(n)
MCStorageCap(i, l, t) == IF i = ore THEN 1 + l ELSE 1
MCQuantumCap(i, l, t) == IF i = ore THEN 1 + l + Least(t, 1) ELSE 0
MCMilestone == <<ore :> 0 @@ plate :> 1, Ore(4)>>

MCStartMachines == drill :> <<1, 0>>
MCStartAssigned == mine :> 1 @@ sift :> 0 @@ press :> 0
MCDefaultRecipe == ore :> mine @@ plate :> press
MCStartPriority == <<plate, ore>>
=============================================================================
