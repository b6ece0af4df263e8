------------------------------ MODULE MCSolver ------------------------------
(***************************************************************************)
(* A small factory for Solver, after the fixture bundle: ore is smelted    *)
(* into ingots and the byproduct slag; ingots are pressed into plates, or  *)
(* mixed with slag into fuel; generators burn fuel.                        *)
(***************************************************************************)
EXTENDS Solver

CONSTANTS ore, ingot, slag, plate, fuel, power, mine, smelt, press, mix, burn

MCItemIds == <<ore, ingot, plate, slag, fuel>>
MCTopologicalItems == <<ore, ingot, slag, plate, fuel>>
MCRecipes == {mine, smelt, press, mix, burn}
MCGoods == {ore, ingot, slag, plate, fuel, power}
MCPrimary == mine :> ore @@ smelt :> ingot @@ press :> plate @@ mix :> fuel @@ burn :> power

Rates(f) == [i \in MCGoods |-> IF i \in DOMAIN f THEN <<f[i], 1>> ELSE <<0, 1>>]

MCMakes == mine :> Rates(ore :> 1) @@ smelt :> Rates(ingot :> 1 @@ slag :> 1)
           @@ press :> Rates(plate :> 1) @@ mix :> Rates(fuel :> 1) @@ burn :> Rates(power :> 2)
MCTakes == mine :> Rates(<<>>) @@ smelt :> Rates(ore :> 1) @@ press :> Rates(ingot :> 1)
           @@ mix :> Rates(ingot :> 1 @@ slag :> 2) @@ burn :> Rates(fuel :> 1)
MCDraw == [r \in MCRecipes |-> IF r = burn THEN <<0, 1>> ELSE <<1, 1>>]
MCFloor == <<1, 4>>

Entry(i, m, t) == [item |-> i, mode |-> m, share |-> 1, paused |-> FALSE, target |-> t,
                   reserve |-> FALSE]
Unbounded(i) == Entry(i, "guaranteed", Inf)

Lists == { <<Unbounded(power), Unbounded(plate), Unbounded(ingot)>>,
           <<Unbounded(ingot), Unbounded(power), Unbounded(fuel), Unbounded(plate)>>,
           <<Unbounded(power), Entry(plate, "share", Inf), Entry(fuel, "share", Inf)>>,
           <<Unbounded(fuel), Unbounded(plate), Unbounded(ore), Unbounded(power)>> }

Machines == { [r \in MCRecipes |-> <<1, 1>>],
              [r \in MCRecipes |-> IF r \in {press, mix} THEN <<2, 1>> ELSE <<1, 1>>],
              [r \in MCRecipes |-> IF r \in {mine, smelt} THEN <<2, 1>> ELSE <<1, 1>>] }

Reserves == { [i \in MCGoods |-> <<0, 1>>],
              [i \in MCGoods |-> IF i = ingot THEN <<1, 2>> ELSE <<0, 1>>] }

\* Ore has no cap in reach; nothing consumes plates.
Tags == {t \in [{ore, ingot, slag, plate, fuel} -> {"EMPTY", "FLOWING", "FULL"}] :
            t[ore] # "FULL" /\ t[plate] # "EMPTY"}

MCWorlds == [units : Machines, live : {MCRecipes}, priority : Lists, reserve : Reserves,
             tag : Tags, grid : {<<1, 1>>, <<20, 1>>}]
=============================================================================
