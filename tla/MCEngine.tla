------------------------------ MODULE MCEngine ------------------------------
(***************************************************************************)
(* What the engine makes of the solver's answers: the advice, from a       *)
(* report, and the loop, from rates, side by side. A behaviour is one of   *)
(* them, chosen at the start, while the other keeps its initial state.     *)
(***************************************************************************)
EXTENDS Advice, Resolve, TLC

-----------------------------------------------------------------------------
(* For the advice: a mine, a smelter with a byproduct, a press that takes  *)
(* it and a generator; a second smelter recipe and a locked one. The       *)
(* reports are those a solve can give: a machine runs that is built, fed   *)
(* and not held, nothing falls below empty, nothing grows past its cap.    *)

MCItems == {"ore", "bar", "scrap", "brick"}
MCRecipes == <<"mine", "smelt", "cast", "press", "burn", "quarry">>
MCInputs == "mine" :> <<>> @@ "smelt" :> <<"ore">> @@ "cast" :> <<"ore">> @@ "press" :> <<"scrap", "bar">>
            @@ "burn" :> <<"ore">> @@ "quarry" :> <<>>
MCOutputs == "mine" :> <<"ore">> @@ "smelt" :> <<"bar", "scrap">> @@ "cast" :> <<"bar">> @@ "press" :> <<"brick">>
             @@ "burn" :> <<>> @@ "quarry" :> <<"ore">>
MCPrimary == "mine" :> "ore" @@ "smelt" :> "bar" @@ "cast" :> "bar" @@ "press" :> "brick"
             @@ "burn" :> "Power" @@ "quarry" :> "ore"
MCUnlockTier == "mine" :> 0 @@ "smelt" :> 0 @@ "cast" :> 1 @@ "press" :> 1 @@ "burn" :> 0 @@ "quarry" :> 2

Cost(i, n) == [item |-> i, amount |-> n]
Mark(tier, price) == [unlockTier |-> tier, price |-> price]
Smelters == <<Mark(0, <<Cost("ore", 3)>>), Mark(1, <<Cost("brick", 3)>>)>>
MCMarks == "mine" :> <<Mark(0, <<Cost("bar", 2)>>)>> @@ "quarry" :> <<Mark(0, <<Cost("bar", 2)>>)>>
           @@ "smelt" :> Smelters @@ "cast" :> Smelters
           @@ "press" :> <<Mark(0, <<Cost("bar", 1), Cost("scrap", 3)>>)>>
           @@ "burn" :> <<Mark(0, <<Cost("brick", 1), Cost("bar", 3)>>)>>
MCLane == [i \in MCItems |-> "lane"]

\* Level 0 holds two, level 1 four; the quantum storage of the lane adds one.
MCStorageCurve == 0 :> [cap |-> 2, price |-> <<Cost("bar", 3)>>] @@ 1 :> [cap |-> 4, price |-> None]
MCQuantumCurve == 0 :> [cap |-> 0, price |-> <<Cost("brick", 2)>>] @@ 1 :> [cap |-> 1, price |-> None]
MCRequires == <<Cost("bar", 3), Cost("brick", 2)>>

Levels == {<<[i \in MCItems |-> 0], 0>>, <<[i \in MCItems |-> 1], 1>>,
           <<[i \in MCItems |-> IF i = "bar" THEN 1 ELSE 0], 0>>}
Active(bar) == "ore" :> "mine" @@ "bar" :> bar @@ "scrap" :> None @@ "brick" :> "press" @@ Power :> "burn"

Entry(i, r) == [item |-> i, limitedBy |-> r]
Limits(bar) ==
    {<<TRUE, <<Entry(Power, "mine"), Entry("bar", bar)>>>>, <<TRUE, <<Entry("bar", None)>>>>,
     <<FALSE, <<Entry("bar", "mine")>>>>, <<FALSE, <<Entry(Power, None), Entry("brick", bar)>>>>,
     <<FALSE, <<Entry("brick", None)>>>>, <<FALSE, <<Entry("ore", "mine"), Entry("brick", "press")>>>>}

RateSets(stock, cap, made, used) ==
    {[i \in MCItems |-> IF i \in made \cap used THEN f[i] ELSE IF i \in made THEN 1 ELSE IF i \in used THEN -1 ELSE 0] :
       f \in {f \in [made \cap used -> {-1, 0, 1}] :
                \A i \in made \cap used : /\ stock[i] = 0 => f[i] >= 0
                                          /\ stock[i] >= cap[i] => f[i] <= 0}}

MakesOf(rs) == UNION {ToSet(MCOutputs[r]) : r \in rs}
TakesOf(rs) == UNION {ToSet(MCInputs[r]) : r \in rs}
May(stock, cap, runs) ==
    /\ \A i \in TakesOf(runs) : stock[i] > 0 \/ i \in MakesOf(runs)
    /\ \A i \in MakesOf(runs) : stock[i] < cap[i] \/ i \in TakesOf(runs)

CapAt(level) == [i \in MCItems |-> MCStorageCurve[level[1][i]].cap + MCQuantumCurve[level[2]].cap]
Built(tier, bar) == SUBSET ({"mine", bar} \cup (IF tier > 0 THEN {"press"} ELSE {"burn"}))
Flags(rs) == [r \in ToSet(MCRecipes) |-> r \in rs]

Report(tier, bar, level, cap) ==
    \E stock \in {s \in [MCItems -> 0..5] : \A i \in MCItems : s[i] \in {0, 1, cap[i]}},
       units \in Built(tier, bar) :
      \E runs \in {rs \in SUBSET units : May(stock, cap, rs)} :
         \E net \in RateSets(stock, cap, MakesOf(runs), TakesOf(runs)),
            reserved \in {{}, {"bar"}}, limits \in Limits(bar) :
            w = [tier |-> tier, active |-> Active(bar), storage |-> level[1],
                 quantum |-> [l \in {"lane"} |-> level[2]], stock |-> stock,
                 bound |-> [i \in MCItems |-> IF i = "brick" THEN level[2] ELSE 0],
                 reserved |-> reserved, units |-> Flags(units), runs |-> Flags(runs), net |-> net,
                 brownout |-> limits[1], entries |-> limits[2]]

AnyReport ==
    \E t \in {<<0, "smelt">>, <<1, "smelt">>, <<1, "cast">>}, level \in Levels :
        Report(t[1], t[2], level, CapAt(level))

-----------------------------------------------------------------------------
(* For the loop: ore, and plates that are made from it or not. Caps are    *)
(* two ticks' production and more, so that events stand apart from the     *)
(* EPSILON_MS after one, and a window of four may hold several.            *)

MCStocked == <<"ore", "plate">>
MCStoredCap(i, t) == 2
MCPooledCap(i, t) == 2 + 2 * t
MCAsks == << [ore |-> 2, plate |-> 0], [ore |-> 0, plate |-> 12] >>

\* An item with no stock does not fall and one at its cap does not grow. The ore may be made,
\* come and go at zero, or be drained when full; the plates may grow, fall or wait for ore; taps
\* lift the ore, and the tier's new use drains it.
Own(e, f, u) == "EMPTY" :> e @@ "FLOWING" :> f @@ "FULL" :> u
Law(ore, plate, starved, tapped, grown) ==
    [ore |-> ore, plate |-> plate, starved |-> starved, tapped |-> tapped, grown |-> grown]
MCLaws == {Law(Own(1, 1, 0), Own(0, -1, 0), 0, 0, -1), Law(Own(1, -1, 0), Own(1, 1, 0), -1, 1, 0),
           Law(Own(0, 1, -1), Own(1, -1, 0), 0, 1, 0)}

Within(s, n) == IF s = "EMPTY" THEN Max({n, 0}) ELSE IF s = "FULL" THEN Min({n, 0}) ELSE Max({-1, Min({n, 1})})
MCRateOf(l, tag, tier, tapped) ==
    [ore |-> Within(tag["ore"], l.ore[tag["ore"]] + (IF tapped THEN l.tapped ELSE 0)
                                + (IF tier > 0 THEN l.grown ELSE 0)),
     plate |-> Within(tag["plate"], IF tag["ore"] = "EMPTY" THEN l.starved ELSE l.plate[tag["plate"]])]

\* Bound stock waits only beside full quantum storage.
World(ore, plate, bound) ==
    [stored |-> [ore |-> Min({ore, 2}), plate |-> Min({plate, 2})],
     quantum |-> [ore |-> Max({ore - 2, 0}), plate |-> Max({plate - 2, 0})],
     bound |-> [ore |-> bound[1], plate |-> bound[2]],
     tier |-> 0, stacks |-> 0, expiry |-> -1, at |-> 0]
MCStarts == {World(0, 2, <<0, 0>>), World(1, 4, <<0, 2>>), World(4, 4, <<3, 0>>)}

-----------------------------------------------------------------------------

VARIABLE part

engine == <<part, vars, resolving>>

\* Nothing built, nothing stored.
Quiet == [tier |-> 0, active |-> Active("smelt"), storage |-> [i \in MCItems |-> 0],
          quantum |-> [l \in {"lane"} |-> 0], stock |-> [i \in MCItems |-> 0],
          bound |-> [i \in MCItems |-> 0], reserved |-> {}, units |-> Flags({}), runs |-> Flags({}),
          net |-> [i \in MCItems |-> 0], brownout |-> FALSE, entries |-> <<>>]

EngineInit ==
    /\ part \in {"advice", "resolve"}
    /\ IF part = "advice" THEN AnyReport /\ ReportOK ELSE w = Quiet
    /\ Start
    /\ ResolveInit(part = "resolve")
    /\ part = "advice" => factory = Settle(CHOOSE s \in Starts : TRUE)

AdviceSteps == part = "advice" /\ Next /\ UNCHANGED <<part, resolving>>
ResolveSteps == part = "resolve" /\ ResolveNext /\ UNCHANGED <<part, vars>>

EngineSpec == EngineInit /\ [][AdviceSteps \/ ResolveSteps]_engine
=============================================================================
