------------------------------- MODULE Solver -------------------------------
(***************************************************************************)
(* solve() of packages/engine/src/solve: from a world's machines, the      *)
(* states of its items, its priority list and its reserves to how fast     *)
(* every recipe runs.                                                      *)
(*                                                                         *)
(* The world `w` is chosen at the start. A behaviour is the power loop:    *)
(* each pass solves the items at the current grid ratio and compares what  *)
(* the factory draws with what the grid supplies. Between two solves one   *)
(* discontinuity may change the states of items, as in resolve's loop.     *)
(*                                                                         *)
(* Numbers are exact: the solver's tolerances are zero here. A clock is    *)
(* told as machine-units in use, `run`: capacity times clock.              *)
(***************************************************************************)
EXTENDS Ratios, FiniteSets, SequencesExt

CONSTANTS
    Power,             \* POWER_ITEM, which is never in stock
    ItemIds,           \* the stock items in authored order
    TopologicalItems,  \* the same, every producer's inputs before its outputs
    Recipes,
    Primary,           \* recipe -> the item it is selected for
    Makes, Takes,      \* recipe -> item -> rate of one machine-unit
    Draw,              \* recipe -> what one machine-unit draws from the grid
    ReserveFloor, PowerPasses,
    Worlds,            \* the worlds to solve
    MaxEvents          \* bound of the model: discontinuities per behaviour

Items == Range(ItemIds)
Goods == Items \cup {Power}

ASSUME Content ==
    /\ Power \notin Items
    /\ Range(TopologicalItems) = Items
    /\ Primary \in [Recipes -> Goods]
    /\ \A r \in Recipes, i \in Goods : AtMost(Zero, Makes[r][i]) /\ AtMost(Zero, Takes[r][i])
    /\ \A r \in Recipes : Makes[r][Primary[r]] # Zero /\ Takes[r][Power] = Zero
    /\ \A r \in Recipes, a, b \in DOMAIN TopologicalItems :
          /\ Takes[r][TopologicalItems[a]] # Zero
          /\ Makes[r][TopologicalItems[b]] # Zero
          => a < b

RECURSIVE Sum(_, _)
Sum(f, S) == IF S = {} THEN Zero
             ELSE LET x == CHOOSE x \in S : TRUE IN Add(f[x], Sum(f, S \ {x}))

\* The same function: TLC tabulates it once and does not look behind it again.
Table(f) == f @@ <<>>

IsGenerator(r) == Makes[r][Power] # Zero

VARIABLES
    w,           \* the world: see MCSolver for the fields
    stage,       \* "size", "items", "power" or "done"
    productionOf,\* what each item makes at full power, when a reserve needs it
    ratio,       \* the grid ratio the items are solved at
    target,      \* the demand the power entry asks for
    passes,
    pass,        \* the last item pass
    lifted,      \* the items that the last discontinuity took off zero
    events

vars == <<w, stage, productionOf, ratio, target, passes, pass, lifted, events>>

----------------------------------------------------------------------------
(* Requirements and priorities.                                            *)

\* Machine-units per item/second of the recipe's primary output, whose craft
\* bears all inputs, and what they take.
UnitsPerItem(r) == Divide(One, Makes[r][Primary[r]])
DirectInput(r, i) == Multiply(Takes[r][i], UnitsPerItem(r))

\* Machine-units of each recipe per item/second, through the pinned inputs only.
RECURSIVE RequirementVector(_, _, _)
RequirementVector(live, i, pins) ==
    LET makers == {r \in live : Primary[r] = i}
        Walk(maker, walked, sub) ==
            Table([r \in Recipes |->
                     Add(IF r = maker THEN UnitsPerItem(maker) ELSE Zero,
                         Sum([j \in walked |-> Multiply(sub[j][r], DirectInput(maker, j))], walked))])
        Through(maker, walked) ==
            Walk(maker, walked, Table([j \in walked |-> RequirementVector(live, j, pins)]))
        From(maker) == Through(maker, {j \in pins : Takes[maker][j] # Zero})
    IN  IF makers = {} THEN Table([r \in Recipes |-> Zero])
        ELSE From(CHOOSE r \in makers : TRUE)

Touches(v, r) == v[r] # Zero

\* A reserve asks for up to half of what its item would make, right after power.
EffectivePriority(world, powerTarget, production) ==
    LET half == <<1, 2>>
        live == SelectSeq(world.priority, LAMBDA e : ~e.paused)
        aimed == [k \in DOMAIN live |->
                    IF live[k].item = Power THEN [live[k] EXCEPT !.target = powerTarget] ELSE live[k]]
        saving == SelectSeq(ItemIds, LAMBDA i : world.reserve[i] # Zero /\ world.tag[i] # "FULL")
        reserves == [k \in DOMAIN saving |->
                       [item |-> saving[k], mode |-> "guaranteed", share |-> 1, paused |-> FALSE,
                        target |-> Multiply(Lesser(half, world.reserve[saving[k]]), production[saving[k]]),
                        reserve |-> TRUE]]
        powerAt == {k \in DOMAIN aimed : aimed[k].item = Power}
        at == IF powerAt = {} THEN 0 ELSE CHOOSE k \in powerAt : TRUE
    IN  SubSeq(aimed, 1, at) \o reserves \o SubSeq(aimed, at + 1, Len(aimed))

Reserved(entries) ==
    {entries[k].item : k \in {k \in DOMAIN entries : entries[k].reserve /\ entries[k].target # Zero}}

\* What each entry pulls on, per item/second. A reserved item counts as pinned.
Claims(live, entries, pins) ==
    LET walls == pins \cup Reserved(entries)
    IN  Table([k \in DOMAIN entries |-> RequirementVector(live, entries[k].item, walls)])

----------------------------------------------------------------------------
(* The waterfall. A rate is per entry; `v` are the entries' claims.        *)

Used(v, rate) ==
    Table([r \in Recipes |-> Sum([k \in DOMAIN v |-> Multiply(rate[k], v[k][r])], DOMAIN v)])

LeastRatio(ratios) == IF ratios = {} THEN Zero ELSE Least(ratios)

\* The rate at which a vector exhausts the first of its recipes.
Ceiling(vector, pool) ==
    LeastRatio({Divide(pool[r], vector[r]) : r \in {r \in Recipes : Touches(vector, r)}})

\* The share entries of a block are weighted among themselves.
Weights(entries, members) ==
    Table([m \in members |->
             IF entries[m].mode # "share" THEN One
             ELSE MakeRational(entries[m].share, MapThenSumSet(LAMBDA x : entries[x].share, members))])

\* One scale for all the weights, as far as the recipes and every target allow.
Scale(entries, members, weight, claim, pool) ==
    Least({Ceiling(claim, pool)} \cup
          {IF entries[m].target = Inf THEN Inf ELSE Divide(entries[m].target, weight[m]) : m \in members})

\* The members take their scaled claims; one that no recipe makes gets nothing.
Commit(acc, v, members, weight, claim, scale) ==
    [pool |-> Table([r \in Recipes |-> Subtract(acc.pool[r], Multiply(scale, claim[r]))]),
     rate |-> Table([m \in DOMAIN acc.rate |->
                 IF m \notin members THEN acc.rate[m]
                 ELSE IF \A r \in Recipes : ~Touches(v[m], r) THEN Zero
                 ELSE Multiply(weight[m], scale)])]

ServeBlock(entries, v, members, acc) ==
    LET Scaled(weight, claim) ==
            Commit(acc, v, members, weight, claim, Scale(entries, members, weight, claim, acc.pool))
        Weighted(weight) ==
            Scaled(weight, Table([r \in Recipes |->
                                    Sum([m \in members |-> Multiply(weight[m], v[m][r])], members)]))
    IN  Weighted(Weights(entries, members))

Unserved(entries, pool) == [pool |-> pool, rate |-> [k \in DOMAIN entries |-> Zero]]

\* Mutant of ServeFrom: entries are served from the last to the first.
ServeUpward(entries, v, only, pool) ==
    LET Turn(k, acc) == IF k \in only THEN ServeBlock(entries, v, {k}, acc) ELSE acc
    IN  FoldRightDomain(Turn, entries, Unserved(entries, pool)).rate

\* One pass down the list over `pool`, for the entries in `only`. All their
\* share entries are served with the first of them.
ServeFrom(entries, v, only, pool) ==
    LET shares == {k \in only : entries[k].mode = "share"}
        Turn(acc, k) ==
            IF k \in only \ shares THEN ServeBlock(entries, v, {k}, acc)
            ELSE IF k \in shares /\ \A m \in shares : k <= m THEN ServeBlock(entries, v, shares, acc)
            ELSE acc
    IN  FoldLeftDomain(Turn, Unserved(entries, pool), entries).rate

\* Two or more entries pull through it.
Contested(v, in, r) == Cardinality({k \in in : Touches(v[k], r)}) >= 2

\* Phase B: what is left is offered to the entries that got nothing.
Leftovers(entries, v, capacity, in, phaseA) ==
    LET starved == {k \in in : phaseA[k] = Zero /\ \E r \in Recipes : Touches(v[k], r)}
        OverUnused(used) ==
            ServeFrom(entries, v, starved,
                      Table([r \in Recipes |-> Subtract(capacity[r], used[r])]))
    IN  OverUnused(Used(v, phaseA))

\* Phase A: what is contested is taxed by the floor, unless it is a final figure.
TwoPhases(entries, v, capacity, in, untaxed) ==
    LET taxed == Table([r \in Recipes |->
                          IF r \notin untaxed /\ Contested(v, in, r)
                          THEN Multiply(capacity[r], Subtract(One, ReserveFloor)) ELSE capacity[r]])
        Both(phaseA, phaseB) == Table([k \in DOMAIN entries |-> Add(phaseA[k], phaseB[k])])
        Then(phaseA) == Both(phaseA, Leftovers(entries, v, capacity, in, phaseA))
        Report(rate) == [rate |-> rate, used |-> Used(v, rate), claims |-> v]
    IN  Report(Then(ServeFrom(entries, v, in, taxed)))

\* The waterfall; `excluded` entries take no part.
RunPasses(live, entries, capacity, pins, excluded, untaxed) ==
    TwoPhases(entries, Claims(live, entries, pins), capacity, DOMAIN entries \ excluded, untaxed)

Production(live, run, i) == Sum([r \in live |-> Multiply(run[r], Makes[r][i])], live)
Consumption(live, run, i) == Sum([r \in live |-> Multiply(run[r], Takes[r][i])], live)
Net(live, run, i) == Subtract(Production(live, run, i), Consumption(live, run, i))

\* Mutant of Disqualified: without ruling R32.
NoneHeld(live, entries, capacity, pins) == {}

\* The entries that may not bank: of an EMPTY item that is not reserved, that
\* has consumers, and whose recipe others pull through as well.
Suspects(live, entries, pins, v) ==
    {k \in DOMAIN entries :
       /\ entries[k].mode = "guaranteed"
       /\ entries[k].item \in pins \ Reserved(entries)
       /\ \E r \in Recipes : Takes[r][entries[k].item] # Zero
       /\ \E r \in live : Primary[r] = entries[k].item /\ Contested(v, DOMAIN entries, r)}

\* Ruling R32: would the item hold its own, were it not pinned and were the
\* other items in `held` still held?
Sustained(live, entries, capacity, pins, suspects, held, i) ==
    AtMost(Zero, Net(live, RunPasses(live, entries, capacity, pins \ {i},
                                     {k \in suspects : entries[k].item \in held \ {i}}, {}).used, i))

\* All suspects are held at first; items are released in the order of their
\* entries until a round releases none.
Disqualified(live, entries, capacity, pins) ==
    LET Round(suspects, held) ==
            FoldLeftDomain(LAMBDA h, k :
                IF /\ k \in suspects /\ entries[k].item \in h
                   /\ \A m \in suspects : entries[m].item = entries[k].item => k <= m
                   /\ Sustained(live, entries, capacity, pins, suspects, h, entries[k].item)
                THEN h \ {entries[k].item} ELSE h, held, entries)
        RECURSIVE Release(_, _, _)
        Release(suspects, held, kept) ==
            IF kept = held THEN {k \in suspects : entries[k].item \in held}
            ELSE Release(suspects, kept, Round(suspects, kept))
        Hold(suspects, items) == Release(suspects, items, Round(suspects, items))
        Judge(suspects) == Hold(suspects, {entries[k].item : k \in suspects})
    IN  Judge(Suspects(live, entries, pins, Claims(live, entries, pins)))

----------------------------------------------------------------------------
(* One item pass: the waterfall, the two sweeps, the reconciliation.       *)

\* Scales every live recipe of `rs`, when `much` outruns `little`.
Throttle(s, rs, much, little) ==
    IF AtMost(much, little) THEN s
    ELSE [run |-> Table([r \in Recipes |-> IF r \in rs THEN Multiply(s.run[r], Divide(little, much))
                                           ELSE s.run[r]]),
          touched |-> s.touched \cup rs]

\* FULL items, consumers before producers: producers slow down to consumption.
FullSweep(world, s) ==
    FoldLeft(LAMBDA acc, i :
               IF world.tag[i] # "FULL" THEN acc
               ELSE Throttle(acc, {r \in world.live : Makes[r][i] # Zero},
                             Production(world.live, acc.run, i), Consumption(world.live, acc.run, i)),
             s, Reverse(TopologicalItems))

\* Mutant of EmptySweep: consumers before producers.
EmptySweepBackwards(world, s) ==
    FoldLeft(LAMBDA acc, i :
               IF world.tag[i] # "EMPTY" THEN acc
               ELSE Throttle(acc, {r \in world.live : Takes[r][i] # Zero},
                             Consumption(world.live, acc.run, i), Production(world.live, acc.run, i)),
             s, Reverse(TopologicalItems))

\* EMPTY items, producers before consumers: consumers slow down to production.
EmptySweep(world, s) ==
    FoldLeft(LAMBDA acc, i :
               IF world.tag[i] # "EMPTY" THEN acc
               ELSE Throttle(acc, {r \in world.live : Takes[r][i] # Zero},
                             Consumption(world.live, acc.run, i), Production(world.live, acc.run, i)),
             s, TopologicalItems)

\* What the entries get once the sweeps have set the recipes they touched.
Reconcile(world, entries, capacity, pins, held, swept) ==
    RunPasses(world.live, entries,
              Table([r \in Recipes |-> IF r \in swept.touched THEN swept.run[r] ELSE capacity[r]]),
              pins, held, swept.touched).rate

SolvePass(world, entries, capacity, pins) ==
    LET Report(held, first, swept) ==
            [entries |-> entries, claims |-> first.claims, held |-> held,
             run |-> swept.run, swept |-> swept.touched,
             rate |-> Reconcile(world, entries, capacity, pins, held, swept)]
        Sweep(held, first) ==
            Report(held, first, EmptySweep(world, FullSweep(world, [run |-> first.used, touched |-> {}])))
        Pass(held) == Sweep(held, RunPasses(world.live, entries, capacity, pins, held, {}))
    IN  Pass(Disqualified(world.live, entries, capacity, pins))

\* Every item without stock is pinned at once, which leaves the loop that pins
\* overdrawn items without stock nothing to pin: one pass.
SolveItems(world, entries, capacity) ==
    SolvePass(world, entries, capacity, {i \in Items : world.tag[i] = "EMPTY"})

----------------------------------------------------------------------------
(* The power loop. Generators are exempt from the ratio.                   *)

ScaleCapacityByRatio(units, q) ==
    Table([r \in Recipes |-> IF IsGenerator(r) THEN units[r] ELSE Multiply(units[r], q)])

\* What the machines would draw at full power: their clock against the scaled
\* capacity, times their draw.
PowerDemand(world, run, capacity) ==
    Sum([r \in world.live |->
           IF capacity[r] = Zero THEN Zero
           ELSE Multiply(Multiply(Draw[r], world.units[r]), Divide(run[r], capacity[r]))],
        {r \in world.live : ~IsGenerator(r)})

PowerSupply(world, run) == Add(world.grid, Production(world.live, run, Power))

AnyReserve == \E i \in Items : w.reserve[i] # Zero

Init ==
    /\ w \in Worlds
    /\ stage = "size"
    /\ productionOf = [i \in Items |-> Zero]
    /\ ratio = One /\ target = Zero
    /\ passes = 0
    /\ pass = <<>>
    /\ lifted = {} /\ events = 0

\* A reserve is sized by one pass at full power without reserves.
SizeReserves ==
    LET bare == [w EXCEPT !.reserve = [i \in Items |-> Zero]]
        full == SolveItems(bare, EffectivePriority(bare, Zero, productionOf), w.units)
    IN  /\ stage = "size"
        /\ productionOf' = IF AnyReserve THEN [i \in Items |-> Production(w.live, full.run, i)]
                           ELSE productionOf
        /\ stage' = "items"
        /\ UNCHANGED <<w, ratio, target, passes, pass, lifted, events>>

SolveAtRatio ==
    /\ stage = "items"
    /\ pass' = SolveItems(w, EffectivePriority(w, target, productionOf),
                          ScaleCapacityByRatio(w.units, ratio))
    /\ passes' = passes + 1
    /\ stage' = "power"
    /\ UNCHANGED <<w, productionOf, ratio, target, lifted, events>>

Balance ==
    LET demand == PowerDemand(w, pass.run, ScaleCapacityByRatio(w.units, ratio))
        supply == PowerSupply(w, pass.run)
        next == IF demand = Zero THEN One ELSE Lesser(One, Divide(supply, demand))
        settled == passes >= 2 /\ next = ratio /\ demand = target
    IN  /\ stage = "power"
        /\ IF settled \/ passes >= PowerPasses
           THEN stage' = "done" /\ UNCHANGED <<ratio, target>>
           ELSE stage' = "items" /\ ratio' = next /\ target' = demand
        /\ UNCHANGED <<w, productionOf, passes, pass, lifted, events>>

NetNow(i) == Net(w.live, pass.run, i)
AtRest == {i \in Items : NetNow(i) = Zero}
Rising == {i \in Items : w.tag[i] = "EMPTY" /\ Below(Zero, NetNow(i))}

\* The next discontinuity and a fresh solve. An EMPTY item that gains leaves
\* zero at once, before anything else can happen; else some item drains or
\* fills. A FULL item that drains has left its cap by then.
Elapse ==
    LET leaving == {i \in Items : w.tag[i] = "FULL" /\ Below(NetNow(i), Zero)}
        Retag(tags) == w' = [w EXCEPT !.tag = [i \in Items |-> IF i \in DOMAIN tags THEN tags[i]
                                                              ELSE w.tag[i]]]
        Reaches(i) == IF Below(NetNow(i), Zero) THEN "EMPTY" ELSE "FULL"
    IN  /\ stage = "done" /\ events < MaxEvents
        /\ \/ /\ Rising # {}
              /\ \E gone \in SUBSET leaving : Retag([i \in Rising \cup gone |-> "FLOWING"])
           \/ /\ Rising = {}
              /\ \E i \in Items \ AtRest :
                    /\ w.tag[i] = "FLOWING" \/ i \in leaving
                    /\ Retag([j \in {i} \cup leaving |-> IF j = i THEN Reaches(i) ELSE "FLOWING"])
        /\ lifted' = IF pass.swept = {} THEN Rising ELSE {}
        /\ stage' = "size" /\ ratio' = One /\ target' = Zero /\ passes' = 0 /\ pass' = <<>>
        /\ productionOf' = [i \in Items |-> Zero]
        /\ events' = events + 1

Next == SizeReserves \/ SolveAtRatio \/ Balance \/ Elapse

Spec == Init /\ [][Next]_vars

----------------------------------------------------------------------------

Solved == stage \in {"power", "done"}

IsRatio(x) == /\ x \in Int \X Nat
              /\ x[2] > 0 /\ Gcd(Magnitude(x[1]), x[2]) = 1

\* Clocks and the grid ratio are fractions, no entry gets a negative rate or
\* more than it asks for.
TypeOK ==
    /\ stage \in {"size", "items", "power", "done"}
    /\ IsRatio(ratio) /\ AtMost(Zero, ratio) /\ AtMost(ratio, One)
    /\ IsRatio(target) /\ AtMost(Zero, target)
    /\ lifted \subseteq Items
    /\ Solved => /\ \A r \in Recipes : /\ IsRatio(pass.run[r])
                                       /\ AtMost(Zero, pass.run[r])
                                       /\ AtMost(pass.run[r], w.units[r])
                 /\ \A k \in DOMAIN pass.rate : /\ AtMost(Zero, pass.rate[k])
                                                /\ AtMost(pass.rate[k], pass.entries[k].target)

\* What everything in the engine rests on: an item with no stock is not
\* consumed faster than it is made.
EmptyNotOverdrawn ==
    Solved => \A i \in Items : w.tag[i] = "EMPTY" => AtMost(Zero, NetNow(i))

\* Ruling R31: no recipe is allotted more than it runs.
\* The code does not hold it; no run checks it.
AllocationsFit ==
    Solved => \A r \in Recipes : AtMost(Used(pass.claims, pass.rate)[r], pass.run[r])

\* At full power or in a brownout, a settled grid draws what it supplies.
GridBalanced ==
    stage = "done" /\ passes < PowerPasses =>
       LET consumers == {r \in w.live : ~IsGenerator(r)}
           drawn == Sum([r \in consumers |-> Multiply(Draw[r], pass.run[r])], consumers)
           made == Add(w.grid, Production(w.live, pass.run, Power))
       IN  /\ AtMost(drawn, made)
           /\ ratio # One => drawn = made

\* Ruling R32: an item banked off zero does not fall back at once, which
\* resolve would chase for ever. It is ruled for guaranteed entries and holds
\* where neither sweep throttles and no reserve is set.
LiftedStays ==
    /\ stage = "done" /\ pass.swept = {} /\ ~AnyReserve
    /\ \A k \in DOMAIN w.priority : w.priority[k].mode = "guaranteed"
    => \A i \in lifted : AtMost(Zero, NetNow(i))

\* A FULL item grows only where the EMPTY sweep took a consumer back.
FullGrowsForLack ==
    Solved => \A i \in Items : w.tag[i] = "FULL" /\ Below(Zero, NetNow(i)) =>
       \E r \in w.live, j \in Items : /\ Takes[r][i] # Zero /\ Takes[r][j] # Zero
                                      /\ w.tag[j] = "EMPTY" /\ NetNow(j) = Zero

\* waterfall.ts, effectivePriority: a reserve lets a drained item bank toward a
\* price, its consumers draw on what it makes and not on its stock.
\* The code does not hold it; no run checks it.
ReserveBanks ==
    stage = "done" => \A i \in lifted : w.reserve[i] # Zero => AtMost(Zero, NetNow(i))

\* Adding entries below costs those above at most the floor.
LowerCostsOnlyTheFloor ==
    Solved => \A n \in {n \in DOMAIN pass.entries : \A k \in DOMAIN pass.entries :
                           pass.entries[k].mode = "share" => k > n} :
       Reserved(SubSeq(pass.entries, 1, n)) = Reserved(pass.entries) =>
       LET cap == ScaleCapacityByRatio(w.units, ratio)
           pins == {i \in Items : w.tag[i] = "EMPTY"}
           above == SubSeq(pass.entries, 1, n)
           alone == RunPasses(w.live, above, cap, pins, pass.held \cap (1..n), {}).rate
           all == RunPasses(w.live, pass.entries, cap, pins, pass.held, {}).rate
       IN  \A k \in 1..n : AtMost(Multiply(Subtract(One, ReserveFloor), alone[k]), all[k])

\* fixpoint.ts, power.ts: what a pass computes can be produced: nothing is drawn from an empty
\* item faster than it is made, a settled grid balances, a full item grows only for want of an
\* empty one, and clocks and rates are fractions of what is there and asked for.
FlowsHold == TypeOK /\ EmptyNotOverdrawn /\ GridBalanced /\ FullGrowsForLack
=============================================================================
