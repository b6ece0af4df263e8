------------------------------ MODULE Economy ------------------------------
(***************************************************************************)
(* One world of the game: its stock, its machines, its levels, its tier    *)
(* and its tap timer, under the reducers of packages/engine/src/actions    *)
(* and the loop of packages/engine/src/resolve.                            *)
(*                                                                         *)
(* A reducer is one action here. A resolve is several: it starts, settles, *)
(* delivers the milestones it can pay for one by one, and either ends or   *)
(* integrates one segment. What the solver answers for a segment is left   *)
(* open (any net rate per item, and any set of recipes at nameplate), so   *)
(* what holds here holds whatever solve() answers.                         *)
(*                                                                         *)
(* Amounts are naturals: the tolerances of the decimal arithmetic          *)
(* (FULL_TOLERANCE, SPEND_RESIDUAL_TOLERANCE) have nothing to forgive.     *)
(***************************************************************************)
EXTENDS Integers, Sequences, FiniteSets, Functions

CONSTANTS
    Items,                 \* stock items
    Lanes, LaneOf,         \* lanes, and the lane of each item
    Pools,                 \* the "lane::class" pairs
    MaxMark,               \* marks of a class are 1..MaxMark
    Recipes, PoolOf, Output, RecipeTier, InCycle, Authored,
    MarkTier, RateOf,      \* of each mark: the tier it unlocks at, its speed
    MachineSpent(_, _, _), \* pool, mark, n: what the first n machines cost
    StorageSpent(_),       \* n: what the first n levels of one item cost
    QuantumSpent(_),
    StorageCapOf(_, _, _), \* item, level, tier
    QuantumCapOf(_, _, _),
    Milestone,             \* for tiers 1..MaxTier: what reaching it costs
    MaxTier, MaxLevel, MaxCount, MaxStacks, TapDuration, OfflineCap,
    StartTier, StartMachines, StartAssigned, DefaultRecipe, StartPriority,
    MaxMachines, MaxRate, MaxWindow, MaxNow   \* bounds of the model

Marks == 1..MaxMark
Amounts == [Items -> Nat]

(***************************************************************************)
(* The content the engine accepts: see the schema of packages/content. A   *)
(* cap never falls with a level (capGrowth > 1) or a tier (capPerTier, for *)
(* which the schema also allows numbers below 1, is taken at 1 or more).   *)
(***************************************************************************)
ASSUME Naturals ==
    /\ MaxMark \in Nat /\ MaxTier \in Nat /\ MaxLevel \in Nat
    /\ MaxCount \in Nat /\ MaxStacks \in Nat \ {0} /\ OfflineCap \in Nat
    /\ TapDuration \in Nat \ {0}
    /\ MaxMachines \in Nat /\ MaxRate \in Nat /\ MaxWindow \in Nat
    /\ MaxNow \in Nat

ASSUME Content ==
    /\ LaneOf \in [Items -> Lanes]
    /\ PoolOf \in [Recipes -> Pools]
    /\ Output \in [Recipes -> Items]
    /\ RecipeTier \in [Recipes -> Nat]
    /\ InCycle \subseteq Recipes
    /\ Authored \in [Recipes -> Nat]
    /\ \A r, s \in Recipes : Authored[r] = Authored[s] => r = s
    /\ MarkTier \in [Marks -> Nat]
    /\ RateOf \in [Marks -> Nat \ {0}]
    /\ Milestone \in [1..MaxTier -> Amounts]

ASSUME Finite ==
    IsFiniteSet(Items) /\ IsFiniteSet(Lanes) /\ IsFiniteSet(Pools) /\ IsFiniteSet(Recipes)

ASSUME Start ==
    /\ StartTier \in 0..MaxTier
    /\ StartMachines \in [Pools -> [Marks -> 0..MaxMachines]]
    /\ StartAssigned \in [Recipes -> Nat]
    /\ DefaultRecipe \in [Items -> Recipes]
    /\ StartPriority \in Seq(Items)

ASSUME Costs ==
    /\ \A p \in Pools, m \in Marks, n \in 0..MaxMachines :
          /\ MachineSpent(p, m, n) \in Amounts
          /\ \A k \in 0..n, i \in Items :
                MachineSpent(p, m, k)[i] <= MachineSpent(p, m, n)[i]
    /\ \A n \in 0..MaxLevel :
          /\ StorageSpent(n) \in Amounts /\ QuantumSpent(n) \in Amounts
          /\ \A k \in 0..n, i \in Items :
                /\ StorageSpent(k)[i] <= StorageSpent(n)[i]
                /\ QuantumSpent(k)[i] <= QuantumSpent(n)[i]

ASSUME Caps ==
    \A i \in Items, l \in 0..MaxLevel, t \in 0..MaxTier :
       /\ StorageCapOf(i, l, t) \in Nat /\ QuantumCapOf(i, l, t) \in Nat
       /\ \A k \in 0..l, u \in 0..t :
             /\ StorageCapOf(i, k, u) <= StorageCapOf(i, l, t)
             /\ QuantumCapOf(i, k, u) <= QuantumCapOf(i, l, t)

NoTimer == -1

VARIABLES
    stock,         \* stored, quantum and bound, each per item
    installed,     \* pool -> mark -> machines owned
    assigned,      \* recipe -> machines of its pool working on it
    active,        \* item -> the recipe selected for it
    storageLevel, qsLevel, tier,
    priority,      \* the player's list of items, most wanted first
    paused,        \* the entries of it that are paused
    tapStacks, tapAt,   \* live stacks, and when their one timer fires
    now,           \* lastResolvedAt
    pc,            \* "idle", or where resolve's loop stands
    cursor, left, endsAt,   \* resolve's cursor, remaining time and clock to leave
    banked         \* history: what recipes put into stock, less what they took

world == <<installed, assigned, active, storageLevel, qsLevel>>
list == <<priority, paused>>
taps == <<tapStacks, tapAt>>
loop == <<pc, cursor, left, endsAt>>
vars == <<stock, world, tier, list, taps, now, loop, banked>>

----------------------------------------------------------------------------
(* Storage: caps, states, deposits and spends. `s` is a stock.             *)

Least(a, b) == IF a <= b THEN a ELSE b
Room(cap, have) == IF have < cap THEN cap - have ELSE 0

StorageCap(i) == StorageCapOf(i, storageLevel[i], tier)
QuantumCap(i) == QuantumCapOf(i, qsLevel[LaneOf[i]], tier)
QuantumCaps == [i \in Items |-> QuantumCap(i)]

Liquid(s, i) == s.stored[i] + s.quantum[i]
Full(s, i) == Liquid(s, i) > 0 /\ Liquid(s, i) >= StorageCap(i) + QuantumCap(i)

Plus(f, g) == [i \in Items |-> f[i] + g[i]]
Minus(f, g) == [i \in Items |-> f[i] - g[i]]
LeastOf(f, g) == [i \in Items |-> Least(f[i], g[i])]

\* Mutant of SettleBound: all of the bound stock moves, room or no room.
SettleAll(s, caps) ==
    [s EXCEPT !.quantum = Plus(@, s.bound), !.bound = [i \in Items |-> 0]]

\* Bound stock flows down while Quantum Storage has room.
SettleBound(s, caps) ==
    LET move == [i \in Items |-> Least(s.bound[i], Room(caps[i], s.quantum[i]))]
    IN  [s EXCEPT !.quantum = Plus(@, move), !.bound = Minus(@, move)]

\* Mutant of DepositRefund: what does not fit Quantum Storage is lost.
RefundToCap(s, amount, caps) ==
    [s EXCEPT !.quantum = [i \in Items |-> @[i] + Least(amount[i], Room(caps[i], @[i]))]]

\* A refund fills Quantum Storage to its cap and binds the rest.
DepositRefund(s, amount, caps) ==
    LET take == [i \in Items |-> Least(amount[i], Room(caps[i], s.quantum[i]))]
    IN  [s EXCEPT !.quantum = Plus(@, take),
                  !.bound = Plus(@, Minus(amount, take))]

\* Mutant of CanAffordLiquid: bound stock counts.
AffordWithBound(s, cost) == \A i \in Items : cost[i] <= Liquid(s, i) + s.bound[i]

CanAffordBuild(s, cost) == \A i \in Items : cost[i] <= Liquid(s, i) + s.bound[i]
CanAffordLiquid(s, cost) == \A i \in Items : cost[i] <= Liquid(s, i)

\* A build draws bound, then quantum, then stored; the freed room is settled.
SpendForBuild(s, cost, caps) ==
    LET b == LeastOf(cost, s.bound)
        q == LeastOf(Minus(cost, b), s.quantum)
    IN  SettleBound([stored |-> Minus(s.stored, Minus(Minus(cost, b), q)),
                     quantum |-> Minus(s.quantum, q),
                     bound |-> Minus(s.bound, b)], caps)

\* A delivery draws stored, then quantum, and never bound.
SpendFromLiquid(s, cost, caps) ==
    LET t == LeastOf(cost, s.stored)
    IN  SettleBound([stored |-> Minus(s.stored, t),
                     quantum |-> Minus(s.quantum, Minus(cost, t)),
                     bound |-> s.bound], caps)

\* Production goes to stored, then quantum; what fits in neither is lost.
DepositProduction(s, i, n) ==
    LET t == Least(n, Room(StorageCap(i), s.stored[i]))
        q == Least(n - t, Room(QuantumCap(i), s.quantum[i]))
    IN  [stored |-> t, quantum |-> q, overflow |-> n - t - q]

\* Consumption comes from stored, then quantum, and stops at nothing left.
DrainLiquid(s, i, n) ==
    LET t == Least(n, s.stored[i])
        q == Least(n - t, s.quantum[i])
    IN  [stored |-> -t, quantum |-> -q, overflow |-> 0]

\* What a segment of `dt` at these net rates moves into each store of item i.
Flow(s, i, net, dt) ==
    IF net >= 0 THEN DepositProduction(s, i, net * dt)
                ELSE DrainLiquid(s, i, -net * dt)

----------------------------------------------------------------------------
(* Machines: pools, assignments, and where a purchase goes.                *)

Total(f) == FoldFunction(+, 0, f)
RecipesIn(p) == {r \in Recipes : PoolOf[r] = p}
AssignedIn(a, p) == Total([r \in RecipesIn(p) |-> a[r]])
PoolSize(inst, p) == Total(inst[p])

\* The loader does not compare the two, but the bundles start with machines for
\* what they assign.
ASSUME StartFits ==
    \A p \in Pools : AssignedIn(StartAssigned, p) <= PoolSize(StartMachines, p)

Live == {r \in Recipes : /\ r \notin InCycle
                         /\ RecipeTier[r] <= tier
                         /\ active[Output[r]] = r}

\* Mutant of ClampAssignments: one round of the loop, on the biggest alone.
ClampBiggest(a, p, pool) ==
    LET excess == Room(AssignedIn(a, p), pool)
        first(r) == \A s \in RecipesIn(p) : \/ a[s] < a[r]
                                            \/ a[s] = a[r] /\ Authored[s] >= Authored[r]
    IN  [r \in Recipes |-> IF PoolOf[r] = p /\ first(r) THEN a[r] - Least(a[r], excess)
                           ELSE a[r]]

\* The loop shrinks the biggest assignment, first in authored order, to what
\* the excess leaves of it, then the next: r loses what those ahead left over.
ClampAssignments(a, p, pool) ==
    LET excess == Room(AssignedIn(a, p), pool)
        ahead(r) == {s \in RecipesIn(p) : \/ a[s] > a[r]
                                          \/ a[s] = a[r] /\ Authored[s] < Authored[r]}
        left_(r) == Room(excess, Total([s \in ahead(r) |-> a[s]]))
    IN  [r \in Recipes |-> IF PoolOf[r] = p THEN a[r] - Least(a[r], left_(r)) ELSE a[r]]

\* An item paused or not listed ranks below every other.
Rank(i) == IF i \in Range(priority) \ paused
           THEN CHOOSE k \in DOMAIN priority : priority[k] = i
           ELSE Len(priority) + 1

Better(r, s) ==
    \/ Rank(Output[r]) < Rank(Output[s])
    \/ /\ Rank(Output[r]) = Rank(Output[s])
       /\ \/ assigned[r] > assigned[s]
          \/ assigned[r] = assigned[s] /\ Authored[r] < Authored[s]

Best(S) == CHOOSE r \in S : \A s \in S \ {r} : Better(r, s)

\* `fast` are the recipes the solver runs at nameplate, `s` the stock once paid.
AutoAssignTarget(p, s, fast) ==
    LET live == Live \cap RecipesIn(p)
        withRoom == {r \in live : /\ ~Full(s, Output[r])
                                  /\ assigned[r] = 0 \/ r \in fast}
    IN  IF withRoom = {} THEN Best(live) ELSE Best(withRoom)

ValidCount(n) == n \in 1..MaxCount

\* What `count` machines cost from the one after `from` on; a refund of the
\* same machines is the same sum.
MachineCostRange(p, m, from, count) ==
    Minus(MachineSpent(p, m, from + count), MachineSpent(p, m, from))

----------------------------------------------------------------------------
(* The world a bundle starts with: machines and assignments, no stock.     *)

Init ==
    /\ stock = [stored |-> [i \in Items |-> 0], quantum |-> [i \in Items |-> 0],
                bound |-> [i \in Items |-> 0]]
    /\ installed = StartMachines
    /\ assigned = StartAssigned
    /\ active = DefaultRecipe
    /\ storageLevel = [i \in Items |-> 0]
    /\ qsLevel = [l \in Lanes |-> 0]
    /\ tier = StartTier
    /\ priority = StartPriority
    /\ paused = {}
    /\ tapStacks = 0 /\ tapAt = NoTimer
    /\ now = 0
    /\ pc = "idle" /\ cursor = 0 /\ left = 0 /\ endsAt = 0
    /\ banked = [i \in Items |-> 0]

----------------------------------------------------------------------------
(* The reducers. Each runs between two resolves, and a reducer that        *)
(* rejects changes nothing.                                                *)

Player == pc = "idle" /\ UNCHANGED <<tier, now, loop, banked>>

Install(p, m, n) == [installed EXCEPT ![p][m] = n]

\* BUY_MACHINE: pay, install, and assign to the named recipe or to the target.
BuyMachine(p, m, n, named, fast) ==
    LET owned == installed[p][m]
        cost == MachineCostRange(p, m, owned, n)
        paid == SpendForBuild(stock, cost, QuantumCaps)
        live == Live \cap RecipesIn(p)
        to == IF named # {} THEN named
              ELSE IF live = {} THEN {} ELSE {AutoAssignTarget(p, paid, fast)}
    IN  /\ Player
        /\ MarkTier[m] <= tier
        /\ ValidCount(n)
        /\ named \subseteq live
        /\ owned + n <= MaxMachines
        /\ CanAffordBuild(stock, cost)
        /\ stock' = paid
        /\ installed' = Install(p, m, owned + n)
        /\ assigned' = [r \in Recipes |-> IF r \in to THEN assigned[r] + n ELSE assigned[r]]
        /\ UNCHANGED <<active, storageLevel, qsLevel, list, taps>>

\* DISMANTLE: the last n machines bought are refunded.
Dismantle(p, m, n) ==
    LET owned == installed[p][m]
        refund == MachineCostRange(p, m, owned - n, n)
        kept == Install(p, m, owned - n)
    IN  /\ Player
        /\ ValidCount(n)
        /\ n <= owned
        /\ stock' = DepositRefund(stock, refund, QuantumCaps)
        /\ installed' = kept
        /\ assigned' = ClampAssignments(assigned, p, PoolSize(kept, p))
        /\ UNCHANGED <<active, storageLevel, qsLevel, list, taps>>

\* UPGRADE_MARK: refund the whole mark, then pay for its equivalent in the next.
UpgradeMark(p, m) ==
    LET owned == installed[p][m]
        higher == installed[p][m + 1]
        equivalent == (owned * RateOf[m]) \div RateOf[m + 1]
        refunded == DepositRefund(stock, MachineCostRange(p, m, 0, owned), QuantumCaps)
        cost == MachineCostRange(p, m + 1, higher, equivalent)
        kept == [installed EXCEPT ![p] = [@ EXCEPT ![m] = 0,
                                                   ![m + 1] = higher + equivalent]]
    IN  /\ Player
        /\ MarkTier[m + 1] <= tier
        /\ equivalent >= 1
        /\ higher + equivalent <= MaxMachines
        /\ CanAffordBuild(refunded, cost)
        /\ stock' = SpendForBuild(refunded, cost, QuantumCaps)
        /\ installed' = kept
        /\ assigned' = ClampAssignments(assigned, p, PoolSize(kept, p))
        /\ UNCHANGED <<active, storageLevel, qsLevel, list, taps>>

\* ASSIGN_MACHINES.
AssignMachines(r, n) ==
    LET p == PoolOf[r]
    IN  /\ Player
        /\ r \notin InCycle /\ RecipeTier[r] <= tier
        /\ n \in 0..MaxCount
        /\ AssignedIn(assigned, p) - assigned[r] + n <= PoolSize(installed, p)
        /\ assigned' = [assigned EXCEPT ![r] = n]
        /\ UNCHANGED <<stock, installed, active, storageLevel, qsLevel, list, taps>>

\* SELECT_RECIPE: the machines of the recipe it replaces stay on that recipe.
SelectRecipe(r) ==
    /\ Player
    /\ r \notin InCycle /\ RecipeTier[r] <= tier
    /\ active' = [active EXCEPT ![Output[r]] = r]
    /\ UNCHANGED <<stock, installed, assigned, storageLevel, qsLevel, list, taps>>

\* REORDER_PRIORITY takes a permutation of the entries.
ReorderPriority(q) ==
    /\ Player
    /\ q \in [DOMAIN priority -> Range(priority)] /\ Range(q) = Range(priority)
    /\ priority' = q
    /\ UNCHANGED <<stock, world, paused, taps>>

\* SET_PRIORITY_MODE; mode, share and target rate are for the solver alone.
SetPaused(i) ==
    /\ Player
    /\ i \in Range(priority)
    /\ \E on \in BOOLEAN : paused' = IF on THEN paused \cup {i} ELSE paused \ {i}
    /\ UNCHANGED <<stock, world, priority, taps>>

\* The two level purchases. The bound stock is settled before the level rises.
BuyLevels(level, k, cost) ==
    /\ Player
    /\ level + k <= MaxLevel
    /\ CanAffordBuild(stock, cost)
    /\ stock' = SpendForBuild(stock, cost, QuantumCaps)
    /\ UNCHANGED <<installed, assigned, active, list, taps>>

\* BUY_STORAGE.
BuyStorage(i, k) ==
    LET l == storageLevel[i]
    IN  /\ BuyLevels(l, k, Minus(StorageSpent(l + k), StorageSpent(l)))
        /\ storageLevel' = [storageLevel EXCEPT ![i] = l + k]
        /\ UNCHANGED qsLevel

\* BUY_QS.
BuyQs(lane, k) ==
    LET l == qsLevel[lane]
    IN  /\ BuyLevels(l, k, Minus(QuantumSpent(l + k), QuantumSpent(l)))
        /\ qsLevel' = [qsLevel EXCEPT ![lane] = l + k]
        /\ UNCHANGED storageLevel

\* TAP with n taps left after the ceiling; every stack shares one expiry.
Tap(n) ==
    LET stacks == Least(MaxStacks, tapStacks + n)
    IN  /\ Player
        /\ tapStacks' = stacks
        /\ tapAt' = IF stacks > 0 THEN now + TapDuration ELSE NoTimer
        /\ UNCHANGED <<stock, world, list>>

----------------------------------------------------------------------------
(* resolve: the window starts past what the offline cap does not simulate, *)
(* each iteration settles and delivers before it looks at what is left.    *)

FireDueTimers(c) ==
    LET due == tapAt # NoTimer /\ tapAt <= c
    IN  /\ tapStacks' = IF due THEN 0 ELSE tapStacks
        /\ tapAt' = IF due THEN NoTimer ELSE tapAt

StartResolve(elapsed) ==
    LET simulated == Least(elapsed, OfflineCap)
        start == now + elapsed - simulated
    IN  /\ pc = "idle"
        /\ now + elapsed <= MaxNow
        /\ FireDueTimers(start)
        /\ pc' = "settle" /\ cursor' = start /\ left' = simulated
        /\ endsAt' = now + elapsed
        /\ UNCHANGED <<stock, world, tier, list, now, banked>>

Settle ==
    /\ pc = "settle"
    /\ stock' = SettleBound(stock, QuantumCaps)
    /\ pc' = "deliver"
    /\ UNCHANGED <<world, tier, list, taps, now, cursor, left, endsAt, banked>>

Deliverable == tier < MaxTier /\ CanAffordLiquid(stock, Milestone[tier + 1])

Deliver ==
    /\ pc = "deliver"
    /\ Deliverable
    /\ stock' = SpendFromLiquid(stock, Milestone[tier + 1], QuantumCaps)
    /\ tier' = tier + 1
    /\ UNCHANGED <<world, list, taps, now, loop, banked>>

\* Mutant of Integrate: production that does not fit is bound.
IntegrateBinds(net, dt) ==
    LET flow == [i \in Items |-> Flow(stock, i, net[i], dt)]
    IN  /\ pc = "deliver"
        /\ ~Deliverable
        /\ dt \in 1..left
        /\ stock' = [stock EXCEPT !.stored = [i \in Items |-> @[i] + flow[i].stored],
                                  !.quantum = [i \in Items |-> @[i] + flow[i].quantum],
                                  !.bound = [i \in Items |-> @[i] + flow[i].overflow]]
        /\ banked' = [i \in Items |-> banked[i] + flow[i].stored + flow[i].quantum]
        /\ cursor' = cursor + dt /\ left' = left - dt
        /\ FireDueTimers(cursor + dt)
        /\ pc' = "settle"
        /\ UNCHANGED <<world, tier, list, now, endsAt>>

\* One segment of the loop, at the rates the solver gave.
Integrate(net, dt) ==
    LET flow == [i \in Items |-> Flow(stock, i, net[i], dt)]
    IN  /\ pc = "deliver"
        /\ ~Deliverable
        /\ dt \in 1..left
        /\ stock' = [stock EXCEPT !.stored = [i \in Items |-> @[i] + flow[i].stored],
                                  !.quantum = [i \in Items |-> @[i] + flow[i].quantum]]
        /\ banked' = [i \in Items |-> banked[i] + flow[i].stored + flow[i].quantum]
        /\ cursor' = cursor + dt /\ left' = left - dt
        /\ FireDueTimers(cursor + dt)
        /\ pc' = "settle"
        /\ UNCHANGED <<world, tier, list, now, endsAt>>

EndResolve ==
    /\ pc = "deliver"
    /\ ~Deliverable
    /\ left = 0
    /\ now' = endsAt
    /\ pc' = "idle"
    /\ cursor' = 0 /\ endsAt' = 0
    /\ UNCHANGED <<stock, world, tier, list, taps, left, banked>>

Reduce ==
    \/ \E p \in Pools, m \in Marks, n \in 1..MaxCount :
          \/ \E fast \in SUBSET RecipesIn(p) : BuyMachine(p, m, n, {}, fast)
          \/ \E r \in RecipesIn(p) : BuyMachine(p, m, n, {r}, {})
          \/ Dismantle(p, m, n)
    \/ \E p \in Pools, m \in 1..MaxMark - 1 : UpgradeMark(p, m)
    \/ \E r \in Recipes : SelectRecipe(r) \/ \E n \in 0..MaxCount : AssignMachines(r, n)
    \/ \E q \in [DOMAIN priority -> Range(priority)] : ReorderPriority(q)
    \/ \E i \in Items : SetPaused(i)
    \/ \E k \in 1..MaxLevel : \/ \E i \in Items : BuyStorage(i, k)
                              \/ \E l \in Lanes : BuyQs(l, k)
    \/ \E n \in 0..MaxStacks : Tap(n)

Resolve ==
    \/ \E elapsed \in 0..MaxWindow : StartResolve(elapsed)
    \/ Settle
    \/ Deliver
    \/ \E net \in [Items -> -MaxRate..MaxRate], dt \in 1..MaxWindow : Integrate(net, dt)
    \/ EndResolve

Next == Reduce \/ Resolve

Spec == Init /\ [][Next]_vars

----------------------------------------------------------------------------

Stocks == [stored : Amounts, quantum : Amounts, bound : Amounts]

WorldType ==
    /\ stock \in Stocks
    /\ installed \in [Pools -> [Marks -> 0..MaxMachines]]
    /\ active \in [Items -> Recipes]
    /\ storageLevel \in [Items -> 0..MaxLevel]
    /\ qsLevel \in [Lanes -> 0..MaxLevel]
    /\ tier \in 0..MaxTier
    /\ priority \in Seq(Items)
    /\ paused \subseteq Items
    /\ banked \in [Items -> Int]

LoopType ==
    /\ tapStacks \in 0..MaxStacks /\ tapAt \in Nat \cup {NoTimer}
    /\ now \in Nat /\ cursor \in Nat /\ left \in Nat /\ endsAt \in Nat
    /\ pc \in {"idle", "settle", "deliver"}
    /\ pc = "idle" => left = 0
    /\ pc # "idle" => cursor + left = endsAt

\* Every variable has its type; the loop's time adds up to the clock it leaves.
TypeOK ==
    /\ WorldType
    /\ LoopType
    /\ assigned \in [Recipes -> Nat]

\* What machines, levels and delivered milestones have cost in item i.
SunkInPool(i, p, row) == Total([m \in Marks |-> MachineSpent(p, m, row[m])[i]])
SunkInMachines(i, inst) == Total([p \in Pools |-> SunkInPool(i, p, inst[p])])
SunkInStorage(i, levels) == Total([j \in Items |-> StorageSpent(levels[j])[i]])
SunkInQuantum(i, levels) == Total([l \in Lanes |-> QuantumSpent(levels[l])[i]])
SunkInMilestones(i, t) == Total([u \in StartTier + 1..t |-> Milestone[u][i]])

Sunk(i, inst, storageLevels, qsLevels, t) ==
    SunkInMachines(i, inst) + SunkInStorage(i, storageLevels)
      + SunkInQuantum(i, qsLevels) + SunkInMilestones(i, t)

SunkAtStart(i) ==
    Sunk(i, StartMachines, [j \in Items |-> 0], [l \in Lanes |-> 0], StartTier)

\* Only recipes make or use up material: what is in stock and what purchases,
\* upgrades, refunds and deliveries have sunk into the factory add up to what
\* the recipes banked. Buying and dismantling in any order gains nothing.
NothingFromNothing ==
    \A i \in Items :
       Liquid(stock, i) + stock.bound[i]
         + Sunk(i, installed, storageLevel, qsLevel, tier) = banked[i] + SunkAtStart(i)

\* Stored and quantum stock stay within their caps through refunds, settling,
\* production and the caps' own changes; only bound stock has no cap.
StockWithinCaps ==
    \A i \in Items : /\ stock.stored[i] <= StorageCap(i)
                     /\ stock.quantum[i] <= QuantumCap(i)

\* The recipes of a pool never hold more machines than the pool has, whatever
\* is bought, dismantled, upgraded into fewer machines or reassigned.
AssignedWithinPool ==
    \A p \in Pools : AssignedIn(assigned, p) <= PoolSize(installed, p)

\* Tap stacks live exactly as long as their one timer, and a timer that a
\* resolve has passed does not outlive it, even when it fired in the window
\* the offline cap skips.
StacksHaveTimer ==
    /\ tapStacks > 0 <=> tapAt # NoTimer
    /\ pc = "idle" /\ tapAt # NoTimer => tapAt > now

\* Bound stock comes from nothing but a dismantle or an upgrade: production
\* that does not fit is lost, not bound.
BoundIsRefund ==
    [][(\E i \in Items : stock'.bound[i] > stock.bound[i])
         => \E p \in Pools, m \in Marks : installed'[p][m] < installed[p][m]]_vars

\* The caps are a gate on milestones: nothing is delivered that the caps of
\* the moment could not hold as liquid stock, however much is bound.
CapsGateMilestones ==
    [][tier' # tier => \A i \in Items :
          Milestone[tier'][i] <= StorageCap(i) + QuantumCap(i)]_vars

\* What the tests say of a world a resolve has left: bound stock waits only
\* while Quantum Storage is at its cap.
\* The code does not hold it where a delivery makes room; no run checks it.
BoundSettled ==
    [][pc # "idle" /\ pc' = "idle"
         => \A i \in Items : stock'.bound[i] > 0 => stock'.quantum[i] = QuantumCap(i)']_vars

\* actions/machines.ts clampAssignments, actions/economy.ts: no order of actions leaves machines
\* at work that are not there, and every variable has its type.
PoolsFit == TypeOK /\ AssignedWithinPool

\* economy/storage.ts, resolve/index.ts: neither the stock nor the timer of the tap stacks is
\* left where no rule of the engine could have put it.
StockLegal == StockWithinCaps /\ StacksHaveTimer
=============================================================================
