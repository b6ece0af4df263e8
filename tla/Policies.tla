------------------------------ MODULE Policies ------------------------------
(***************************************************************************)
(* apps/sim/src/policies.ts: the four policies, and the loop of run.ts     *)
(* that applies what they decide one action at a time. The world is one    *)
(* lane-class of recipes, each the maker of an item of its own; what the   *)
(* solver says (idle recipes, full items, working reserves, the report)    *)
(* is free at every decision.                                              *)
(***************************************************************************)
EXTENDS Integers, Sequences, FiniteSets, SequencesExt, FiniteSetsExt

CONSTANTS
    Recipes,           \* each makes the item of its name
    LiveFrom,          \* recipe -> the tier from which it is live
    Requires,          \* tier -> sequence of items (milestones)
    AuthoredOrder,     \* start.priority, a sequence of items
    Reservable,        \* items the report may ask to bank
    MachinePrice(_), LevelPrice(_),        \* owned, level -> price
    MaxLevel, MaxMoney, MaxOwned, MaxTier,       \* bounds
    Income,            \* what an interval earns
    Patience           \* the 50 of casual's loop

VARIABLES
    policy,
    world,             \* [tier, assigned, installed, list, money, level, reserve]
    refused,           \* an action of the last decision was rejected
    received,          \* recipe -> how often a reassignment gave it machines
    decided            \* a decision was the last step

policies == <<policy, world, refused, received, decided>>

Live(w) == {r \in Recipes : LiveFrom[r] <= w.tier}
Assigned(w) == FoldFunctionOnSet(+, 0, w.assigned, Recipes)
Position(list, id) == CHOOSE i \in DOMAIN list : list[i] = id

\* Ranked by the priority list; ties cannot occur, since a recipe makes its own item.
First(w, rs) == CHOOSE r \in rs : \A q \in rs : Position(w.list, r) <= Position(w.list, q)

Names == {"greedy", "casual", "bottleneck", "optimal"}

PoliciesInit ==
    /\ \E list \in {AuthoredOrder, Reverse(AuthoredOrder)} :
          world = [tier |-> 0, assigned |-> [r \in Recipes |-> 0], installed |-> 0,
                   list |-> <<"power">> \o list, money |-> Income, level |-> 0,
                   reserve |-> {}]
    /\ refused = FALSE /\ received = [r \in Recipes |-> 0] /\ decided = FALSE

----------------------------------------------------------------------------
\* What the engine does with an action: [world, ok]. actions/apply.ts is in Economy.

Assign(r, n) == [type |-> "ASSIGN_MACHINES", recipe |-> r, count |-> n]
Buy(r, n) == [type |-> "BUY_MACHINE", recipe |-> r, count |-> n]
Reorder(list) == [type |-> "REORDER_PRIORITY", entries |-> list]
BuyLevel == [type |-> "BUY_STORAGE"]
Reserve(r, on) == [type |-> "SET_RESERVE", item |-> r, on |-> on]

RECURSIVE PriceOf(_, _)
PriceOf(owned, n) == IF n = 0 THEN 0 ELSE MachinePrice(owned) + PriceOf(owned + 1, n - 1)

\* The recipe a machine lands on: the one bought for, or the first live one.
LandsOn(w, a) == IF a.recipe \in Recipes THEN {a.recipe}
                 ELSE IF Live(w) = {} THEN {} ELSE {First(w, Live(w))}

Accepts(w, a) ==
    CASE a.type = "ASSIGN_MACHINES" ->
            a.recipe \in Live(w) /\ Assigned(w) - w.assigned[a.recipe] + a.count <= w.installed
      [] a.type = "BUY_MACHINE" ->
            PriceOf(w.installed, a.count) <= w.money /\ (a.recipe \in Recipes => a.recipe \in Live(w))
      [] a.type = "REORDER_PRIORITY" ->
            Len(a.entries) = Len(w.list) /\ ToSet(a.entries) = ToSet(w.list)
      [] a.type = "BUY_STORAGE" -> w.level < MaxLevel /\ LevelPrice(w.level) <= w.money
      [] a.type = "SET_RESERVE" -> TRUE

Applied(w, a) ==
    CASE a.type = "ASSIGN_MACHINES" -> [w EXCEPT !.assigned[a.recipe] = a.count]
      [] a.type = "BUY_MACHINE" ->
            [w EXCEPT !.money = @ - PriceOf(w.installed, a.count), !.installed = @ + a.count,
                      !.assigned = [r \in Recipes |->
                                       @[r] + (IF r \in LandsOn(w, a) THEN a.count ELSE 0)]]
      [] a.type = "REORDER_PRIORITY" -> [w EXCEPT !.list = a.entries]
      [] a.type = "BUY_STORAGE" -> [w EXCEPT !.money = @ - LevelPrice(w.level), !.level = @ + 1]
      [] a.type = "SET_RESERVE" ->
            [w EXCEPT !.reserve = IF a.on THEN @ \cup {a.item} ELSE @ \ {a.item}]

\* run.ts: a rejected action is skipped.
Run(w, actions) ==
    FoldLeft(LAMBDA s, a : IF Accepts(s.world, a) THEN [s EXCEPT !.world = Applied(s.world, a)]
                           ELSE [s EXCEPT !.refused = TRUE],
             [world |-> w, refused |-> FALSE], actions)

----------------------------------------------------------------------------
\* idleReassignments

\* Live, with nothing assigned and room for its output.
Starved(w, full) == {r \in Live(w) : w.assigned[r] = 0 /\ r \notin full}

Donors(w, idle) == {r \in Live(w) : w.assigned[r] > 0 /\ r \in idle}

\* The most machines first, then by id.
Donor(w, ds) ==
    CHOOSE r \in ds : \A q \in ds :
       \/ w.assigned[r] > w.assigned[q]
       \/ w.assigned[r] = w.assigned[q] /\ Position(AuthoredOrder, r) <= Position(AuthoredOrder, q)

\* Half, so that a donor that is only stalled for a moment is not stripped bare.
Moved(held) == IF held \div 2 > 1 THEN held \div 2 ELSE 1

\* Mutant of MoveFrom: the starved recipe grows before the donor shrinks.
MoveFromLate(donor, held, to) == <<Assign(to, Moved(held)), Assign(donor, held - Moved(held))>>

\* The donor shrinks first: ASSIGN_MACHINES rejects an oversubscribed pool.
MoveFrom(donor, held, to) == <<Assign(donor, held - Moved(held)), Assign(to, Moved(held))>>

Between(w, donor, to) ==
    IF Moved(w.assigned[donor]) >= w.assigned[donor] THEN <<>>
    ELSE MoveFrom(donor, w.assigned[donor], to)

IdleReassignments(w, idle, full) ==
    IF Cardinality(Live(w)) < 2 \/ Starved(w, full) = {} \/ Donors(w, idle) = {} THEN <<>>
    ELSE Between(w, Donor(w, Donors(w, idle)), First(w, Starved(w, full)))

----------------------------------------------------------------------------
\* milestoneFirstReorder

Upcoming(w) == IF w.tier + 1 \in DOMAIN Requires THEN Requires[w.tier + 1] ELSE <<>>

\* [...new Set(items)]
Distinct(items) ==
    FoldLeft(LAMBDA seen, i : IF i \in ToSet(seen) THEN seen ELSE Append(seen, i), <<>>, items)

Lead(w) == Distinct(Upcoming(w))
Rest(w) == SelectSeq(AuthoredOrder, LAMBDA i : i \notin ToSet(Lead(w)))
Desired(w) == <<"power">> \o Lead(w) \o Rest(w)

MilestoneFirst(w) == IF Desired(w) = w.list THEN <<>> ELSE <<Reorder(Desired(w))>>

----------------------------------------------------------------------------
\* affordableCandidates and cheapest: one machine of a live class, one level of storage.

Offers(w) ==
    {o \in {<<MachinePrice(w.installed), "machine", Buy("any", 1)>>, <<LevelPrice(w.level), "storage", BuyLevel>>} :
       /\ o[1] <= w.money
       /\ IF o[2] = "machine" THEN Live(w) # {} ELSE Live(w) # {} /\ w.level < MaxLevel}

\* The lowest score; "machine" comes before "storage" on a tie.
Cheapest(offers) ==
    CHOOSE o \in offers : \A p \in offers : o[1] < p[1] \/ (o[1] = p[1] /\ (o[2] = "machine" \/ p = o))

Pick(w) == IF Offers(w) = {} THEN <<>> ELSE <<Cheapest(Offers(w))[3]>>

RECURSIVE Spree(_, _)
\* casual's loop: a whole backlog in one sitting.
Spree(w, n) ==
    IF n = 0 \/ Offers(w) = {} THEN <<>>
    ELSE Pick(w) \o Spree(Applied(w, Pick(w)[1]), n - 1)

----------------------------------------------------------------------------
\* The four decide functions.

Greedy(w, idle, full) == MilestoneFirst(w) \o IdleReassignments(w, idle, full) \o Pick(w)

Casual(w, idle, full) == IdleReassignments(w, idle, full) \o Spree(w, Patience)

\* Optimal looks ahead from the list as reordered; which offer is worth most is the solver's.
Optimal(w, idle, full, offer) ==
    MilestoneFirst(w) \o IdleReassignments(Run(w, MilestoneFirst(w)).world, idle, full) \o offer

\* A reserve is cleared once it is neither reported nor working.
Dropped(w, working, report) ==
    w.reserve \ (working \cup (IF report.kind = "reserve" THEN {report.item} ELSE {}))

\* The largest count up to the advice that can be paid.
Payable(w, n) == {c \in 1..n : PriceOf(w.installed, c) <= w.money}

Follow(w, report) ==
    CASE report.kind = "none" -> <<>>
      [] report.kind = "reserve" ->
            IF report.item \in w.reserve THEN <<>> ELSE <<Reserve(report.item, TRUE)>>
      [] report.kind = "storage" ->
            IF LevelPrice(w.level) <= w.money /\ report.upgrade THEN <<BuyLevel>> ELSE <<>>
      [] report.kind = "recipe" ->
            IF Payable(w, report.count) = {} THEN <<>>
            ELSE <<Buy(IF report.recipe \in Live(w) THEN report.recipe ELSE "any",
                       Max(Payable(w, report.count)))>>

Bottleneck(w, idle, full, working, report) ==
    IdleReassignments(w, idle, full)
    \o [i \in 1..Cardinality(Dropped(w, working, report)) |->
           Reserve(SetToSeq(Dropped(w, working, report))[i], FALSE)]
    \o Follow(w, report)

\* The reports a solution of this world can carry: an upgrade is offered below the last level.
ReportsOf(w) ==
    [kind : {"none"}] \cup [kind : {"reserve"}, item : Reservable]
    \cup [kind : {"storage"}, upgrade : {w.level < MaxLevel, FALSE}]
    \cup [kind : {"recipe"}, recipe : Recipes, count : 1..2]

----------------------------------------------------------------------------

Gains(actions) ==
    {r \in Recipes : \E i \in DOMAIN actions :
        actions[i].type = "ASSIGN_MACHINES" /\ actions[i].recipe = r /\ actions[i].count > world.assigned[r]}

Decides(actions) ==
    /\ world' = Run(world, actions).world
    /\ refused' = Run(world, actions).refused
    /\ received' = [r \in Recipes |-> received[r] + (IF r \in Gains(actions) THEN 1 ELSE 0)]
    /\ decided' = TRUE /\ UNCHANGED policy

Idle == SUBSET {r \in Recipes : world.assigned[r] > 0}
\* Only a recipe with nothing assigned is asked whether its item is full.
Full == SUBSET {r \in Recipes : world.assigned[r] = 0}
Bounded == ~decided /\ world.installed < MaxOwned

DecideGreedy == policy = "greedy" /\ Bounded /\ \E i \in Idle, f \in Full : Decides(Greedy(world, i, f))
DecideCasual == policy = "casual" /\ Bounded /\ \E i \in Idle, f \in Full : Decides(Casual(world, i, f))

DecideOptimal ==
    /\ policy = "optimal" /\ Bounded
    /\ \E i \in Idle, f \in Full, o \in {<<>>} \cup {<<p[3]>> : p \in Offers(world)} :
          Decides(Optimal(world, i, f, o))

DecideBottleneck ==
    /\ policy = "bottleneck" /\ Bounded
    /\ \E i \in Idle, f \in Full, g \in SUBSET world.reserve, r \in ReportsOf(world) :
          Decides(Bottleneck(world, i, f, g, r))

\* The interval: income, and perhaps the next tier.
Elapse ==
    /\ decided
    /\ \E tiers \in 0..1 :
          /\ world.tier + tiers <= MaxTier
          /\ world' = [world EXCEPT !.tier = @ + tiers,
                                    !.money = IF @ + Income > MaxMoney THEN MaxMoney ELSE @ + Income]
    /\ refused' = FALSE /\ decided' = FALSE /\ UNCHANGED <<policy, received>>

PoliciesNext == DecideGreedy \/ DecideCasual \/ DecideOptimal \/ DecideBottleneck \/ Elapse

----------------------------------------------------------------------------

\* policies.ts:100-110 and 252-255: whatever the solver says, every action of a decision is
\* accepted when its turn comes, on the world the ones before it left.
NothingRefused == ~refused

\* policies.ts:127-132: reassignment cannot oscillate. A recipe is given machines that way at
\* most once in a whole run, however often it and the others fall idle afterwards.
GivenOnce == \A r \in Recipes : received[r] <= 1

\* policies.ts:282-288: a delivered milestone's items go back where the author put them, and
\* a second decision at the same tier changes nothing in the list.
ReorderSettles ==
    [][(decided' /\ ~decided /\ policy \in {"greedy", "optimal"}) =>
          /\ MilestoneFirst(world') = <<>>
          /\ \A i, j \in 1..Len(world'.list) :
                (i < j /\ {world'.list[i], world'.list[j]} \cap (ToSet(Upcoming(world)) \cup {"power"}) = {})
                   => Position(AuthoredOrder, world'.list[i]) < Position(AuthoredOrder, world'.list[j])]_policies

\* policies.ts: a run's decisions are carried out as made and come to rest.
DecisionsSettle == [](NothingRefused /\ GivenOnce) /\ ReorderSettles
=============================================================================
