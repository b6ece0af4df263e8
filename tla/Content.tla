------------------------------ MODULE Content ------------------------------
(***************************************************************************)
(* A bundle from its files to the engine: content/src/cli.ts loads and     *)
(* validates it, and graph/index-content.ts indexes it. Loading and        *)
(* checking are a step each; Tarjan's walk over the recipes and Kahn's     *)
(* over the items are taken one turn at a time.                            *)
(***************************************************************************)
EXTENDS Components, Ordering, Bundles

CONSTANTS
    Directories,     \* the directories there may be, each a sequence of parsed files
    Defaults         \* what schema.ts puts in for a field that is not there

VARIABLES
    files, b, phase,
    failed,          \* the numbers of the checks that fail
    active           \* item -> the recipe a new world makes it with

vars == <<files, b, phase, failed, active, nodes, edges, ranked, dependsOn, walk, sorting>>
graph == <<nodes, edges>>
itemGraph == <<ranked, dependsOn>>

----------------------------------------------------------------------------

\* R depends on S when R consumes an item S produces.
DependsOn(recipes, r) == {s.id : s \in {s \in Range(recipes) : Outputs(s) \cap Range(r.ins) # {}}}

RecipeGraph(recipes) == [id \in Ids(recipes) |-> DependsOn(recipes, Named(recipes, id))]

Cyclic == UNION cycles
Selectable == {r \in Range(b.recipes) : r.id \notin Cyclic}

\* The engine's items: power is the last of them.
EngineItems == Ids(b.items) \cup {"power"}
Yields(r) == Outputs(r) \cup (IF r.mw > 0 THEN {"power"} ELSE {})

\* What each item is made from; a recipe in a cycle does not count.
Needs == [i \in EngineItems |-> (UNION {Range(r.ins) : r \in {r \in Selectable : i \in Yields(r)}}) \ {i}]

\* The output a recipe is selected for: its first that is no byproduct, or power.
PrimaryOutput(r) ==
    LET main == SelectSeq(r.outs, LAMBDA o : ~o.byproduct)
    IN  IF main # <<>> THEN main[1].item ELSE IF r.mw > 0 THEN "power" ELSE None

\* The recipe a new world makes an item with.
DefaultActive(i) ==
    LET candidates == SelectSeq(b.recipes, LAMBDA r : PrimaryOutput(r) = i /\ r \in Selectable)
        usual == SelectSeq(candidates, LAMBDA r : ~r.alt)
    IN  IF usual # <<>> THEN usual[1].id ELSE IF candidates # <<>> THEN candidates[1].id ELSE None

----------------------------------------------------------------------------

Init ==
    /\ files \in Directories
    /\ b = <<>> /\ phase = "load" /\ failed = {} /\ active = <<>>
    /\ nodes = <<>> /\ edges = <<>> /\ StartWalk
    /\ ranked = <<>> /\ dependsOn = <<>> /\ remaining = <<>> /\ ready = {} /\ order = <<>>

\* loadBundleDir: a file that throws is reported as check 1.
Load ==
    /\ phase = "load"
    /\ LET merged == FoldLeft(MergeInto, <<>>, files) @@ Defaults
       IN  IF BundleOK(merged) /\ ~Outdated(merged)
           THEN /\ b' = ApplyDerived(merged)
                /\ phase' = "components"
                /\ nodes' = [k \in Each(merged.recipes) |-> merged.recipes[k].id]
                /\ edges' = RecipeGraph(merged.recipes)
                /\ UNCHANGED failed
           ELSE /\ phase' = "refused" /\ failed' = {1}
                /\ UNCHANGED <<b, graph>>
    /\ UNCHANGED <<files, active, walk, itemGraph, sorting>>

FindComponents ==
    /\ phase = "components"
    /\ WalkStep
    /\ UNCHANGED <<files, b, phase, failed, active, graph, itemGraph, sorting>>

\* validateBundle and the cli's verdict: a warning refuses nothing.
Validate ==
    /\ phase = "components" /\ Walked
    /\ failed' = ValidateBundle(b, Selectable)
    /\ phase' = IF failed' = {} THEN "index" ELSE "refused"
    /\ UNCHANGED <<files, b, active, graph, walk, itemGraph, sorting>>

\* indexContent throws for a recipe that makes nothing to be selected for.
IndexContent ==
    /\ phase = "index"
    /\ IF \E r \in Range(b.recipes) : PrimaryOutput(r) = None
       THEN phase' = "unplayable" /\ UNCHANGED <<active, itemGraph, sorting>>
       ELSE /\ phase' = "order"
            /\ ranked' = Append([k \in Each(b.items) |-> b.items[k].id], "power")
            /\ dependsOn' = Needs
            /\ active' = [i \in EngineItems |-> DefaultActive(i)]
            /\ StartOrder(Needs)
    /\ UNCHANGED <<files, b, failed, graph, walk>>

OrderItem ==
    /\ phase = "order"
    /\ Place
    /\ UNCHANGED <<files, b, phase, failed, active, graph, walk, itemGraph>>

EndOrder ==
    /\ phase = "order"
    /\ Finish
    /\ phase' = "ready"
    /\ UNCHANGED <<files, b, failed, active, graph, walk, itemGraph>>

Next == Load \/ FindComponents \/ Validate \/ IndexContent \/ OrderItem \/ EndOrder

Spec == Init /\ [][Next]_vars

----------------------------------------------------------------------------
(* What a bundle that passes is good for.                                  *)

\* What a player reaches at a tier: owned machines stand in a lane, and a lane's
\* recipes run on that lane's machines only.
PlayOn(tier, have) ==
    LET made == have.items \cup UNION {Outputs(r) : r \in {r \in Selectable :
                    r.tier <= tier /\ <<r.lane, r.class>> \in have.owned /\ Range(r.ins) \subseteq have.items}}
    IN  [items |-> made,
         owned |-> have.owned \cup {<<l, c.id>> : l \in Ids(b.lanes),
                                     c \in {c \in Range(b.classes) : BuildableWith(c, tier, made)}}]

Stand == {<<m.lane, m.class>> : m \in Range(b.start.machines)}
Places == Stand \cup (Ids(b.lanes) \X Ids(b.classes))

\* Where playing on gets a player nothing more; the least of these is where it leads.
PlayedOut(tier) ==
    {have \in [items : SUBSET Makes(Selectable), owned : SUBSET Places] :
       Stand \subseteq have.owned /\ PlayOn(tier, have) = have}

Played(tier) == {i \in Makes(Selectable) : \A have \in PlayedOut(tier) : i \in have.items}

EveryMarkBuyable ==
    \A c \in Range(b.classes) : \A m \in Range(c.marks) :
       CostItems(m.cost) \subseteq Played(m.tier)

\* The premise of the check: a class a world starts with stands in every lane that uses it.
StartsEverywhere ==
    \A m \in Range(b.start.machines) : \A r \in Range(b.recipes) :
       r.class = m.class => \E n \in Range(b.start.machines) : n.lane = r.lane /\ n.class = r.class

Levels == [storage : 0..b.storage.maxLevel, quantum : 0..b.quantum.maxLevel]
AllBought == [storage |-> b.storage.maxLevel, quantum |-> b.quantum.maxLevel]

\* The most of an item a player holds at these levels.
Hold(item, at) ==
    CapAtLevel(Named(b.items, item).storage, b.storage, at.storage, DeepestTier(b))
    + CapAtLevel(Named(b.items, item).quantum, b.quantum, at.quantum, DeepestTier(b))

\* The levels a player may buy next, of either ladder.
Purchases(at) ==
    LET Buys(curve, level) == /\ level < curve.maxLevel
                              /\ curve.costItem = None \/ LevelCost(curve, level) <= Hold(curve.costItem, at)
    IN  (IF Buys(b.storage, at.storage) THEN {[storage |-> at.storage + 1, quantum |-> at.quantum]} ELSE {})
        \cup (IF Buys(b.quantum, at.quantum) THEN {[storage |-> at.storage, quantum |-> at.quantum + 1]} ELSE {})

\* Some order of purchases leads from no level to all: every set of levels that holds
\* none and whatever can be bought next holds the top.
Climbs ==
    \A S \in SUBSET Levels :
       [storage |-> 0, quantum |-> 0] \in S /\ (\A at \in S : Purchases(at) \subseteq S) => AllBought \in S

----------------------------------------------------------------------------
(* Properties.                                                             *)

Accepted == phase \in {"index", "order", "ready"}

\* graph/index-content.ts:172-216: in the order the solver's vectors are computed in,
\* every item comes after all that any selectable recipe makes it from, and no item is
\* left over as waiting for itself: what Tarjan's walk takes out is all Kahn's needs.
ItemsOrdered ==
    phase = "ready" =>
       /\ Range(order) = EngineItems /\ Len(order) = Len(b.items) + 1
       /\ \A r \in Range(b.recipes) : r.id \notin Reached(r.id) =>
             \A i \in Range(r.ins), o \in Yields(r) :
                \E j, k \in DOMAIN order : j < k /\ order[j] = i /\ order[k] = o

\* validate/graph.ts:107-125: in a bundle that passes and starts with its machines in
\* every lane that uses them, a player who only makes and buys comes to afford every
\* mark at the tier that unlocks it, and no other bundle that starts so fails check 7.
MarksBuyable ==
    /\ Accepted /\ StartsEverywhere => EveryMarkBuyable
    /\ phase = "refused" /\ 7 \in failed /\ 2 \notin failed => ~EveryMarkBuyable

\* validate/economy.ts:216-247: check 12 refuses only ladders that no order of purchases
\* climbs to the top.
NoFalseAlarm ==
    12 \in failed /\ 2 \notin failed => ~Climbs

\* validate/graph.ts:108-117, without the premise: "a circularity cannot bootstrap
\* itself into the answer".
\* The code does not hold it; no run checks it.
BootstrapIsReal == Accepted => EveryMarkBuyable

\* validate/economy.ts:244-246: check 9's cap "is attainable only if the ladder can
\* actually be climbed to maxLevel; when this check passes, that premise holds".
\* The code does not hold it; no run checks it.
LaddersClimbable == Accepted => Climbs

\* validate/scc.ts and graph/index-content.ts see the same cycles: what one leaves out of the
\* item graph is what the other's order needs.
GraphRead == ComponentsAreCycles /\ ItemsOrdered

\* validate/graph.ts, validate/economy.ts: checks 7 and 12 answer as a player would find it.
ChecksTellTheTruth == MarksBuyable /\ NoFalseAlarm
=============================================================================
