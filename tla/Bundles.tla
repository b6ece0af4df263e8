------------------------------ MODULE Bundles ------------------------------
(***************************************************************************)
(* packages/content/src: what an authored bundle must satisfy. A bundle is *)
(* a record of sequences, as its YAML files list them; numbers are whole,  *)
(* and a rate is only whether the item is listed.                          *)
(***************************************************************************)
EXTENDS Integers, SequencesExt

CONSTANT None            \* an optional field that is not there

Each(seq) == DOMAIN seq
Ids(seq) == {seq[k].id : k \in Each(seq)}
CostItems(costs) == {costs[k].item : k \in Each(costs)}
Named(seq, id) == seq[CHOOSE k \in Each(seq) : seq[k].id = id]
Most(S) == CHOOSE m \in S : \A n \in S : n <= m

----------------------------------------------------------------------------
(* schema.ts: the numbers a bundle may hold.                               *)

\* z.array: a list, whatever it is a list of.
IsList(x) == x \in Seq(Range(x))
Positive == Nat \ {0}
Growths == Positive \ {1}
CostOK(c) == c.amount \in Positive
\* The engine's name for power, which the schema would let an item have, is left to it.
ItemOK(i) == i.id \notin {None, "power"} /\ {i.storage, i.quantum} \subseteq Positive
MarkOK(m) == m.mark \in Positive /\ {m.draw, m.tier} \subseteq Nat
             /\ IsList(m.cost) /\ Len(m.cost) >= 1 /\ \A c \in Range(m.cost) : CostOK(c)
LadderOK(c) == c.step \in Growths /\ c.interval \in Positive
MachineClassOK(c) == /\ {"id", "marks"} \subseteq DOMAIN c /\ LadderOK(c) /\ c.ratio \in Growths
                     /\ IsList(c.marks) /\ Len(c.marks) >= 1 /\ \A m \in Range(c.marks) : MarkOK(m)
RecipeOK(r) == {r.mw, r.tier} \subseteq Nat /\ IsList(r.ins) /\ IsList(r.outs)
StorageCurveOK(c) == /\ {c.capGrowth, c.costGrowth} \subseteq Growths
                     /\ {c.costAmount, c.maxLevel, c.capPerTier} \subseteq Positive
\* Of laneMultipliers the lanes alone: `lanes', empty by default.
MilestoneOK(m) == /\ {"tier", "requires"} \subseteq DOMAIN m /\ m.tier \in Positive
                  /\ Len(m.requires) >= 1 /\ \A c \in Range(m.requires) : CostOK(c)
StartOK(s) == s.tier \in Nat /\ \A m \in Range(s.machines) : {m.mark, m.count} \subseteq Positive
\* Each solved number is under the bounds of the field it replaces.
DerivedOK(d, b) ==
    /\ Range(d.classes) \subseteq Growths
    /\ \A tier \in DOMAIN d.milestones : Range(d.milestones[tier]) \subseteq Positive
    /\ StorageCurveOK(d.storage @@ b.storage) /\ StorageCurveOK(d.quantum @@ b.quantum)

BundleOK(b) ==
    /\ {"lanes", "items", "classes", "recipes", "milestones", "storage", "quantum"} \subseteq DOMAIN b
    /\ IsList(b.lanes) /\ IsList(b.items) /\ IsList(b.classes) /\ IsList(b.recipes)
    /\ Len(b.lanes) >= 1 /\ Len(b.items) >= 1 /\ Len(b.classes) >= 1 /\ Len(b.recipes) >= 1
    /\ \A i \in Range(b.items) : ItemOK(i)
    /\ \A c \in Range(b.classes) : MachineClassOK(c)
    /\ \A r \in Range(b.recipes) : RecipeOK(r)
    /\ StorageCurveOK(b.storage) /\ StorageCurveOK(b.quantum)
    /\ IsList(b.milestones) /\ \A m \in Range(b.milestones) : MilestoneOK(m)
    /\ StartOK(b.start) /\ b.grid \in Nat /\ DerivedOK(b.derived, b)

----------------------------------------------------------------------------
(* load.ts: files laid over each other, the solved numbers over the seeds. *)

\* Lists join; of a scalar the last file wins. A field a file leaves out is absent.
MergeInto(target, source) ==
    LET lists == {"lanes", "items", "classes", "recipes", "milestones"}
    IN  [f \in DOMAIN target \cup DOMAIN source |->
           IF f \notin DOMAIN source THEN target[f]
           ELSE IF f \in lists /\ f \in DOMAIN target THEN target[f] \o source[f]
           ELSE source[f]]

\* `derived` is read as functions, the last entry of a key counting: the ratio of a
\* class, the amounts of a milestone, the fields of a curve. A block that names what the
\* bundle does not have describes another bundle.
Outdated(b) ==
    \/ ~(DOMAIN b.derived.classes \subseteq Ids(b.classes))
    \/ \E tier \in DOMAIN b.derived.milestones :
          LET asked == SelectSeq(b.milestones, LAMBDA m : m.tier = tier)
          IN  asked = <<>> \/ ~(DOMAIN b.derived.milestones[tier] \subseteq CostItems(asked[1].requires))

ApplyDerived(b) ==
    LET d == b.derived
        Amounts(m) == [k \in Each(m.requires) |->
                         [m.requires[k] EXCEPT !.amount =
                            IF m.requires[k].item \in DOMAIN d.milestones[m.tier]
                            THEN d.milestones[m.tier][m.requires[k].item] ELSE @]]
    IN  [b EXCEPT
           !.classes = [k \in Each(@) |->
               [@[k] EXCEPT !.ratio = IF b.classes[k].id \in DOMAIN d.classes
                                      THEN d.classes[b.classes[k].id] ELSE @]],
           !.milestones = [k \in Each(@) |->
               [@[k] EXCEPT !.requires = IF b.milestones[k].tier \in DOMAIN d.milestones
                                         THEN Amounts(b.milestones[k]) ELSE @]],
           !.storage = d.storage @@ @,
           !.quantum = d.quantum @@ @]

----------------------------------------------------------------------------
(* Check 2: references and duplicates.                                     *)

Twice(list) == {k \in Each(list) : \E j \in 1..(k - 1) : list[j].id = list[k].id} # {}

CheckReferences(b) ==
    LET items == Ids(b.items)
        lanes == Ids(b.lanes)
        recipes == Ids(b.recipes)
        marksOf(class) == {Named(b.classes, class).marks[k].mark : k \in Each(Named(b.classes, class).marks)}
    IN  /\ ~Twice(b.lanes) /\ ~Twice(b.items) /\ ~Twice(b.classes) /\ ~Twice(b.recipes)
        /\ \A i \in Range(b.items) : i.lane \in lanes
        /\ \A c \in Range(b.classes) : \A m \in Range(c.marks) : CostItems(m.cost) \subseteq items
        /\ \A r \in Range(b.recipes) : /\ r.lane \in lanes /\ r.class \in Ids(b.classes)
                                       /\ Range(r.ins) \subseteq items
                                       /\ CostItems(r.outs) \subseteq items
        /\ {b.storage.costItem, b.quantum.costItem} \subseteq items \cup {None}
        /\ \A m \in Range(b.milestones) : CostItems(m.requires) \subseteq items /\ m.lanes \subseteq lanes
        /\ \A s \in Range(b.start.machines) :
              s.lane \in lanes /\ s.class \in Ids(b.classes) /\ s.mark \in marksOf(s.class)
        /\ DOMAIN b.start.assignments \subseteq recipes
        /\ Range(b.start.priority) \subseteq items

----------------------------------------------------------------------------
(* Checks 3, 4, 5 and 7, over the recipes that no cycle makes unselectable. *)

Outputs(r) == CostItems(r.outs)

\* `selectable` is a set of recipes.
EarliestProduction(selectable, i) ==
    LET tiers == {r.tier : r \in {r \in selectable : i \in Outputs(r)}}
    IN  IF tiers = {} THEN None ELSE CHOOSE t \in tiers : \A u \in tiers : t <= u

CheckProducers(b, selectable) ==
    \A i \in Ids(b.items) : EarliestProduction(selectable, i) # None

CheckConsumers(b, selectable) ==
    LET built == UNION {UNION {CostItems(m.cost) : m \in Range(c.marks)}
                        : c \in Range(b.classes)}
        consumed == (UNION {Range(r.ins) : r \in selectable}) \cup built
    IN  \A i \in Range(b.items) : i.terminal \/ i.id \in consumed

CheckByproductOutlets(b, selectable) ==
    \A r \in selectable : \A o \in Range(r.outs) :
       o.byproduct => \E c \in selectable : o.item \in Range(c.ins) /\ c.tier <= r.tier

\* What a recipe needs to run in the bootstrap: its tier, its class, its inputs.
RunsWith(r, tier, have) ==
    r.tier <= tier /\ r.class \in have.classes /\ Range(r.ins) \subseteq have.items

BuildableWith(c, tier, items) ==
    \E m \in Range(c.marks) : m.tier <= tier /\ CostItems(m.cost) \subseteq items

\* One turn of the bootstrap.
Bootstrap(b, selectable, tier, have) ==
    LET items == have.items \cup UNION {Outputs(r) : r \in {r \in selectable : RunsWith(r, tier, have)}}
    IN  [items |-> items,
         classes |-> have.classes \cup {c.id : c \in {c \in Range(b.classes) : BuildableWith(c, tier, items)}}]

Makes(recipes) == UNION {Outputs(r) : r \in recipes}
StartingClasses(b) == {m.class : m \in Range(b.start.machines)}

\* What a turn adds nothing to. Turns only add, so where they end is the least of these.
Finished(b, selectable, tier) ==
    {have \in [items : SUBSET Makes(selectable), classes : SUBSET (StartingClasses(b) \cup Ids(b.classes))] :
       StartingClasses(b) \subseteq have.classes /\ Bootstrap(b, selectable, tier, have) = have}

ProducibleAtTier(b, selectable, tier) ==
    {i \in Makes(selectable) : \A have \in Finished(b, selectable, tier) : i \in have.items}

CheckBuildCostsSatisfiable(b, selectable) ==
    \A c \in Range(b.classes) : \A m \in Range(c.marks) :
       CostItems(m.cost) \subseteq ProducibleAtTier(b, selectable, m.tier)

----------------------------------------------------------------------------
(* Checks 8, 9, 10 and 12. Whole numbers see the 0.1% margin of check 8    *)
(* only at equality.                                                       *)

CheckRunawayGrowth(b) == \A c \in Range(b.classes) : c.ratio ^ c.interval > c.step

\* curves.ts: what a curve makes of a base capacity.
CapAtLevel(base, curve, level, tier) == base * curve.capGrowth ^ level * curve.capPerTier ^ tier
LevelCost(curve, level) == curve.costAmount * curve.costGrowth ^ level

MaxAttainableCap(b, i, tier) ==
    CapAtLevel(i.storage, b.storage, b.storage.maxLevel, tier)
    + CapAtLevel(i.quantum, b.quantum, b.quantum.maxLevel, tier)

DeepestTier(b) ==
    Most({0} \cup {m.tier : m \in Range(b.milestones)}
             \cup UNION {{m.tier : m \in Range(c.marks)} : c \in Range(b.classes)})

CheckStorageReachesCosts(b) ==
    LET Holds(cost, tier) ==
            cost.item \in Ids(b.items) => cost.amount <= MaxAttainableCap(b, Named(b.items, cost.item), tier)
    IN  /\ \A c \in Range(b.classes) : \A m \in Range(c.marks) : \A cost \in Range(m.cost) :
              Holds(cost, DeepestTier(b))
        /\ \A m \in Range(b.milestones) : \A cost \in Range(m.requires) :
              Holds(cost, Most({0, m.tier - 1}))

CheckGeneratorCapacity(b) ==
    LET tiers == UNION {{m.tier : m \in Range(c.marks)} : c \in Range(b.classes)}
        First(c, tier) == LET open == SelectSeq(c.marks, LAMBDA m : m.tier <= tier)
                          IN  FoldLeft(LAMBDA a, m : IF m.tier < a.tier THEN m ELSE a, open[1], open)
        Draws(tier) == FoldLeft(LAMBDA sum, c : sum + IF \E m \in Range(c.marks) : m.tier <= tier
                                                      THEN First(c, tier).draw ELSE 0, 0, b.classes)
    IN  \A t \in tiers : \/ \E r \in Range(b.recipes) : r.tier <= t /\ r.mw > 0
                         \/ Draws(t) <= b.grid

\* Mutant of Ladder: the other ladder is not climbed at all.
LadderAlone(b, i, level, storageSide) ==
    IF storageSide
    THEN CapAtLevel(i.storage, b.storage, level, DeepestTier(b))
         + CapAtLevel(i.quantum, b.quantum, 0, DeepestTier(b))
    ELSE CapAtLevel(i.storage, b.storage, 0, DeepestTier(b))
         + CapAtLevel(i.quantum, b.quantum, level, DeepestTier(b))

\* The most a player holds on one ladder's level, the other one climbed already.
Ladder(b, i, level, storageSide) ==
    IF storageSide
    THEN CapAtLevel(i.storage, b.storage, level, DeepestTier(b))
         + CapAtLevel(i.quantum, b.quantum, b.quantum.maxLevel, DeepestTier(b))
    ELSE CapAtLevel(i.storage, b.storage, b.storage.maxLevel, DeepestTier(b))
         + CapAtLevel(i.quantum, b.quantum, level, DeepestTier(b))

Climbable(b, curve, storageSide) ==
    curve.costItem \in Ids(b.items) =>
       \A level \in 0..(curve.maxLevel - 1) :
          LevelCost(curve, level) <= Ladder(b, Named(b.items, curve.costItem), level, storageSide)

CheckStorageLadderClimbable(b) == Climbable(b, b.storage, TRUE) /\ Climbable(b, b.quantum, FALSE)

----------------------------------------------------------------------------

\* validateBundle: the numbers of the checks that fail. Check 6 only warns.
ValidateBundle(b, selectable) ==
    {n \in {2, 3, 4, 5, 7, 8, 9, 10, 12} :
       CASE n = 2 -> ~CheckReferences(b)
         [] n = 3 -> ~CheckProducers(b, selectable)
         [] n = 4 -> ~CheckConsumers(b, selectable)
         [] n = 5 -> ~CheckByproductOutlets(b, selectable)
         [] n = 7 -> ~CheckBuildCostsSatisfiable(b, selectable)
         [] n = 8 -> ~CheckRunawayGrowth(b)
         [] n = 9 -> ~CheckStorageReachesCosts(b)
         [] n = 10 -> ~CheckGeneratorCapacity(b)
         [] n = 12 -> ~CheckStorageLadderClimbable(b)}
=============================================================================
