------------------------------- MODULE Advice -------------------------------
(***************************************************************************)
(* packages/engine/src/solve/bottleneck.ts: from the report of a solve to  *)
(* the one purchase that a player is advised to make.                      *)
(*                                                                         *)
(* The report `w` is given (see MCEngine). A behaviour is one call: the     *)
(* milestone's requirements, the walk along full outputs, and the chain of *)
(* redirects from a price nobody can pay. `visited` is each walk's own.    *)
(* The number of machines to buy is left out.                              *)
(***************************************************************************)
EXTENDS Integers, SequencesExt, FiniteSets

CONSTANTS
    Power, None,
    Items,             \* the stock items
    Recipes,           \* in bundle order
    Inputs, Outputs,   \* recipe -> its items, in authored order; Power is no output here
    Primary,           \* recipe -> the item it is selected for
    UnlockTier,        \* recipe -> tier
    Marks,             \* recipe -> its class's marks, the best last: [unlockTier, price]
    Lane,              \* item -> lane
    StorageCurve, QuantumCurve,                       \* level -> [cap, price of the next]
    Requires,          \* the next milestone's requirements: [item, amount]
    Horizon            \* ticks after which a payer is slow

Recs == ToSet(Recipes)
Targets == Items \cup {Power}
Entries == [item : Targets, limitedBy : Recs \cup {None}]
Costs == [item : Items, amount : Nat]
Prices == {None} \cup Seq(Costs)

\* The bundle is indexed: what recipes, prices and requirements name is there.
ASSUME Indexed ==
    /\ IsFiniteSet(Items) /\ Power \notin Items
    /\ None \notin Items \cup Recs \cup Costs
    /\ Recipes \in Seq(Recs)
    /\ \A r \in Recs :
          /\ Inputs[r] \in Seq(Items) /\ Outputs[r] \in Seq(Items)
          /\ Marks[r] \in Seq([unlockTier : Nat, price : Prices \ {None}])
    /\ \A l \in DOMAIN StorageCurve : StorageCurve[l].price \in Prices
    /\ \A l \in DOMAIN QuantumCurve : QuantumCurve[l].price \in Prices
    /\ Requires \in Seq(Costs)

VARIABLES
    w,                 \* the report
    stage, requirement,
    visited,           \* the items the walk at hand does not enter again
    hop,               \* the walk: [item | recipe, target, preferred | slow]
    advice,            \* [kind, recipe | item, upgrade, target]
    passes             \* of the redirect loop

vars == <<w, stage, requirement, visited, hop, advice, passes>>

ToRecipe(r, t) == [kind |-> "recipe", recipe |-> r, target |-> t]
ToPower(r, t) == [kind |-> "power", recipe |-> r, target |-> t]
ToReserve(i, t) == [kind |-> "reserve", item |-> i, target |-> t]
NoAdvice == [kind |-> "none"]

----------------------------------------------------------------------------
(* The report.                                                             *)

FirstIn(s, Test(_)) == IF \E k \in DOMAIN s : Test(s[k]) THEN s[SelectInSeq(s, Test)] ELSE None

IsLive(r) == UnlockTier[r] <= w.tier /\ w.active[Primary[r]] = r

ActiveLive(i) == IF w.active[i] # None /\ IsLive(w.active[i]) THEN w.active[i] ELSE None

Cap(i) == StorageCurve[w.storage[i]].cap + QuantumCurve[w.quantum[Lane[i]]].cap
Tag(i) == IF w.stock[i] = 0 THEN "EMPTY" ELSE IF w.stock[i] >= Cap(i) THEN "FULL" ELSE "FLOWING"
Makers(i) == {r \in Recs : i \in ToSet(Outputs[r])}
Made(i) == \E r \in Makers(i) : w.runs[r]
Consumes(r, i) == i \in ToSet(Inputs[r])

\* Held by the FULL sweep: a tank that drains throttles nothing.
HeldAtCap(i) == Tag(i) = "FULL" /\ w.net[i] >= 0

\* Mutant of HeldOutput: byproducts are not looked at.
HeldFirst(r, except) ==
    FirstIn(IF Outputs[r] = <<>> THEN <<>> ELSE <<Head(Outputs[r])>>, LAMBDA i : i \notin except /\ HeldAtCap(i))

HeldOutput(r, except) == FirstIn(Outputs[r], LAMBDA i : i \notin except /\ HeldAtCap(i))
HasEmptyInput(r) == \E i \in ToSet(Inputs[r]) : Tag(i) = "EMPTY"

\* What a solve can report: the waterfall counts the units of live recipes alone.
ReportOK ==
    /\ \A i \in Targets : w.active[i] \in Recs \cup {None}
    /\ \A i \in Items : w.storage[i] \in DOMAIN StorageCurve /\ w.quantum[Lane[i]] \in DOMAIN QuantumCurve
    /\ w.entries \in Seq(Entries)
    /\ \A e \in ToSet(w.entries) : e.limitedBy # None => IsLive(e.limitedBy)

----------------------------------------------------------------------------
(* Prices: sequences of [item, amount], in authored order.                 *)

Owned(i) == w.stock[i] + w.bound[i]
BestMark(r) == SelectLastInSeq(Marks[r], LAMBDA m : m.unlockTier <= w.tier)
MachinePrice(r) == IF BestMark(r) = 0 THEN None ELSE Marks[r][BestMark(r)].price

UpgradePrice(i, upgrade) ==
    IF upgrade = "storage" THEN StorageCurve[w.storage[i]].price ELSE QuantumCurve[w.quantum[Lane[i]]].price

PriceOf(a) ==
    CASE a.kind = "storage" -> IF a.upgrade = None THEN None ELSE UpgradePrice(a.item, a.upgrade)
      [] a.kind \in {"recipe", "power"} -> IF a.recipe = None THEN None ELSE MachinePrice(a.recipe)
      [] OTHER -> None

PayerIn(price, Test(_)) ==
    LET at == FirstIn(price, Test) IN IF at = None THEN None ELSE at.item

OverflowingPayer(price) == PayerIn(price, LAMBDA c : c.amount > Cap(c.item) + w.bound[c.item])

Total(price) == FoldSeq(LAMBDA c, sum : c.amount + sum, 0, price)

CheaperUpgrade(i) ==
    LET open == {u \in {"storage", "quantum"} : UpgradePrice(i, u) # None}
        fits == {u \in open : OverflowingPayer(UpgradePrice(i, u)) = None}
        ranked == IF fits # {} THEN fits ELSE open
    IN  CASE open = {} -> None
          [] Cardinality(ranked) = 1 -> CHOOSE u \in ranked : TRUE
          [] OTHER -> IF Total(UpgradePrice(i, "quantum")) < Total(UpgradePrice(i, "storage"))
                      THEN "quantum" ELSE "storage"

ToStorage(i, t) == [kind |-> "storage", item |-> i, upgrade |-> CheaperUpgrade(i), target |-> t]

\* Short of the price, made, and not growing; or reserved, and growing.
DrainedPayer(price) ==
    PayerIn(price, LAMBDA c :
        /\ Owned(c.item) < c.amount
        /\ IF c.item \in w.reserved THEN w.net[c.item] > 0 ELSE w.net[c.item] <= 0 /\ Made(c.item))

IsDeadPayer(c) == Owned(c.item) < c.amount /\ ~Made(c.item)

\* The short payer that grows and takes longest, if that is past the horizon.
SlowPayer(price) ==
    LET Lack(c) == c.amount - Owned(c.item)
        slow == {c \in ToSet(price) : w.net[c.item] > 0 /\ Lack(c) > Horizon * w.net[c.item]}
    IN  PayerIn(price, LAMBDA c : /\ c \in slow
                                  /\ \A d \in slow : Lack(d) * w.net[c.item] <= Lack(c) * w.net[d.item])

\* advice-mark.ts: the best unlocked mark, or the best below it that no dead payer prices.
AdviceMark(r) ==
    LET payable == {m \in 1..BestMark(r) : \A c \in ToSet(Marks[r][m].price) : ~IsDeadPayer(c)}
    IN  IF payable = {} THEN BestMark(r) ELSE CHOOSE m \in payable : \A n \in payable : n <= m

----------------------------------------------------------------------------
(* The answer before it is priced.                                         *)

\* The report is given.
Start ==
    /\ stage = "advise" /\ requirement = 1 /\ visited = {} /\ hop = <<>>
    /\ advice = NoAdvice /\ passes = 0

Says(a) == advice' = a /\ stage' = "price" /\ visited' = {} /\ UNCHANGED <<hop, requirement>>

\* The first of `rs` with an output held at its cap is not to be bought: what would
\* drain that output?
Jam(rs, seen) == FirstIn(rs, LAMBDA r : r # None /\ HeldOutput(r, seen) # None)

JamOr(rs, seen, target, preferred, a) ==
    IF Jam(rs, seen) = None THEN Says(a)
    ELSE /\ hop' = [item |-> HeldOutput(Jam(rs, seen), seen), target |-> target, preferred |-> preferred]
         /\ visited' = seen /\ stage' = "drain"
         /\ UNCHANGED <<advice, requirement>>

FirstLimited == FirstIn(w.entries, LAMBDA e : e.limitedBy # None)
EntryOf(i) == FirstIn(w.entries, LAMBDA e : e.item = i)

\* The grid binds: a generator, or what starves the generators there are.
AdvisePower ==
    LET live == ActiveLive(Power)
        entry == EntryOf(Power)
        starved == live # None /\ w.units[live] /\ entry # None /\ entry.limitedBy \notin {None, live}
    IN  /\ stage = "advise" /\ w.brownout
        /\ IF starved THEN JamOr(<<entry.limitedBy>>, {}, Power, None, ToRecipe(entry.limitedBy, Power))
           ELSE Says(ToPower(live, IF FirstLimited = None THEN None ELSE FirstLimited.item))
        /\ UNCHANGED <<w, passes>>

Skips(seen) == /\ requirement' = requirement + 1 /\ visited' = seen
               /\ UNCHANGED <<hop, advice, stage>>

\* resolveBlocker of one requirement; `visited` is shared by them all.
AdviseMilestone ==
    LET i == Requires[requirement].item
        r == ActiveLive(i)
        seen == visited \cup {i}
        limiting == IF EntryOf(i) = None THEN None ELSE EntryOf(i).limitedBy
    IN  /\ stage = "advise" /\ ~w.brownout /\ requirement <= Len(Requires)
        /\ IF w.stock[i] >= Requires[requirement].amount \/ i \in visited THEN Skips(visited)
           ELSE IF r = None THEN Skips(seen)
           ELSE IF ~w.units[r] THEN JamOr(<<r>>, seen, i, r, ToRecipe(r, i))
           ELSE IF Tag(i) = "FULL" THEN Says(ToStorage(i, i))
           ELSE IF limiting # None \/ Jam(<<r, limiting>>, seen) # None
                THEN JamOr(<<r, limiting>>, seen, i, r, ToRecipe(limiting, i))
           ELSE Skips(seen)
        /\ UNCHANGED <<w, passes>>

\* Nothing in the milestone is blocked: the highest entry that is limited.
AdvisePriority ==
    LET i == FirstLimited.item
    IN  /\ stage = "advise" /\ ~w.brownout /\ requirement > Len(Requires)
        /\ IF FirstLimited = None THEN Says(NoAdvice)
           ELSE IF i # Power /\ Tag(i) = "FULL" THEN Says(ToStorage(i, i))
           ELSE JamOr(<<w.active[i], FirstLimited.limitedBy>>, {i}, i, w.active[i],
                      ToRecipe(FirstLimited.limitedBy, i))
        /\ UNCHANGED <<w, passes>>

\* A live consumer with an output held that is new to the walk leads on; one with
\* none held is the answer; one that only leads back is passed over.
Drains(r, seen) == IsLive(r) /\ (HeldOutput(r, seen) # None \/ HeldOutput(r, {}) = None)

\* The target's own recipe is tried first.
DrainOf(i, seen, own) ==
    IF own # None /\ Consumes(own, i) /\ Drains(own, seen) THEN own
    ELSE FirstIn(Recipes, LAMBDA r : Consumes(r, i) /\ Drains(r, seen))

\* drainBlocker, one hop. The target's own recipe is preferred at the first.
Drain ==
    LET i == hop.item
        seen == visited \cup {i}
        r == DrainOf(i, seen, hop.preferred)
    IN  /\ stage = "drain"
        /\ IF r = None THEN Says(ToStorage(i, hop.target))
           ELSE IF HeldOutput(r, seen) = None THEN Says(ToRecipe(r, hop.target))
           ELSE /\ hop' = [item |-> HeldOutput(r, seen), target |-> hop.target, preferred |-> None]
                /\ visited' = seen
                /\ UNCHANGED <<stage, advice, requirement>>
        /\ UNCHANGED <<w, passes>>

----------------------------------------------------------------------------
(* payable: every answer is priced, and one that can never be paid for is  *)
(* turned into advice for who should pay. `visited` starts anew.           *)

Done == stage' = "done" /\ UNCHANGED <<advice, visited, hop>>

Redirect(a, seen) ==
    /\ advice' = a /\ visited' = seen /\ passes' = passes + 1
    /\ UNCHANGED <<stage, hop>>

\* Toward what starves `r`: the maker of its first EMPTY input that can be walked to.
StarvedBy(r, seen) ==
    FirstIn(Inputs[r], LAMBDA i : Tag(i) = "EMPTY" /\ i \notin seen /\ ActiveLive(i) # None)

Starve(r, slow, seen) ==
    /\ hop' = [recipe |-> r, slow |-> slow] /\ visited' = seen /\ stage' = "starve"
    /\ UNCHANGED <<advice, passes>>

\* The first payer that is short and not made, has a live recipe and is new.
Unmade(price, seen) ==
    PayerIn(price, LAMBDA c : c.item \notin seen /\ IsDeadPayer(c) /\ ActiveLive(c.item) # None)

FullOutput(r, seen) == FirstIn(Outputs[r], LAMBDA i : Tag(i) = "FULL" /\ i \notin seen)

Marked(i) == visited \cup {i}

\* By the cause: starved, no machines, or a full output; else the next payer.
ForUnmade(d) ==
    LET r == ActiveLive(d)
        seen == visited \cup {d}
        o == FullOutput(r, seen)
    IN  IF HasEmptyInput(r) THEN Starve(r, FALSE, seen)
        ELSE IF ~w.units[r] THEN Redirect(ToRecipe(r, advice.target), seen)
        ELSE IF o # None THEN Redirect(ToStorage(o, advice.target), seen \cup {o})
        ELSE visited' = seen /\ UNCHANGED <<stage, hop, advice, passes>>

\* One pass of the loop.
Pay ==
    LET price == PriceOf(advice)
        over == OverflowingPayer(price)
        drained == DrainedPayer(price)
        unmade == Unmade(price, visited)
        slow == SlowPayer(price)
    IN  /\ stage = "price"
        /\ IF price = None THEN Done /\ UNCHANGED passes
           ELSE IF over # None
                THEN IF over \in visited
                     THEN /\ advice' = [kind |-> "storage", item |-> over, upgrade |-> None, target |-> advice.target]
                          /\ stage' = "done" /\ UNCHANGED <<visited, hop, passes>>
                     ELSE Redirect(ToStorage(over, advice.target), visited \cup {over})
           ELSE IF drained # None
                THEN /\ advice' = ToReserve(drained, advice.target)
                     /\ stage' = "done" /\ UNCHANGED <<visited, hop, passes>>
           ELSE IF unmade # None THEN ForUnmade(unmade)
           ELSE IF slow = None \/ slow \in visited \/ ActiveLive(slow) = None THEN Done /\ UNCHANGED passes
           ELSE Starve(ActiveLive(slow), TRUE, Marked(slow))
        /\ UNCHANGED <<w, requirement>>

\* The starved walk, one step; at its end the deepest recipe is the advice, unless it
\* starves as well: then a slow payer's advice stands and an unmade payer's is given up.
Walk ==
    LET i == StarvedBy(hop.recipe, visited)
    IN  /\ stage = "starve"
        /\ IF i # None
           THEN /\ hop' = [hop EXCEPT !.recipe = ActiveLive(i)] /\ visited' = visited \cup {i}
                /\ UNCHANGED <<stage, advice, passes>>
           ELSE IF ~HasEmptyInput(hop.recipe)
           THEN /\ advice' = ToRecipe(hop.recipe, advice.target) /\ passes' = passes + 1
                /\ stage' = "price" /\ UNCHANGED <<visited, hop>>
           ELSE /\ stage' = IF hop.slow THEN "done" ELSE "price"
                /\ UNCHANGED <<advice, visited, hop, passes>>
        /\ UNCHANGED <<w, requirement>>

Next == AdvisePower \/ AdviseMilestone \/ AdvisePriority \/ Drain \/ Pay \/ Walk

AdviceSpec == ReportOK /\ Start /\ [][Next]_vars

----------------------------------------------------------------------------

\* bottleneck.ts payable: "more passes than items allow can only mean a lost `visited`
\* guard, and it throws": each redirect takes an item that none before it took.
NeverGivesUp == passes <= Cardinality(Items)

\* bottleneck.ts:310-336: an answer that no price redirected is no machine the sweep
\* would hold at clock 0, on whichever way it was found: through a requirement, a chain of
\* full outputs, an entry or the grid. Only what is asked for itself may be full.
JamIsSeen ==
    stage = "done" /\ passes = 0 /\ advice.kind = "recipe" =>
       \A i \in ToSet(Outputs[advice.recipe]) :
          HeldAtCap(i) => i = advice.target \/ \E k \in 1..(requirement - 1) : Requires[k].item = i

\* bottleneck.ts:364-367, 520-525: no machine is advised for a recipe that is locked or not
\* selected, nor, on a redirect, for one starved of an input whose maker could be named.
Unblocked ==
    stage = "done" /\ advice.kind = "recipe" =>
       /\ IsLive(advice.recipe)
       /\ passes > 0 => StarvedBy(advice.recipe, visited) = None

\* bottleneck.ts priceOf, isDeadPayer: who follows the advice is not left with a price that
\* nothing pays: a payer that is short and unmade has no live recipe, or was tried.
DeadEndsAreWalked ==
    stage = "done" /\ PriceOf(advice) # None =>
       \A c \in ToSet(PriceOf(advice)) :
          IsDeadPayer(c) => ActiveLive(c.item) = None \/ c.item \in visited

\* bottleneck.ts jamBlocker: "if one of its outputs is held at cap, buying that recipe
\* cannot help".
\* The code does not hold it when a payer's machine is short; no run checks it.
NoMachineIntoAJam ==
    stage = "done" /\ advice.kind = "recipe" => HeldOutput(advice.recipe, {}) = None

\* bottleneck.ts: the redirects end, and a machine that is advised can be bought, would run, and
\* is paid for by something, as far as the redirects could see.
AdviceHelps == NeverGivesUp /\ JamIsSeen /\ Unblocked /\ DeadEndsAreWalked
=============================================================================
