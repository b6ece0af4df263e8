---------------------------- MODULE ReportProofs ----------------------------
(***************************************************************************)
(* What is made of the engine's reports: the answer of Advice to every     *)
(* report of every bundle; the search of Staircase through what runs       *)
(* measure; the scale and the factor that Calibration emits; and the       *)
(* verdict of Gate on the runs of its workers.                             *)
(***************************************************************************)
EXTENDS Advice, Staircase, Calibration, Gate, FiniteSetTheorems, TLAPS

----------------------------------------------------------------------------
\* What an answer names is there, and its machine's recipe is live.
Named(a) ==
    /\ a.kind = "recipe" => a.recipe \in Recs /\ IsLive(a.recipe)
    /\ a.kind = "power" => a.recipe \in Recs \cup {None}
    /\ a.kind = "storage" => a.item \in Items /\ a.upgrade \in {None, "storage", "quantum"}

Priced == {"price", "starve", "done"}

\* The parts of JamIsSeen, Unblocked and DeadEndsAreWalked that hold before the end.
SeesJam(a, upto) ==
    a.kind = "recipe" =>
       \A i \in ToSet(Outputs[a.recipe]) :
          HeldAtCap(i) => i = a.target \/ \E k \in 1..(upto - 1) : Requires[k].item = i

Fed(a, seen) == a.kind = "recipe" => StarvedBy(a.recipe, seen) = None

Paid(a, seen) ==
    PriceOf(a) # None =>
       \A c \in ToSet(PriceOf(a)) : IsDeadPayer(c) => ActiveLive(c.item) = None \/ c.item \in seen

\* Of the walks: what they were at, and that nothing is visited before its requirement.
WalksOK ==
    /\ stage = "advise" => \A i \in visited : \E k \in 1..(requirement - 1) : Requires[k].item = i
    /\ stage = "drain" => hop.item \in Items /\ hop.preferred \in Recs \cup {None}
    /\ stage = "starve" => hop.recipe \in Recs /\ IsLive(hop.recipe) /\ hop.slow \in BOOLEAN

\* Every redirect has visited an item more, and so has a starved walk before it redirects.
PassesOK ==
    /\ stage \in {"advise", "drain"} => passes = 0
    /\ stage \in {"price", "done"} => passes <= Cardinality(visited)
    /\ stage = "starve" => passes + 1 <= Cardinality(visited)

AnswerOK ==
    stage \in Priced =>
       /\ Named(advice)
       /\ IF passes = 0 THEN SeesJam(advice, requirement) ELSE Fed(advice, visited)
       /\ stage = "done" \/ (stage = "starve" /\ hop.slow) => Paid(advice, visited)

AdviceTypeOK ==
    /\ visited \in SUBSET Targets /\ (stage # "drain" => visited \in SUBSET Items)
    /\ passes \in Nat /\ requirement \in Nat \ {0}
    /\ stage \in {"advise", "drain"} \cup Priced

AdviceInv == ReportOK /\ AdviceTypeOK /\ WalksOK /\ PassesOK /\ AnswerOK

----------------------------------------------------------------------------
\* The first that passes a test.

\* A set of positions that is not empty has a first.
LEMMA MinIn == ASSUME NEW n \in Nat, NEW I \in SUBSET (1..n), I # {} PROVE Min(I) \in I
<1> DEFINE R == OpToRel(<, Nat)
<1>1. \E x \in I : \A y \in I : ~(<<y, x>> \in R)
  <2>1. I \subseteq Nat
    OBVIOUS
  <2> HIDE DEF R
  <2>2. IsWellFoundedOn(R, Nat)
    BY NatLessThanWellFounded DEF R
  <2> QED BY <2>1, <2>2, WFMin
<1>2. \A x \in Nat : \A y \in Nat : y < x => <<y, x>> \in R
  BY DEF OpToRel
<1> HIDE DEF R
<1>3. PICK x \in I : \A y \in I : ~(<<y, x>> \in R)
  BY <1>1
<1>4. \A y \in I : x <= y
  <2> SUFFICES ASSUME NEW y \in I PROVE x <= y
    OBVIOUS
  <2>1. x \in Nat /\ y \in Nat
    OBVIOUS
  <2>2. ~(<<y, x>> \in R)
    BY <1>3
  <2>3. ~(y < x)
    BY <1>2, <2>1, <2>2
  <2> QED BY <2>1, <2>3
<1> QED BY <1>4 DEF Min

\* And a last.
LEMMA MaxIn == ASSUME NEW n \in Nat, NEW I \in SUBSET (1..n), I # {} PROVE Max(I) \in I
<1> DEFINE J == {(n + 1) - i : i \in I}
<1>1. J \in SUBSET (1..n) /\ J # {}
  <2>1. \A i \in 1..n : (n + 1) - i \in 1..n
    OBVIOUS
  <2>2. J \in SUBSET (1..n)
    BY <2>1
  <2>3. PICK i \in I : TRUE
    OBVIOUS
  <2>4. (n + 1) - i \in J
    OBVIOUS
  <2> QED BY <2>2, <2>4
<1> DEFINE R == OpToRel(<, Nat)
<1>2. \E x \in J : \A y \in J : ~(<<y, x>> \in R)
  <2>1. J \subseteq Nat
    BY <1>1
  <2> HIDE DEF R, J
  <2>2. IsWellFoundedOn(R, Nat)
    BY NatLessThanWellFounded DEF R
  <2> QED BY <1>1, <2>1, <2>2, WFMin
<1>3. \A x \in Nat : \A y \in Nat : y < x => <<y, x>> \in R
  BY DEF OpToRel
<1> HIDE DEF R
<1>4. PICK x \in J : \A y \in J : ~(<<y, x>> \in R)
  BY <1>2
<1>5. PICK m \in I : x = (n + 1) - m
  BY <1>4
<1>6. \A i \in I : m >= i
  <2> SUFFICES ASSUME NEW i \in I PROVE m >= i
    OBVIOUS
  <2>1. (n + 1) - i \in J /\ x \in Nat /\ (n + 1) - i \in Nat
    BY <1>1
  <2>2. ~((n + 1) - i < x)
    BY <1>3, <1>4, <2>1
  <2>3. m \in Nat /\ i \in Nat
    OBVIOUS
  <2> QED BY <1>5, <2>2, <2>3
<1> QED BY <1>6 DEF Max

\* What FirstIn finds: `I` are the positions that pass.
LEMMA FirstIs ==
    ASSUME NEW S, None \notin S, NEW s \in Seq(S), NEW I \in SUBSET (1..Len(s)), NEW found,
           found = IF I # {} THEN s[Min(I)] ELSE None
    PROVE  /\ found # None => \E k \in I : found = s[k] /\ s[k] \in S
           /\ found = None => I = {}
<1>1. Len(s) \in Nat
  OBVIOUS
<1>2. CASE I # {}
  <2>1. PICK k \in I : k = Min(I)
    BY <1>1, <1>2, MinIn
  <2>2. s[k] \in S
    OBVIOUS
  <2> QED BY <1>2, <2>1, <2>2
<1> QED BY <1>2

\* The outputs held at their caps.
LEMMA HeldOutputIs ==
    ASSUME NEW r \in Recs, NEW except
    PROVE  /\ HeldOutput(r, except) # None => HeldOutput(r, except) \in Items \ except
           /\ HeldOutput(r, except) = None =>
                 \A i \in ToSet(Outputs[r]) : i \in except \/ ~HeldAtCap(i)
<1>1. PICK s \in Seq(Items) : s = Outputs[r]
  BY Indexed DEF Recs
<1> DEFINE I == {k \in 1..Len(s) : s[k] \notin except /\ HeldAtCap(s[k])}
           found == HeldOutput(r, except)
<1>2. found = IF I # {} THEN s[Min(I)] ELSE None
  BY <1>1 DEF HeldOutput, FirstIn, SelectInSeq
<1>3. I \in SUBSET (1..Len(s)) /\ None \notin Items
  BY Indexed
<1> HIDE DEF I, found
<1>4. /\ found # None => \E k \in I : found = s[k] /\ s[k] \in Items
      /\ found = None => I = {}
  BY <1>2, <1>3, FirstIs
<1>5. \A i \in ToSet(s) : \E k \in 1..Len(s) : s[k] = i
  BY DEF ToSet
<1> QED BY <1>1, <1>4, <1>5 DEF I, found

\* The recipe with an output held.
LEMMA JamIs ==
    ASSUME NEW rs \in Seq(Recs \cup {None}), NEW seen
    PROVE  /\ Jam(rs, seen) # None => Jam(rs, seen) \in Recs /\ HeldOutput(Jam(rs, seen), seen) # None
           /\ Jam(rs, seen) = None =>
                 \A k \in 1..Len(rs) : rs[k] # None => HeldOutput(rs[k], seen) = None
<1> DEFINE I == {k \in 1..Len(rs) : rs[k] # None /\ HeldOutput(rs[k], seen) # None}
           found == Jam(rs, seen)
<1>1. found = IF I # {} THEN rs[Min(I)] ELSE None
  BY DEF Jam, FirstIn, SelectInSeq
<1>2. I \in SUBSET (1..Len(rs)) /\ Len(rs) \in Nat
  OBVIOUS
<1>3. \A k \in I : rs[k] \in Recs /\ HeldOutput(rs[k], seen) # None
  OBVIOUS
<1> HIDE DEF I, found
<1>4. I # {} => Min(I) \in I
  BY <1>2, MinIn
<1>5. None \notin Recs
  BY Indexed DEF Recs
<1>6. found # None => found \in Recs /\ HeldOutput(found, seen) # None
  BY <1>1, <1>3, <1>4
<1>7. found = None => I = {}
  BY <1>1, <1>3, <1>4, <1>5
<1>8. found = Jam(rs, seen)
  BY DEF found
<1> QED BY <1>6, <1>7, <1>8 DEF I

\* The recipe of an item's entry, alone or behind the item's own.
LEMMA JamOneIs ==
    ASSUME NEW r \in Recs, NEW seen
    PROVE  <<r>> \in Seq(Recs \cup {None}) /\ (Jam(<<r>>, seen) = None => HeldOutput(r, seen) = None)
<1> DEFINE S == Recs \cup {None}
<1>1. r \in S /\ r # None
  BY Indexed DEF Recs
<1> HIDE DEF S
<1>2. <<r>> \in Seq(S) /\ 1 \in 1..Len(<<r>>) /\ <<r>>[1] = r
  BY <1>1
<1>3. PICK rs \in Seq(S) : rs = <<r>> /\ 1 \in 1..Len(rs) /\ rs[1] = r
  BY <1>2
<1>4. Jam(rs, seen) = None => HeldOutput(r, seen) = None
  <2>1. Jam(rs, seen) = None => (rs[1] # None => HeldOutput(rs[1], seen) = None)
    BY <1>3, JamIs DEF S
  <2> QED BY <1>1, <1>3, <2>1
<1> QED BY <1>2, <1>3, <1>4 DEF S

\* Two recipes in a row: the second is not jammed where neither is.
LEMMA JamTwoIs ==
    ASSUME NEW own \in Recs \cup {None}, NEW r \in Recs \cup {None}, NEW seen
    PROVE  /\ <<own, r>> \in Seq(Recs \cup {None})
           /\ Jam(<<own, r>>, seen) = None => r = None \/ HeldOutput(r, seen) = None
<1> DEFINE S == Recs \cup {None}
<1>1. r \in S /\ own \in S
  OBVIOUS
<1> HIDE DEF S
<1>2. <<own, r>> \in Seq(S) /\ 2 \in 1..Len(<<own, r>>) /\ <<own, r>>[2] = r
  BY <1>1
<1>3. PICK rs \in Seq(S) : rs = <<own, r>> /\ 2 \in 1..Len(rs) /\ rs[2] = r
  BY <1>2
<1>4. Jam(rs, seen) = None => r = None \/ HeldOutput(r, seen) = None
  <2>1. Jam(rs, seen) = None => (rs[2] # None => HeldOutput(rs[2], seen) = None)
    BY <1>3, JamIs DEF S
  <2> QED BY <1>3, <2>1
<1> QED BY <1>2, <1>3, <1>4 DEF S

\* What drains an item.
LEMMA DrainOfIs ==
    ASSUME NEW i, NEW seen, NEW own \in Recs \cup {None}, DrainOf(i, seen, own) # None
    PROVE  DrainOf(i, seen, own) \in Recs /\ Drains(DrainOf(i, seen, own), seen)
<1>1. CASE own # None /\ Consumes(own, i) /\ Drains(own, seen)
  BY <1>1 DEF DrainOf
<1>2. CASE ~(own # None /\ Consumes(own, i) /\ Drains(own, seen))
  <2>1. PICK n \in Nat : n = Len(Recipes) /\ Recipes \in [1..n -> Recs]
    BY Indexed DEF Recs
  <2> DEFINE I == {k \in 1..n : Consumes(Recipes[k], i) /\ Drains(Recipes[k], seen)}
             found == DrainOf(i, seen, own)
  <2>2. found = IF I # {} THEN Recipes[Min(I)] ELSE None
    BY <1>2, <2>1 DEF DrainOf, FirstIn, SelectInSeq
  <2>3. I \in SUBSET (1..n) /\ \A k \in I : Recipes[k] \in Recs /\ Drains(Recipes[k], seen)
    BY <2>1
  <2>4. found # None
    OBVIOUS
  <2> HIDE DEF I
  <2>5. I # {} => Min(I) \in I
    BY <2>1, <2>3, MinIn
  <2> HIDE DEF found
  <2>6. found \in Recs /\ Drains(found, seen)
    BY <2>2, <2>3, <2>4, <2>5
  <2> QED BY <2>6 DEF found
<1> QED BY <1>1, <1>2

\* What starves a recipe.
LEMMA StarvedByIs ==
    ASSUME NEW r \in Recs, NEW seen
    PROVE  /\ StarvedBy(r, seen) # None =>
                 StarvedBy(r, seen) \in Items \ seen /\ ActiveLive(StarvedBy(r, seen)) # None
           /\ StarvedBy(r, seen) = None <=>
                 \A i \in ToSet(Inputs[r]) : Tag(i) # "EMPTY" \/ i \in seen \/ ActiveLive(i) = None
<1>1. PICK s \in Seq(Items) : s = Inputs[r]
  BY Indexed DEF Recs
<1> DEFINE I == {k \in 1..Len(s) : Tag(s[k]) = "EMPTY" /\ s[k] \notin seen /\ ActiveLive(s[k]) # None}
           found == StarvedBy(r, seen)
<1>2. found = IF I # {} THEN s[Min(I)] ELSE None
  BY <1>1 DEF StarvedBy, FirstIn, SelectInSeq
<1>3. I \in SUBSET (1..Len(s)) /\ None \notin Items
  BY Indexed
<1>4. \A k \in I : Tag(s[k]) = "EMPTY" /\ s[k] \notin seen /\ ActiveLive(s[k]) # None
  OBVIOUS
<1>5. \A k \in 1..Len(s) : k \in I \/ Tag(s[k]) # "EMPTY" \/ s[k] \in seen \/ ActiveLive(s[k]) = None
  OBVIOUS
<1> HIDE DEF I, found
<1>6. /\ found # None => \E k \in I : found = s[k] /\ s[k] \in Items
      /\ found = None => I = {}
  BY <1>2, <1>3, FirstIs
<1>7. ToSet(s) = {s[k] : k \in 1..Len(s)}
  BY DEF ToSet
<1>8. found # None => found \in Items \ seen /\ ActiveLive(found) # None
  BY <1>4, <1>6
<1>9. found = None => \A i \in ToSet(s) : Tag(i) # "EMPTY" \/ i \in seen \/ ActiveLive(i) = None
  BY <1>5, <1>6, <1>7
<1>10. ASSUME \A i \in ToSet(s) : Tag(i) # "EMPTY" \/ i \in seen \/ ActiveLive(i) = None
       PROVE  found = None
  <2>1. I = {}
    BY <1>3, <1>4, <1>7, <1>10
  <2> QED BY <1>2, <2>1
<1>11. found = StarvedBy(r, seen)
  BY DEF found
<1> QED BY <1>1, <1>8, <1>9, <1>10, <1>11

\* The output that is full.
LEMMA FullOutputIs ==
    ASSUME NEW r \in Recs, NEW seen, FullOutput(r, seen) # None
    PROVE  FullOutput(r, seen) \in Items \ seen
<1>1. PICK s \in Seq(Items) : s = Outputs[r]
  BY Indexed DEF Recs
<1> DEFINE I == {k \in 1..Len(s) : Tag(s[k]) = "FULL" /\ s[k] \notin seen}
           found == FullOutput(r, seen)
<1>2. found = IF I # {} THEN s[Min(I)] ELSE None
  BY <1>1 DEF FullOutput, FirstIn, SelectInSeq
<1>3. I \in SUBSET (1..Len(s)) /\ None \notin Items /\ \A k \in I : s[k] \notin seen
  BY Indexed
<1>4. found # None
  OBVIOUS
<1> HIDE DEF I, found
<1>5. found # None => \E k \in I : found = s[k] /\ s[k] \in Items
  <2>1. Len(s) \in Nat /\ I # {}
    BY <1>2, <1>4
  <2>2. Min(I) \in I
    BY <1>3, <2>1, MinIn
  <2>3. Min(I) \in 1..Len(s) /\ found = s[Min(I)]
    BY <1>2, <1>3, <2>1, <2>2
  <2>4. s[Min(I)] \in Items
    BY <2>3
  <2> QED BY <2>2, <2>3, <2>4
<1>6. found \in Items \ seen
  BY <1>3, <1>4, <1>5
<1> QED BY <1>6 DEF found

----------------------------------------------------------------------------
\* Prices.

\* Who is to pay, of those that pass.
LEMMA PayerIs ==
    ASSUME NEW price \in Seq(Costs), NEW I \in SUBSET (1..Len(price)), NEW asked,
           asked = IF I # {} THEN price[Min(I)] ELSE None
    PROVE  /\ asked # None => asked.item \in Items /\ asked.item # None /\ \E k \in I : asked = price[k]
           /\ asked = None => I = {}
<1>1. None \notin Costs
  BY Indexed
<1>2. /\ asked # None => \E k \in I : asked = price[k] /\ price[k] \in Costs
      /\ asked = None => I = {}
  BY <1>1, FirstIs
<1>3. \A c \in Costs : c.item \in Items /\ c.item # None
  BY Indexed DEF Costs
<1> QED BY <1>2, <1>3

\* The payer that its storage cannot hold is an item.
LEMMA OverflowingIs ==
    ASSUME NEW price \in Seq(Costs), OverflowingPayer(price) # None
    PROVE  OverflowingPayer(price) \in Items
<1> DEFINE I == {k \in 1..Len(price) : price[k].amount > Cap(price[k].item) + w.bound[price[k].item]}
           asked == FirstIn(price, LAMBDA c : c.amount > Cap(c.item) + w.bound[c.item])
<1>1. asked = IF I # {} THEN price[Min(I)] ELSE None
  BY DEF FirstIn, SelectInSeq
<1>2. I \in SUBSET (1..Len(price))
  OBVIOUS
<1>3. OverflowingPayer(price) = IF asked = None THEN None ELSE asked.item
  BY DEF OverflowingPayer, PayerIn
<1> HIDE DEF I, asked
<1>4. asked # None => asked.item \in Items
  BY <1>1, <1>2, PayerIs
<1> QED BY <1>3, <1>4

\* The payer that does not grow is an item.
LEMMA DrainedIs ==
    ASSUME NEW price \in Seq(Costs), DrainedPayer(price) # None
    PROVE  DrainedPayer(price) \in Items
<1> DEFINE T(c) == /\ Owned(c.item) < c.amount
                   /\ IF c.item \in w.reserved THEN w.net[c.item] > 0
                      ELSE w.net[c.item] <= 0 /\ Made(c.item)
           I == {k \in 1..Len(price) : T(price[k])}
           asked == FirstIn(price, T)
<1>1. asked = IF I # {} THEN price[Min(I)] ELSE None
  BY DEF FirstIn, SelectInSeq
<1>2. I \in SUBSET (1..Len(price))
  OBVIOUS
<1>3. DrainedPayer(price) = IF asked = None THEN None ELSE asked.item
  BY DEF DrainedPayer, PayerIn
<1> HIDE DEF I, asked
<1>4. asked # None => asked.item \in Items
  BY <1>1, <1>2, PayerIs
<1> QED BY <1>3, <1>4

\* The payer that takes longest is an item.
LEMMA SlowIs ==
    ASSUME NEW price \in Seq(Costs), SlowPayer(price) # None
    PROVE  SlowPayer(price) \in Items
<1> DEFINE Lack(c) == c.amount - Owned(c.item)
           slow == {c \in ToSet(price) : w.net[c.item] > 0 /\ Lack(c) > Horizon * w.net[c.item]}
           T(c) == /\ c \in slow
                   /\ \A d \in slow : Lack(d) * w.net[c.item] <= Lack(c) * w.net[d.item]
           I == {k \in 1..Len(price) : T(price[k])}
           asked == FirstIn(price, T)
<1>1. asked = IF I # {} THEN price[Min(I)] ELSE None
  <2> HIDE DEF slow, Lack
  <2> QED BY DEF FirstIn, SelectInSeq
<1>2. I \in SUBSET (1..Len(price))
  OBVIOUS
<1>3. SlowPayer(price) = IF asked = None THEN None ELSE asked.item
  BY DEF SlowPayer, PayerIn
<1> HIDE DEF I, asked
<1>4. asked # None => asked.item \in Items
  BY <1>1, <1>2, PayerIs
<1> QED BY <1>3, <1>4

\* The payer that nothing makes: new to the walk and with a live recipe, if there is one.
LEMMA UnmadeIs ==
    ASSUME NEW price \in Seq(Costs), NEW seen
    PROVE  /\ Unmade(price, seen) # None =>
                 Unmade(price, seen) \in Items \ seen /\ ActiveLive(Unmade(price, seen)) # None
           /\ Unmade(price, seen) = None =>
                 \A c \in ToSet(price) : IsDeadPayer(c) => ActiveLive(c.item) = None \/ c.item \in seen
<1> DEFINE T(c) == c.item \notin seen /\ IsDeadPayer(c) /\ ActiveLive(c.item) # None
           I == {k \in 1..Len(price) : T(price[k])}
           asked == FirstIn(price, T)
<1>1. asked = IF I # {} THEN price[Min(I)] ELSE None
  BY DEF FirstIn, SelectInSeq
<1>2. I \in SUBSET (1..Len(price))
  OBVIOUS
<1>3. Unmade(price, seen) = IF asked = None THEN None ELSE asked.item
  BY DEF Unmade, PayerIn
<1>4. \A k \in 1..Len(price) : k \in I <=> T(price[k])
  OBVIOUS
<1>5. \A c \in ToSet(price) : \E k \in 1..Len(price) : price[k] = c
  BY DEF ToSet
<1> HIDE DEF I, asked
<1> HIDE DEF T
<1>6. /\ asked # None => asked.item \in Items /\ asked.item # None /\ \E k \in I : asked = price[k]
      /\ asked = None => I = {}
  <2>1. asked = None => I = {}
    BY <1>1, <1>2, PayerIs
  <2>2. asked # None => asked.item \in Items /\ asked.item # None
    BY <1>1, <1>2, PayerIs
  <2>3. asked # None => \E k \in I : asked = price[k]
    BY <1>1, <1>2, PayerIs
  <2> QED BY <2>1, <2>2, <2>3
<1>7. asked # None => T(asked)
  BY <1>2, <1>4, <1>6
<1>8. asked = None => \A c \in ToSet(price) : ~T(c)
  BY <1>4, <1>5, <1>6
<1> QED BY <1>3, <1>6, <1>7, <1>8 DEF T

\* A live recipe of an item.
LEMMA ActiveLiveIs ==
    ASSUME ReportOK, NEW i \in Targets, ActiveLive(i) # None
    PROVE  ActiveLive(i) \in Recs /\ IsLive(ActiveLive(i))
BY DEF ReportOK, ActiveLive

\* Prices are lists of costs, where there are any.
LEMMA MachinePriceIs == ASSUME NEW r \in Recs PROVE MachinePrice(r) \in Prices
<1> DEFINE MarkSet == [unlockTier : Nat, price : Prices \ {None}]
<1>1. Marks[r] \in Seq(MarkSet)
  BY Indexed DEF Recs
<1>0. \A m \in MarkSet : m.price \in Prices
  OBVIOUS
<1> HIDE DEF MarkSet
<1>8. PICK s \in Seq(MarkSet) : s = Marks[r]
  BY <1>1
<1> DEFINE I == {k \in 1..Len(s) : s[k].unlockTier <= w.tier}
<1>2. BestMark(r) = IF I # {} THEN Max(I) ELSE 0
  BY <1>8 DEF BestMark, SelectLastInSeq
<1>3. I \in SUBSET (1..Len(s)) /\ Len(s) \in Nat
  OBVIOUS
<1>4. \A k \in 1..Len(s) : s[k].price \in Prices
  <2>1. \A k \in 1..Len(s) : s[k] \in MarkSet
    OBVIOUS
  <2> QED BY <1>0, <2>1
<1> HIDE DEF I
<1>5. I # {} => Max(I) \in I
  BY <1>3, MaxIn
<1>6. CASE I = {}
  BY <1>2, <1>6 DEF MachinePrice, Prices
<1>7. CASE I # {}
  <2>1. BestMark(r) \in 1..Len(s)
    BY <1>2, <1>3, <1>5, <1>7
  <2>2. MachinePrice(r) = s[BestMark(r)].price
    BY <1>8, <2>1 DEF MachinePrice
  <2> QED BY <1>4, <2>1, <2>2
<1> QED BY <1>6, <1>7

\* A level's price is a list of costs, or none.
LEMMA UpgradePriceIs ==
    ASSUME ReportOK, NEW i \in Items, NEW u PROVE UpgradePrice(i, u) \in Prices
BY Indexed DEF ReportOK, UpgradePrice

\* So is the price of any answer.
LEMMA PriceIs == ASSUME ReportOK, NEW a, Named(a) PROVE PriceOf(a) \in Prices
<1>1. None \in Prices
  BY DEF Prices
<1>2. CASE a.kind = "storage"
  BY <1>1, <1>2, UpgradePriceIs DEF Named, PriceOf
<1>3. CASE a.kind \in {"recipe", "power"}
  <2>1. a.recipe \in Recs \cup {None}
    BY <1>3 DEF Named
  <2> QED BY <1>1, <1>3, <2>1, MachinePriceIs DEF PriceOf
<1>4. CASE a.kind \notin {"storage", "recipe", "power"}
  BY <1>1, <1>4 DEF PriceOf
<1> QED BY <1>2, <1>3, <1>4

\* An upgrade is of the item's storage or of its lane's, or there is none.
LEMMA CheaperUpgradeIs ==
    ASSUME NEW i PROVE CheaperUpgrade(i) \in {None, "storage", "quantum"}
<1> DEFINE open == {u \in {"storage", "quantum"} : UpgradePrice(i, u) # None}
           fits == {u \in open : OverflowingPayer(UpgradePrice(i, u)) = None}
           pick == IF fits # {} THEN fits ELSE open
           one == CHOOSE u \in pick : TRUE
<1>1. pick \subseteq {"storage", "quantum"} /\ (open # {} => pick # {})
  OBVIOUS
<1>2. open # {} => one \in {"storage", "quantum"}
  <2> HIDE DEF pick, open
  <2> QED BY <1>1
<1>3. open = {} => CheaperUpgrade(i) = None
  BY DEF CheaperUpgrade
<1>4. open # {} => CheaperUpgrade(i) \in {one, "quantum", "storage"}
  BY DEF CheaperUpgrade
<1> HIDE DEF pick, open, fits, one
<1> QED BY <1>2, <1>3, <1>4

\* Advice to store.
LEMMA StorageNamed == ASSUME NEW i \in Items, NEW t PROVE Named(ToStorage(i, t))
<1>1. /\ ToStorage(i, t).kind = "storage" /\ ToStorage(i, t).item = i
      /\ ToStorage(i, t).upgrade = CheaperUpgrade(i)
  BY DEF ToStorage
<1> QED BY <1>1, CheaperUpgradeIs DEF Named

\* A step does not change the report, nor what is read from it.
LEMMA SameReport ==
    ASSUME w' = w, ReportOK
    PROVE  /\ ReportOK'
           /\ \A r : IsLive(r)' <=> IsLive(r)
           /\ \A a : Named(a)' <=> Named(a)
           /\ \A a, k : SeesJam(a, k)' <=> SeesJam(a, k)
           /\ \A a, seen : Fed(a, seen)' <=> Fed(a, seen)
           /\ \A a, seen : Paid(a, seen)' <=> Paid(a, seen)
<1>1. \A r : IsLive(r)' <=> IsLive(r)
  BY DEF IsLive
<1>2. ReportOK'
  BY <1>1 DEF ReportOK
<1>3. \A a : Named(a)' <=> Named(a)
  BY <1>1 DEF Named
<1>4. \A i : Cap(i)' = Cap(i) /\ Tag(i)' = Tag(i)
  BY DEF Cap, Tag
<1>5. \A i : HeldAtCap(i)' <=> HeldAtCap(i)
  BY <1>4 DEF HeldAtCap
<1>6. \A i : ActiveLive(i)' = ActiveLive(i)
  BY <1>1 DEF ActiveLive
<1>7. \A a, k : SeesJam(a, k)' <=> SeesJam(a, k)
  BY <1>5 DEF SeesJam
<1>8. \A r, seen : StarvedBy(r, seen)' = StarvedBy(r, seen)
  BY <1>4, <1>6 DEF StarvedBy, FirstIn, SelectInSeq
<1>9. \A a, seen : Fed(a, seen)' <=> Fed(a, seen)
  BY <1>8 DEF Fed
<1>10. \A c : IsDeadPayer(c)' <=> IsDeadPayer(c)
  BY DEF IsDeadPayer, Owned, Made, Makers
<1>11. \A a : PriceOf(a)' = PriceOf(a)
  BY DEF PriceOf, UpgradePrice, MachinePrice, BestMark, SelectLastInSeq
<1>12. \A a, seen : Paid(a, seen)' <=> Paid(a, seen)
  BY <1>6, <1>10, <1>11 DEF Paid
<1> QED BY <1>1, <1>2, <1>3, <1>7, <1>9, <1>12

\* A set that has an item more is larger.
LEMMA OneMore ==
    ASSUME NEW A, NEW B \in SUBSET Items, A \subseteq B, NEW d \in B \ A
    PROVE  Cardinality(A) \in Nat /\ Cardinality(B) \in Nat /\ Cardinality(A) + 1 <= Cardinality(B)
<1>1. IsFiniteSet(B) /\ IsFiniteSet(A) /\ A \in SUBSET B
  BY Indexed, FS_Subset
<1>2. Cardinality(A) \in Nat /\ Cardinality(B) \in Nat
  BY <1>1, FS_CardinalityType
<1>3. Cardinality(A) <= Cardinality(B) /\ (Cardinality(A) = Cardinality(B) => A = B)
  BY <1>1, FS_Subset
<1> QED BY <1>2, <1>3

----------------------------------------------------------------------------
\* The answer before it is priced.

\* An answer is given: of a recipe that is live, and holds nothing up.
LEMMA SaysKeeps ==
    ASSUME AdviceInv, UNCHANGED <<w, passes>>, stage \in {"advise", "drain"},
           NEW a, Says(a), Named(a), SeesJam(a, requirement)
    PROVE  AdviceInv'
<1>1. advice' = a /\ stage' = "price" /\ visited' = {} /\ requirement' = requirement /\ passes' = 0
  BY DEF Says, AdviceInv, PassesOK
<1>2. ReportOK' /\ (Named(a)' <=> Named(a)) /\ \A k : SeesJam(a, k)' <=> SeesJam(a, k)
  BY SameReport DEF AdviceInv
<1>3. AdviceTypeOK'
  BY <1>1 DEF AdviceInv, AdviceTypeOK, Priced
<1>4. WalksOK'
  BY <1>1 DEF WalksOK
<1>5. PassesOK'
  BY <1>1, FS_EmptySet DEF PassesOK
<1>6. AnswerOK'
  <2>1. PICK k : k = requirement
    OBVIOUS
  <2>2. Named(a)' /\ SeesJam(a, k)'
    BY <1>2, <2>1
  <2> QED BY <1>1, <2>1, <2>2 DEF AnswerOK
<1> QED BY <1>2, <1>3, <1>4, <1>5, <1>6 DEF AdviceInv

\* The walk along full outputs starts, or goes on.
LEMMA DrainingKeeps ==
    ASSUME AdviceInv, UNCHANGED <<w, passes, requirement>>, stage \in {"advise", "drain"},
           NEW seen \in SUBSET Targets, visited' = seen, stage' = "drain",
           NEW i \in Items, NEW t, NEW own \in Recs \cup {None},
           hop' = [item |-> i, target |-> t, preferred |-> own]
    PROVE  AdviceInv'
<1>1. ReportOK'
  BY SameReport DEF AdviceInv
<1>2. AdviceTypeOK'
  BY DEF AdviceInv, AdviceTypeOK
<1>3. WalksOK'
  BY DEF WalksOK
<1>4. PassesOK'
  BY DEF AdviceInv, PassesOK
<1>5. AnswerOK'
  BY DEF AnswerOK, Priced
<1> QED BY <1>1, <1>2, <1>3, <1>4, <1>5 DEF AdviceInv

\* A recipe that is jammed is walked on from, and else the answer is given.
LEMMA JamOrKeeps ==
    ASSUME AdviceInv, UNCHANGED <<w, passes>>, stage = "advise",
           NEW rs \in Seq(Recs \cup {None}), NEW seen \in SUBSET Targets, NEW t,
           NEW own \in Recs \cup {None}, NEW a, JamOr(rs, seen, t, own, a),
           Jam(rs, seen) = None => Named(a) /\ SeesJam(a, requirement)
    PROVE  AdviceInv'
<1>1. CASE Jam(rs, seen) = None
  <2>1. Says(a)
    BY <1>1 DEF JamOr
  <2> QED BY <1>1, <2>1, SaysKeeps
<1>2. CASE Jam(rs, seen) # None
  <2>1. PICK i \in Items : i = HeldOutput(Jam(rs, seen), seen)
    BY <1>2, JamIs, HeldOutputIs
  <2>2. /\ hop' = [item |-> i, target |-> t, preferred |-> own]
        /\ visited' = seen /\ stage' = "drain" /\ UNCHANGED requirement
    BY <1>2, <2>1 DEF JamOr
  <2> QED BY <2>2, DrainingKeeps
<1> QED BY <1>1, <1>2

\* What the waterfall says of an item: a live recipe limits it, or none.
LEMMA EntryIs ==
    ASSUME ReportOK, NEW i, EntryOf(i) # None
    PROVE  /\ EntryOf(i).limitedBy \in Recs \cup {None}
           /\ EntryOf(i).limitedBy # None => IsLive(EntryOf(i).limitedBy)
<1> DEFINE I == {k \in 1..Len(w.entries) : w.entries[k].item = i}
           entry == EntryOf(i)
<1>1. entry = IF I # {} THEN w.entries[Min(I)] ELSE None
  BY DEF ReportOK, EntryOf, FirstIn, SelectInSeq
<1>2. I \in SUBSET (1..Len(w.entries)) /\ Len(w.entries) \in Nat
  BY DEF ReportOK
<1>3. entry # None
  OBVIOUS
<1> HIDE DEF I, entry
<1>4. Min(I) \in 1..Len(w.entries) /\ entry = w.entries[Min(I)]
  BY <1>1, <1>2, <1>3, MinIn
<1>5. entry \in Entries /\ entry \in ToSet(w.entries)
  BY <1>4 DEF ReportOK, ToSet
<1>6. entry.limitedBy \in Recs \cup {None} /\ (entry.limitedBy # None => IsLive(entry.limitedBy))
  BY <1>5 DEF ReportOK, Entries
<1> QED BY <1>6 DEF entry

\* The highest entry that is limited.
LEMMA FirstLimitedIs ==
    ASSUME ReportOK, FirstLimited # None
    PROVE  FirstLimited.item \in Targets /\ FirstLimited.limitedBy \in Recs
           /\ IsLive(FirstLimited.limitedBy)
<1> DEFINE I == {k \in 1..Len(w.entries) : w.entries[k].limitedBy # None}
           entry == FirstLimited
<1>1. entry = IF I # {} THEN w.entries[Min(I)] ELSE None
  BY DEF ReportOK, FirstLimited, FirstIn, SelectInSeq
<1>2. I \in SUBSET (1..Len(w.entries)) /\ Len(w.entries) \in Nat
      /\ \A k \in I : w.entries[k].limitedBy # None
  BY DEF ReportOK
<1>3. entry # None
  OBVIOUS
<1> HIDE DEF I, entry
<1>4. Min(I) \in I /\ Min(I) \in 1..Len(w.entries) /\ entry = w.entries[Min(I)]
  BY <1>1, <1>2, <1>3, MinIn
<1>5. entry \in Entries /\ entry \in ToSet(w.entries) /\ entry.limitedBy # None
  BY <1>2, <1>4 DEF ReportOK, ToSet
<1>6. entry.item \in Targets /\ entry.limitedBy \in Recs /\ IsLive(entry.limitedBy)
  BY <1>5 DEF ReportOK, Entries
<1> QED BY <1>6 DEF entry

\* A recipe that a walk found unjammed is an answer: only what was seen may be held.
LEMMA UnjammedAnswer ==
    ASSUME NEW r \in Recs, IsLive(r), NEW seen, NEW t, NEW upto,
           HeldOutput(r, seen) = None,
           \A i \in seen : i = t \/ \E k \in 1..(upto - 1) : Requires[k].item = i
    PROVE  Named(ToRecipe(r, t)) /\ SeesJam(ToRecipe(r, t), upto)
<1>1. /\ ToRecipe(r, t).kind = "recipe" /\ ToRecipe(r, t).recipe = r /\ ToRecipe(r, t).target = t
  BY DEF ToRecipe
<1>2. \A i \in ToSet(Outputs[r]) : i \in seen \/ ~HeldAtCap(i)
  BY HeldOutputIs
<1> QED BY <1>1, <1>2 DEF Named, SeesJam

\* Other answers have no machine to hold up.
LEMMA OtherAnswer ==
    ASSUME NEW a, NEW k, a.kind # "recipe" PROVE SeesJam(a, k)
BY DEF SeesJam

\* The grid binds.
LEMMA PowerKeeps == ASSUME AdviceInv, AdvisePower PROVE AdviceInv'
<1> DEFINE live == ActiveLive(Power)
           entry == EntryOf(Power)
           starved == live # None /\ w.units[live] /\ entry # None /\ entry.limitedBy \notin {None, live}
<1>1. stage = "advise" /\ UNCHANGED <<w, passes>> /\ ReportOK
  BY DEF AdvisePower, AdviceInv
<1>2. CASE starved
  <2>1. PICK r \in Recs : r = entry.limitedBy /\ IsLive(r)
    BY <1>1, <1>2, EntryIs
  <2>2. JamOr(<<r>>, {}, Power, None, ToRecipe(r, Power))
    BY <1>2, <2>1 DEF AdvisePower
  <2>3. PICK rs \in Seq(Recs \cup {None}) :
             rs = <<r>> /\ (Jam(rs, {}) = None => HeldOutput(r, {}) = None)
    BY JamOneIs
  <2>4. PICK k : k = requirement
    OBVIOUS
  <2>5. Jam(rs, {}) = None => Named(ToRecipe(r, Power)) /\ SeesJam(ToRecipe(r, Power), k)
    BY <2>1, <2>3, UnjammedAnswer
  <2> HIDE DEF entry, live
  <2> QED BY <1>1, <2>2, <2>3, <2>4, <2>5, JamOrKeeps
<1>3. CASE ~starved
  <2>1. PICK t : Says(ToPower(live, t))
    BY <1>3 DEF AdvisePower
  <2>2. live \in Recs \cup {None}
    BY <1>1, ActiveLiveIs DEF Targets
  <2>3. Named(ToPower(live, t)) /\ ToPower(live, t).kind = "power"
    BY <2>2 DEF Named, ToPower
  <2> QED BY <1>1, <2>1, <2>3, SaysKeeps, OtherAnswer
<1> QED BY <1>2, <1>3

\* A requirement needs nothing, or what it lacks is answered.
LEMMA MilestoneKeeps == ASSUME AdviceInv, AdviseMilestone PROVE AdviceInv'
<1>1. stage = "advise" /\ UNCHANGED <<w, passes>> /\ ReportOK
      /\ requirement \in Nat \ {0} /\ requirement <= Len(Requires)
  BY DEF AdviseMilestone, AdviceInv, AdviceTypeOK
<1>2. PICK i \in Items : i = Requires[requirement].item
  <2>1. Requires[requirement] \in Costs
    BY <1>1, Indexed
  <2> QED BY <2>1 DEF Costs
<1>3. PICK n \in Nat \ {0} : n = requirement
  BY <1>1
<1>4. PICK seen \in SUBSET Items : seen = visited \cup {i} /\ seen \in SUBSET Targets
  <2>1. visited \cup {i} \in SUBSET Items /\ visited \cup {i} \in SUBSET Targets
    BY <1>1, <1>2 DEF AdviceInv, AdviceTypeOK, Targets
  <2> QED BY <2>1
<1>5. /\ \A x \in visited : \E k \in 1..(n - 1) : Requires[k].item = x
      /\ \A x \in seen : x = i \/ \E k \in 1..(n - 1) : Requires[k].item = x
  BY <1>1, <1>3, <1>4 DEF AdviceInv, WalksOK
<1> DEFINE r == ActiveLive(i)
           limiting == IF EntryOf(i) = None THEN None ELSE EntryOf(i).limitedBy
<1>6. limiting \in Recs \cup {None} /\ (limiting # None => IsLive(limiting))
  BY <1>1, EntryIs
<1>7. r # None => r \in Recs /\ IsLive(r)
  BY <1>1, ActiveLiveIs DEF Targets
<1>8. IF w.stock[i] >= Requires[n].amount \/ i \in visited THEN Skips(visited)
      ELSE IF r = None THEN Skips(seen)
      ELSE IF ~w.units[r] THEN JamOr(<<r>>, seen, i, r, ToRecipe(r, i))
      ELSE IF Tag(i) = "FULL" THEN Says(ToStorage(i, i))
      ELSE IF limiting # None \/ Jam(<<r, limiting>>, seen) # None
           THEN JamOr(<<r, limiting>>, seen, i, r, ToRecipe(limiting, i))
      ELSE Skips(seen)
  BY <1>2, <1>3, <1>4 DEF AdviseMilestone
<1> HIDE DEF r, limiting
<1>9. ASSUME NEW to \in SUBSET Items, Skips(to), to \subseteq seen PROVE AdviceInv'
  <2>1. requirement' = n + 1 /\ visited' = to /\ stage' = "advise"
    BY <1>1, <1>3, <1>9 DEF Skips
  <2>2. ReportOK'
    BY <1>1, SameReport
  <2>3. AdviceTypeOK'
    BY <1>1, <2>1 DEF AdviceInv, AdviceTypeOK, Targets
  <2>4. \A x \in to : \E k \in 1..((n + 1) - 1) : Requires[k].item = x
    <3> SUFFICES ASSUME NEW x \in to PROVE \E k \in 1..((n + 1) - 1) : Requires[k].item = x
      OBVIOUS
    <3>1. CASE x = i
      <4>1. n \in 1..((n + 1) - 1)
        OBVIOUS
      <4> QED BY <1>2, <1>3, <3>1, <4>1
    <3>2. CASE x # i
      <4>1. PICK k \in 1..(n - 1) : Requires[k].item = x
        BY <1>5, <1>9, <3>2
      <4>2. k \in 1..((n + 1) - 1)
        OBVIOUS
      <4> QED BY <4>1, <4>2
    <3> QED BY <3>1, <3>2
  <2>5. WalksOK'
    BY <2>1, <2>4 DEF WalksOK
  <2>6. PassesOK'
    BY <1>1, <2>1 DEF AdviceInv, PassesOK
  <2>7. AnswerOK'
    BY <2>1 DEF AnswerOK, Priced
  <2> QED BY <2>2, <2>3, <2>5, <2>6, <2>7 DEF AdviceInv
<1>10. CASE Skips(visited) \/ Skips(seen)
  BY <1>4, <1>9, <1>10 DEF AdviceInv, AdviceTypeOK
<1>11. CASE r # None /\ JamOr(<<r>>, seen, i, r, ToRecipe(r, i))
  <2>1. PICK own \in Recs : own = r /\ IsLive(own) /\ own # None
    BY <1>7, <1>11
  <2>2. PICK rs \in Seq(Recs \cup {None}) :
             rs = <<own>> /\ (Jam(rs, seen) = None => HeldOutput(own, seen) = None)
    BY JamOneIs
  <2>3. Jam(rs, seen) = None => HeldOutput(own, seen) = None
    BY <2>2
  <2>4. Jam(rs, seen) = None => Named(ToRecipe(own, i)) /\ SeesJam(ToRecipe(own, i), n)
    BY <1>5, <2>1, <2>3, UnjammedAnswer
  <2> QED BY <1>1, <1>3, <1>11, <1>4, <2>1, <2>2, <2>4, JamOrKeeps
<1>12. CASE Says(ToStorage(i, i))
  <2>1. Named(ToStorage(i, i)) /\ ToStorage(i, i).kind = "storage"
    BY StorageNamed DEF ToStorage
  <2> QED BY <1>1, <1>12, <2>1, SaysKeeps, OtherAnswer
<1>13. CASE /\ r # None /\ (limiting # None \/ Jam(<<r, limiting>>, seen) # None)
            /\ JamOr(<<r, limiting>>, seen, i, r, ToRecipe(limiting, i))
  <2>1. PICK own \in Recs : own = r /\ IsLive(own) /\ own # None
    BY <1>7, <1>13
  <2>2. PICK by \in Recs \cup {None} : by = limiting /\ (by # None => IsLive(by))
    BY <1>6
  <2>3. PICK rs \in Seq(Recs \cup {None}) :
             rs = <<own, by>> /\ (Jam(rs, seen) = None => by = None \/ HeldOutput(by, seen) = None)
    BY JamTwoIs
  <2>4. Jam(rs, seen) = None => by # None /\ HeldOutput(by, seen) = None
    BY <1>13, <2>1, <2>2, <2>3
  <2>5. Jam(rs, seen) = None => Named(ToRecipe(by, i)) /\ SeesJam(ToRecipe(by, i), n)
    BY <1>5, <2>2, <2>4, UnjammedAnswer
  <2> QED BY <1>1, <1>3, <1>13, <1>4, <2>1, <2>2, <2>3, <2>5, JamOrKeeps
<1> QED BY <1>8, <1>10, <1>11, <1>12, <1>13

\* No requirement is blocked: the waterfall's highest entry that is limited, or nothing.
LEMMA PriorityKeeps == ASSUME AdviceInv, AdvisePriority PROVE AdviceInv'
<1>1. stage = "advise" /\ UNCHANGED <<w, passes>> /\ ReportOK
  BY DEF AdvisePriority, AdviceInv
<1>2. CASE FirstLimited = None
  <2>1. Says(NoAdvice)
    BY <1>2 DEF AdvisePriority
  <2>2. Named(NoAdvice) /\ NoAdvice.kind = "none"
    BY DEF NoAdvice, Named
  <2> QED BY <1>1, <2>1, <2>2, SaysKeeps, OtherAnswer
<1>3. CASE FirstLimited # None
  <2>1. PICK i \in Targets, r \in Recs : i = FirstLimited.item /\ r = FirstLimited.limitedBy /\ IsLive(r)
    BY <1>1, <1>3, FirstLimitedIs
  <2>2. PICK own \in Recs \cup {None} : own = w.active[i]
    BY <1>1 DEF ReportOK
  <2>3. CASE i # Power /\ Tag(i) = "FULL"
    <3>1. Says(ToStorage(i, i))
      BY <1>3, <2>1, <2>3 DEF AdvisePriority
    <3>2. Named(ToStorage(i, i)) /\ ToStorage(i, i).kind = "storage"
      BY <2>3, StorageNamed DEF ToStorage, Targets
    <3> QED BY <1>1, <3>1, <3>2, SaysKeeps, OtherAnswer
  <2>4. CASE ~(i # Power /\ Tag(i) = "FULL")
    <3>1. PICK seen \in SUBSET Targets : seen = {i} /\ \A x \in seen : x = i
      <4>1. {i} \in SUBSET Targets /\ \A x \in {i} : x = i
        OBVIOUS
      <4> QED BY <4>1
    <3>2. JamOr(<<own, r>>, seen, i, own, ToRecipe(r, i))
      BY <1>3, <2>1, <2>2, <2>4, <3>1 DEF AdvisePriority
    <3>3. PICK rs \in Seq(Recs \cup {None}) :
               rs = <<own, r>> /\ (Jam(rs, seen) = None => r = None \/ HeldOutput(r, seen) = None)
      BY JamTwoIs
    <3>4. PICK k : k = requirement
      OBVIOUS
    <3>5. r # None
      BY Indexed DEF Recs
    <3>6. Jam(rs, seen) = None => Named(ToRecipe(r, i)) /\ SeesJam(ToRecipe(r, i), k)
      BY <2>1, <3>1, <3>3, <3>5, UnjammedAnswer
    <3> QED BY <1>1, <3>2, <3>3, <3>4, <3>6, JamOrKeeps
  <2> QED BY <2>3, <2>4
<1> QED BY <1>2, <1>3

\* The walk's next hop: storage where nothing drains, the recipe that does, or on.
LEMMA DrainKeeps == ASSUME AdviceInv, Drain PROVE AdviceInv'
<1>1. stage = "drain" /\ UNCHANGED <<w, passes>> /\ hop.item \in Items /\ hop.preferred \in Recs \cup {None}
  BY DEF Drain, AdviceInv, WalksOK
<1>2. PICK i \in Items : i = hop.item
  BY <1>1
<1>3. PICK t : t = hop.target
  OBVIOUS
<1>4. PICK seen \in SUBSET Targets : seen = visited \cup {i}
  BY DEF AdviceInv, AdviceTypeOK, Targets
<1>5. PICK r : r = DrainOf(i, seen, hop.preferred)
  OBVIOUS
<1>6. IF r = None THEN Says(ToStorage(i, t))
      ELSE IF HeldOutput(r, seen) = None THEN Says(ToRecipe(r, t))
      ELSE /\ hop' = [item |-> HeldOutput(r, seen), target |-> t, preferred |-> None]
           /\ visited' = seen
           /\ UNCHANGED <<stage, advice, requirement>>
  BY <1>2, <1>3, <1>4, <1>5 DEF Drain
<1>7. r # None => r \in Recs /\ Drains(r, seen)
  BY <1>1, <1>5, DrainOfIs
<1>8. CASE r = None
  <2>1. Named(ToStorage(i, t)) /\ ToStorage(i, t).kind = "storage"
    BY StorageNamed DEF ToStorage
  <2> QED BY <1>1, <1>6, <1>8, <2>1, SaysKeeps, OtherAnswer
<1>9. CASE r # None /\ HeldOutput(r, seen) = None
  <2>1. IsLive(r) /\ HeldOutput(r, {}) = None /\ r \in Recs
    BY <1>7, <1>9 DEF Drains
  <2>2. PICK k : k = requirement
    OBVIOUS
  <2>3. Named(ToRecipe(r, t)) /\ SeesJam(ToRecipe(r, t), k)
    BY <2>1, UnjammedAnswer
  <2> QED BY <1>1, <1>6, <1>9, <2>2, <2>3, SaysKeeps
<1>10. CASE r # None /\ HeldOutput(r, seen) # None
  <2>1. PICK o \in Items : o = HeldOutput(r, seen)
    BY <1>7, <1>10, HeldOutputIs
  <2>2. /\ hop' = [item |-> o, target |-> t, preferred |-> None]
        /\ visited' = seen /\ UNCHANGED requirement /\ stage' = "drain"
    BY <1>1, <1>6, <1>10, <2>1
  <2> QED BY <1>1, <2>2, DrainingKeeps
<1> QED BY <1>8, <1>9, <1>10

----------------------------------------------------------------------------
\* The redirects.

\* What holds of an answer holds when more has been visited.
LEMMA MoreSeen ==
    ASSUME ReportOK, NEW a, Named(a), NEW seen, NEW more, seen \subseteq more
    PROVE  (Fed(a, seen) => Fed(a, more)) /\ (Paid(a, seen) => Paid(a, more))
<1>1. ASSUME Fed(a, seen), a.kind = "recipe" PROVE StarvedBy(a.recipe, more) = None
  <2>1. PICK r \in Recs : r = a.recipe /\ StarvedBy(r, seen) = None
    BY <1>1 DEF Named, Fed
  <2>2. \A i \in ToSet(Inputs[r]) : Tag(i) # "EMPTY" \/ i \in seen \/ ActiveLive(i) = None
    BY <2>1, StarvedByIs
  <2>3. \A i \in ToSet(Inputs[r]) : Tag(i) # "EMPTY" \/ i \in more \/ ActiveLive(i) = None
    BY <2>2
  <2>4. StarvedBy(r, more) = None
    BY <2>3, StarvedByIs
  <2> QED BY <2>1, <2>4
<1>2. Paid(a, seen) => Paid(a, more)
  BY DEF Paid
<1> QED BY <1>1, <1>2 DEF Fed

\* A recipe with no empty input starves of nothing.
LEMMA NotStarved ==
    ASSUME NEW r \in Recs, NEW seen, ~HasEmptyInput(r) PROVE StarvedBy(r, seen) = None
<1>1. \A i \in ToSet(Inputs[r]) : Tag(i) # "EMPTY" \/ i \in seen \/ ActiveLive(i) = None
  BY DEF HasEmptyInput
<1> QED BY <1>1, StarvedByIs

\* A redirect names what is not blocked, and has visited an item more.
LEMMA RedirectKeeps ==
    ASSUME AdviceInv, UNCHANGED <<w, requirement>>, stage = "price",
           NEW a, NEW seen \in SUBSET Items, Redirect(a, seen), Named(a), Fed(a, seen),
           visited \subseteq seen, NEW d \in seen \ visited
    PROVE  AdviceInv'
<1>1. advice' = a /\ visited' = seen /\ passes' = passes + 1 /\ stage' = "price"
  BY DEF Redirect
<1>2. ReportOK' /\ Named(a)' /\ Fed(a, seen)'
  BY SameReport DEF AdviceInv
<1>3. passes \in Nat /\ passes <= Cardinality(visited)
  BY DEF AdviceInv, AdviceTypeOK, PassesOK
<1>4. AdviceTypeOK'
  BY <1>1, <1>3 DEF AdviceInv, AdviceTypeOK, Targets
<1>5. WalksOK'
  BY <1>1 DEF WalksOK
<1>6. PassesOK'
  <2>1. Cardinality(visited) \in Nat /\ Cardinality(seen) \in Nat
        /\ Cardinality(visited) + 1 <= Cardinality(seen)
    BY OneMore
  <2>2. passes + 1 <= Cardinality(seen)
    BY <1>3, <2>1
  <2> QED BY <1>1, <2>2 DEF PassesOK
<1>7. AnswerOK'
  <2>1. passes' # 0
    BY <1>1, <1>3
  <2> QED BY <1>1, <1>2, <2>1 DEF AnswerOK
<1> QED BY <1>2, <1>4, <1>5, <1>6, <1>7 DEF AdviceInv

\* The walk up the starved recipes starts.
LEMMA StarveKeeps ==
    ASSUME AdviceInv, UNCHANGED <<w, requirement>>, stage = "price",
           NEW r \in Recs, IsLive(r), NEW slow \in BOOLEAN, NEW seen \in SUBSET Items,
           Starve(r, slow, seen), visited \subseteq seen, NEW d \in seen \ visited,
           slow => Paid(advice, visited)
    PROVE  AdviceInv'
<1>1. /\ hop' = [recipe |-> r, slow |-> slow] /\ visited' = seen /\ stage' = "starve"
      /\ advice' = advice /\ passes' = passes
  BY DEF Starve
<1>2. ReportOK /\ ReportOK'
  BY SameReport DEF AdviceInv
<1>3. passes \in Nat /\ passes <= Cardinality(visited)
  BY DEF AdviceInv, AdviceTypeOK, PassesOK
<1>4. AdviceTypeOK'
  BY <1>1 DEF AdviceInv, AdviceTypeOK, Priced, Targets
<1>5. WalksOK'
  <2>1. IsLive(r)'
    BY <1>2, SameReport
  <2> QED BY <1>1, <2>1 DEF WalksOK, Recs
<1>6. PassesOK'
  <2>1. Cardinality(visited) \in Nat /\ Cardinality(seen) \in Nat
        /\ Cardinality(visited) + 1 <= Cardinality(seen)
    BY OneMore
  <2>2. passes + 1 <= Cardinality(seen)
    BY <1>3, <2>1
  <2> QED BY <1>1, <2>2 DEF PassesOK
<1>7. PICK a, k : a = advice /\ k = requirement
  OBVIOUS
<1>8. Named(a) /\ IF passes = 0 THEN SeesJam(a, k) ELSE Fed(a, seen)
  BY <1>2, <1>7, MoreSeen DEF AdviceInv, AnswerOK, Priced
<1>9. slow => Paid(a, seen)
  BY <1>2, <1>7, <1>8, MoreSeen
<1>10. /\ Named(a)' <=> Named(a)
       /\ SeesJam(a, k)' <=> SeesJam(a, k)
       /\ Fed(a, seen)' <=> Fed(a, seen)
       /\ Paid(a, seen)' <=> Paid(a, seen)
  BY <1>2, SameReport
<1>11. AnswerOK'
  <2>1. stage' # "done" /\ (hop.slow' <=> slow) /\ advice' = a /\ requirement' = k
    BY <1>1, <1>7
  <2> QED BY <1>1, <1>8, <1>9, <1>10, <2>1 DEF AnswerOK
<1> QED BY <1>2, <1>4, <1>5, <1>6, <1>11 DEF AdviceInv

\* The advice ends as it is, or as one that no machine and no price is asked for.
LEMMA DoneKeeps ==
    ASSUME AdviceInv, UNCHANGED <<w, requirement, visited, hop, passes>>, stage = "price", stage' = "done",
           NEW a, advice' = a, Named(a), Paid(a, visited), a = advice \/ a.kind # "recipe"
    PROVE  AdviceInv'
<1>1. ReportOK /\ ReportOK'
  BY SameReport DEF AdviceInv
<1>2. AdviceTypeOK' /\ WalksOK' /\ PassesOK'
  BY DEF AdviceInv, AdviceTypeOK, WalksOK, PassesOK, Priced
<1>3. PICK k, seen : k = requirement /\ seen = visited
  OBVIOUS
<1>4. IF passes = 0 THEN SeesJam(a, k) ELSE Fed(a, seen)
  <2>1. CASE a = advice
    BY <1>3, <2>1 DEF AdviceInv, AnswerOK, Priced
  <2>2. CASE a.kind # "recipe"
    BY <2>2 DEF SeesJam, Fed
  <2> QED BY <2>1, <2>2
<1>5. /\ Named(a)' <=> Named(a)
      /\ SeesJam(a, k)' <=> SeesJam(a, k)
      /\ Fed(a, seen)' <=> Fed(a, seen)
      /\ Paid(a, seen)' <=> Paid(a, seen)
  BY <1>1, SameReport
<1>6. AnswerOK'
  BY <1>3, <1>4, <1>5 DEF AnswerOK
<1> QED BY <1>1, <1>2, <1>6 DEF AdviceInv

\* A payer that nothing makes: why its recipe does not run.
LEMMA UnmadeKeeps ==
    ASSUME AdviceInv, UNCHANGED <<w, requirement>>, stage = "price",
           NEW d \in Items \ visited, ActiveLive(d) # None, ForUnmade(d)
    PROVE  AdviceInv'
<1>1. ReportOK /\ visited \in SUBSET Items
  BY DEF AdviceInv, AdviceTypeOK
<1>2. PICK r \in Recs : r = ActiveLive(d) /\ IsLive(r)
  BY <1>1, ActiveLiveIs DEF Targets
<1>3. PICK seen \in SUBSET Items : seen = visited \cup {d}
  BY <1>1
<1>4. PICK t : t = advice.target
  OBVIOUS
<1>5. PICK o : o = FullOutput(r, seen)
  OBVIOUS
<1>6. IF HasEmptyInput(r) THEN Starve(r, FALSE, seen)
      ELSE IF ~w.units[r] THEN Redirect(ToRecipe(r, t), seen)
      ELSE IF o # None THEN Redirect(ToStorage(o, t), seen \cup {o})
      ELSE visited' = seen /\ UNCHANGED <<stage, hop, advice, passes>>
  BY <1>2, <1>3, <1>4, <1>5 DEF ForUnmade
<1>7. CASE HasEmptyInput(r)
  <2>1. Starve(r, FALSE, seen) /\ d \in seen \ visited /\ visited \subseteq seen
    BY <1>3, <1>6, <1>7
  <2>2. PICK slow \in BOOLEAN : slow = FALSE
    OBVIOUS
  <2> QED BY <1>2, <2>1, <2>2, StarveKeeps
<1>8. CASE ~HasEmptyInput(r) /\ ~w.units[r]
  <2>1. PICK a : a = ToRecipe(r, t)
    OBVIOUS
  <2>2. Redirect(a, seen) /\ d \in seen \ visited /\ visited \subseteq seen
    BY <1>3, <1>6, <1>8, <2>1
  <2>3. a.kind = "recipe" /\ a.recipe = r
    BY <2>1 DEF ToRecipe
  <2>4. Named(a) /\ Fed(a, seen)
    BY <1>2, <1>8, <2>3, NotStarved DEF Named, Fed
  <2> QED BY <2>2, <2>4, RedirectKeeps
<1>9. CASE ~HasEmptyInput(r) /\ w.units[r] /\ o # None
  <2>1. o \in Items
    BY <1>5, <1>9, FullOutputIs
  <2>2. PICK a : a = ToStorage(o, t)
    OBVIOUS
  <2>3. PICK more \in SUBSET Items : more = seen \cup {o}
    BY <2>1
  <2>4. Redirect(a, more) /\ d \in more \ visited /\ visited \subseteq more
    BY <1>3, <1>6, <1>9, <2>2, <2>3
  <2>5. Named(a) /\ a.kind = "storage"
    BY <2>1, <2>2, StorageNamed DEF ToStorage
  <2>6. Fed(a, more)
    BY <2>5 DEF Fed
  <2> QED BY <2>4, <2>5, <2>6, RedirectKeeps
<1>10. CASE ~HasEmptyInput(r) /\ w.units[r] /\ o = None
  <2>1. visited' = seen /\ UNCHANGED <<stage, hop, advice, passes>>
    BY <1>6, <1>10
  <2>2. ReportOK'
    BY <1>1, SameReport
  <2>3. AdviceTypeOK' /\ WalksOK'
    BY <2>1 DEF AdviceInv, AdviceTypeOK, WalksOK, Targets
  <2>4. PassesOK'
    <3>1. passes \in Nat /\ passes <= Cardinality(visited)
      BY DEF AdviceInv, AdviceTypeOK, PassesOK
    <3>2. Cardinality(visited) \in Nat /\ Cardinality(seen) \in Nat
          /\ Cardinality(visited) + 1 <= Cardinality(seen)
      BY <1>3, OneMore
    <3>3. passes <= Cardinality(seen)
      BY <3>1, <3>2
    <3> QED BY <2>1, <3>3 DEF PassesOK
  <2>5. PICK a, k : a = advice /\ k = requirement
    OBVIOUS
  <2>6. Named(a) /\ IF passes = 0 THEN SeesJam(a, k) ELSE Fed(a, seen)
    BY <1>1, <1>3, <2>5, MoreSeen DEF AdviceInv, AnswerOK, Priced
  <2>7. /\ Named(a)' <=> Named(a)
        /\ SeesJam(a, k)' <=> SeesJam(a, k)
        /\ Fed(a, seen)' <=> Fed(a, seen)
    BY <1>1, SameReport
  <2>8. AnswerOK'
    BY <2>1, <2>5, <2>6, <2>7 DEF AnswerOK
  <2> QED BY <2>2, <2>3, <2>4, <2>8 DEF AdviceInv
<1> QED BY <1>7, <1>8, <1>9, <1>10

\* One pass of the loop over the price of the advice.
LEMMA PayKeeps == ASSUME AdviceInv, Pay PROVE AdviceInv'
<1> DEFINE over == OverflowingPayer(PriceOf(advice))
           drained == DrainedPayer(PriceOf(advice))
           unmade == Unmade(PriceOf(advice), visited)
           slow == SlowPayer(PriceOf(advice))
<1>1. stage = "price" /\ UNCHANGED <<w, requirement>>
  BY DEF Pay
<1>2. ReportOK /\ visited \in SUBSET Items /\ Named(advice)
  BY <1>1 DEF AdviceInv, AdviceTypeOK, AnswerOK, Priced
<1>3. PICK price \in Prices : price = PriceOf(advice)
  BY <1>2, PriceIs
<1>4. PICK a : a = advice
  OBVIOUS
<1>5. CASE price = None
  <2>1. Done /\ UNCHANGED passes
    BY <1>3, <1>5 DEF Pay
  <2>2. Paid(a, visited)
    BY <1>3, <1>4, <1>5 DEF Paid
  <2> QED BY <1>1, <1>2, <1>4, <2>1, <2>2, DoneKeeps DEF Done
<1>6. CASE price # None /\ over # None
  <2>1. price \in Seq(Costs)
    BY <1>6 DEF Prices
  <2>2. PICK o \in Items : o = over
    BY <1>3, <1>6, <2>1, OverflowingIs
  <2>3. CASE o \in visited
    <3>1. PICK b : b = [kind |-> "storage", item |-> o, upgrade |-> None, target |-> advice.target]
      OBVIOUS
    <3>2. advice' = b /\ stage' = "done" /\ UNCHANGED <<visited, hop, passes>>
      BY <1>3, <1>6, <2>2, <2>3, <3>1 DEF Pay
    <3>3. b.kind = "storage" /\ b.item = o /\ b.upgrade = None
      BY <3>1
    <3>4. Named(b) /\ PriceOf(b) = None
      BY <3>3 DEF Named, PriceOf
    <3> QED BY <1>1, <3>2, <3>3, <3>4, DoneKeeps DEF Paid
  <2>4. CASE o \notin visited
    <3>1. PICK b : b = ToStorage(o, advice.target)
      OBVIOUS
    <3>2. PICK seen \in SUBSET Items : seen = visited \cup {o}
      BY <1>2
    <3>3. Redirect(b, seen) /\ visited \subseteq seen /\ o \in seen \ visited
      BY <1>3, <1>6, <2>2, <2>4, <3>1, <3>2 DEF Pay
    <3>4. Named(b) /\ b.kind = "storage"
      BY <3>1, StorageNamed DEF ToStorage
    <3>5. Fed(b, seen)
      BY <3>4 DEF Fed
    <3> QED BY <1>1, <3>3, <3>4, <3>5, RedirectKeeps
  <2> QED BY <2>3, <2>4
<1>7. CASE price # None /\ over = None /\ drained # None
  <2>1. PICK b : b = ToReserve(drained, advice.target)
    OBVIOUS
  <2>2. advice' = b /\ stage' = "done" /\ UNCHANGED <<visited, hop, passes>>
    BY <1>3, <1>7, <2>1 DEF Pay
  <2>3. b.kind = "reserve"
    BY <2>1 DEF ToReserve
  <2>4. Named(b) /\ PriceOf(b) = None
    BY <2>3 DEF Named, PriceOf
  <2> QED BY <1>1, <2>2, <2>3, <2>4, DoneKeeps DEF Paid
<1>8. CASE price # None /\ over = None /\ drained = None /\ unmade # None
  <2>1. price \in Seq(Costs)
    BY <1>8 DEF Prices
  <2>2. PICK d \in Items \ visited : d = unmade /\ ActiveLive(d) # None
    BY <1>3, <1>8, <2>1, UnmadeIs
  <2>3. ForUnmade(d)
    BY <1>3, <1>8, <2>2 DEF Pay
  <2> QED BY <1>1, <2>2, <2>3, UnmadeKeeps
<1>9. CASE price # None /\ over = None /\ drained = None /\ unmade = None
  <2>1. price \in Seq(Costs)
    BY <1>9 DEF Prices
  <2>2. Paid(a, visited)
    BY <1>3, <1>4, <1>9, <2>1, UnmadeIs DEF Paid
  <2>3. IF slow = None \/ slow \in visited \/ ActiveLive(slow) = None THEN Done /\ UNCHANGED passes
        ELSE Starve(ActiveLive(slow), TRUE, Marked(slow))
    BY <1>3, <1>9 DEF Pay
  <2>4. CASE Done /\ UNCHANGED passes
    BY <1>1, <1>2, <1>4, <2>2, <2>4, DoneKeeps DEF Done
  <2>5. CASE ~(Done /\ UNCHANGED passes)
    <3>1. slow # None /\ slow \notin visited /\ ActiveLive(slow) # None
          /\ Starve(ActiveLive(slow), TRUE, Marked(slow))
      BY <2>3, <2>5
    <3>2. PICK i \in Items : i = slow
      BY <1>3, <2>1, <3>1, SlowIs
    <3>3. PICK r \in Recs : r = ActiveLive(i) /\ IsLive(r)
      BY <1>2, <3>1, <3>2, ActiveLiveIs DEF Targets
    <3>4. PICK seen \in SUBSET Items : seen = visited \cup {i}
      BY <1>2
    <3>5. PICK yes \in BOOLEAN : yes = TRUE
      OBVIOUS
    <3>6. Starve(r, yes, seen) /\ i \in seen \ visited /\ visited \subseteq seen
      BY <3>1, <3>2, <3>3, <3>4, <3>5 DEF Marked
    <3> QED BY <1>1, <1>4, <2>2, <3>3, <3>6, StarveKeeps
  <2> QED BY <2>4, <2>5
<1> QED BY <1>5, <1>6, <1>7, <1>8, <1>9

\* The walk up the starved recipes, one step, and its end.
LEMMA WalkKeeps == ASSUME AdviceInv, Walk PROVE AdviceInv'
<1>1. stage = "starve" /\ UNCHANGED <<w, requirement>> /\ ReportOK
  BY DEF Walk, AdviceInv
<1>2. PICK asked \in Recs : asked = hop.recipe /\ IsLive(asked) /\ hop.slow \in BOOLEAN
  BY <1>1 DEF AdviceInv, WalksOK
<1>3. PICK i : i = StarvedBy(asked, visited)
  OBVIOUS
<1>4. visited \in SUBSET Items /\ passes \in Nat /\ passes + 1 <= Cardinality(visited)
  BY <1>1 DEF AdviceInv, AdviceTypeOK, PassesOK
<1>5. PICK a, k : a = advice /\ k = requirement
  OBVIOUS
<1>6. /\ Named(a) /\ IF passes = 0 THEN SeesJam(a, k) ELSE Fed(a, visited)
      /\ hop.slow => Paid(a, visited)
  BY <1>1, <1>5 DEF AdviceInv, AnswerOK, Priced
<1>7. ReportOK'
  BY <1>1, SameReport
<1>8. CASE i # None
  <2>1. PICK r \in Recs : r = ActiveLive(i) /\ IsLive(r) /\ i \in Items \ visited
    BY <1>1, <1>3, <1>8, StarvedByIs, ActiveLiveIs DEF Targets
  <2>2. PICK seen \in SUBSET Items : seen = visited \cup {i}
    BY <1>4, <2>1
  <2>3. /\ hop' = [hop EXCEPT !.recipe = r] /\ visited' = seen
        /\ UNCHANGED <<stage, advice, passes>>
    BY <1>2, <1>3, <1>8, <2>1, <2>2 DEF Walk
  <2>4. AdviceTypeOK'
    BY <1>1, <2>3 DEF AdviceInv, AdviceTypeOK, Targets
  <2>5. WalksOK'
    BY <1>1, <1>2, <2>1, <2>3, SameReport DEF WalksOK
  <2>6. PassesOK'
    <3>1. Cardinality(visited) \in Nat /\ Cardinality(seen) \in Nat
          /\ Cardinality(visited) + 1 <= Cardinality(seen)
      BY <2>1, <2>2, OneMore
    <3>2. passes + 1 <= Cardinality(seen)
      BY <1>4, <3>1
    <3> QED BY <1>1, <2>3, <3>2 DEF PassesOK
  <2>7. /\ IF passes = 0 THEN SeesJam(a, k) ELSE Fed(a, seen)
        /\ hop.slow => Paid(a, seen)
    BY <1>1, <1>6, <2>2, MoreSeen
  <2>8. /\ Named(a)' <=> Named(a)
        /\ SeesJam(a, k)' <=> SeesJam(a, k)
        /\ Fed(a, seen)' <=> Fed(a, seen)
        /\ Paid(a, seen)' <=> Paid(a, seen)
    BY <1>1, SameReport
  <2>9. AnswerOK'
    <3>1. stage' = "starve" /\ hop.slow' = hop.slow /\ advice' = a /\ requirement' = k
      BY <1>1, <1>5, <2>3
    <3> QED BY <1>6, <2>3, <2>7, <2>8, <3>1 DEF AnswerOK
  <2> QED BY <1>7, <2>4, <2>5, <2>6, <2>9 DEF AdviceInv
<1>9. CASE i = None /\ ~HasEmptyInput(asked)
  <2>1. PICK b : b = ToRecipe(asked, advice.target)
    OBVIOUS
  <2>2. advice' = b /\ passes' = passes + 1 /\ stage' = "price" /\ UNCHANGED <<visited, hop>>
    BY <1>2, <1>3, <1>9, <2>1 DEF Walk
  <2>3. AdviceTypeOK' /\ WalksOK' /\ PassesOK'
    BY <1>1, <1>4, <2>2 DEF AdviceInv, AdviceTypeOK, WalksOK, PassesOK, Priced, Targets
  <2>4. b.kind = "recipe" /\ b.recipe = asked
    BY <2>1 DEF ToRecipe
  <2>5. PICK seen : seen = visited
    OBVIOUS
  <2>6. Named(b) /\ Fed(b, seen)
    BY <1>2, <1>3, <1>9, <2>4, <2>5 DEF Named, Fed
  <2>7. Named(b)' /\ Fed(b, seen)'
    BY <1>1, <2>6, SameReport
  <2>8. AnswerOK'
    <3>1. passes' # 0
      BY <1>4, <2>2
    <3> QED BY <2>2, <2>5, <2>7, <3>1 DEF AnswerOK
  <2> QED BY <1>7, <2>3, <2>8 DEF AdviceInv
<1>10. CASE i = None /\ HasEmptyInput(asked)
  <2>1. /\ stage' = IF hop.slow THEN "done" ELSE "price"
        /\ UNCHANGED <<advice, visited, hop, passes>>
    BY <1>2, <1>3, <1>10 DEF Walk
  <2>2. AdviceTypeOK' /\ WalksOK' /\ PassesOK'
    <3>1. PassesOK'
      <4>1. Cardinality(visited) \in Nat
        BY <1>4, Indexed, FS_Subset, FS_CardinalityType
      <4>2. passes <= Cardinality(visited)
        BY <1>4, <4>1
      <4> QED BY <2>1, <4>2 DEF PassesOK
    <3> QED BY <1>1, <1>4, <2>1, <3>1 DEF AdviceInv, AdviceTypeOK, WalksOK, Priced, Targets
  <2>3. PICK seen : seen = visited
    OBVIOUS
  <2>4. /\ Named(a)' <=> Named(a)
        /\ SeesJam(a, k)' <=> SeesJam(a, k)
        /\ Fed(a, seen)' <=> Fed(a, seen)
        /\ Paid(a, seen)' <=> Paid(a, seen)
    BY <1>1, SameReport
  <2>5. AnswerOK'
    <3>1. (stage' = "done" => hop.slow) /\ stage' # "starve" /\ advice' = a /\ requirement' = k
      BY <1>1, <1>5, <2>1
    <3> QED BY <1>6, <2>1, <2>3, <2>4, <3>1 DEF AnswerOK
  <2> QED BY <1>7, <2>2, <2>5 DEF AdviceInv
<1> QED BY <1>8, <1>9, <1>10

----------------------------------------------------------------------------

\* Before the first step nothing is advised.
LEMMA AdviceInitHolds == ASSUME ReportOK, Start PROVE AdviceInv
BY DEF Start, AdviceInv, AdviceTypeOK, WalksOK, PassesOK, AnswerOK, Priced

\* Every step keeps the invariant.
LEMMA AdviceKeepsInv == AdviceInv /\ [Next]_vars => AdviceInv'
<1> SUFFICES ASSUME AdviceInv, [Next]_vars PROVE AdviceInv'
  OBVIOUS
<1>1. CASE Next
  BY <1>1, PowerKeeps, MilestoneKeeps, PriorityKeeps, DrainKeeps, PayKeeps, WalkKeeps DEF Next
<1>2. CASE UNCHANGED vars
  <2>1. UNCHANGED <<w, stage, requirement, visited, hop, advice, passes>>
    BY <1>2 DEF vars
  <2>2. ReportOK'
    BY <2>1, SameReport DEF AdviceInv
  <2>3. AdviceTypeOK' /\ PassesOK'
    BY <2>1 DEF AdviceInv, AdviceTypeOK, PassesOK
  <2>4. WalksOK'
    BY <2>1 DEF AdviceInv, WalksOK, IsLive
  <2>5. PICK a, k, seen : a = advice /\ k = requirement /\ seen = visited
    OBVIOUS
  <2>6. /\ Named(a)' <=> Named(a)
        /\ SeesJam(a, k)' <=> SeesJam(a, k)
        /\ Fed(a, seen)' <=> Fed(a, seen)
        /\ Paid(a, seen)' <=> Paid(a, seen)
    BY <2>1, SameReport DEF AdviceInv
  <2>7. AnswerOK'
    BY <2>1, <2>5, <2>6 DEF AdviceInv, AnswerOK
  <2> QED BY <2>2, <2>3, <2>4, <2>7 DEF AdviceInv
<1> QED BY <1>1, <1>2

\* The invariant says what AdviceHelps asks.
LEMMA AdviceInvHelps == AdviceInv => AdviceHelps
<1> SUFFICES ASSUME AdviceInv PROVE AdviceHelps
  OBVIOUS
<1>1. NeverGivesUp
  <2>1. \A V \in SUBSET Items : Cardinality(V) \in Nat /\ Cardinality(V) <= Cardinality(Items)
                               /\ Cardinality(Items) \in Nat
    BY Indexed, FS_Subset, FS_CardinalityType
  <2>2. passes \in Nat /\ stage \in {"advise", "drain"} \cup Priced
        /\ (stage # "drain" => visited \in SUBSET Items)
    BY DEF AdviceInv, AdviceTypeOK
  <2>3. CASE stage \in {"advise", "drain"}
    <3>1. passes = 0
      BY <2>3 DEF AdviceInv, PassesOK
    <3>2. {} \in SUBSET Items
      OBVIOUS
    <3>3. Cardinality(Items) \in Nat
      BY <2>1, <3>2
    <3> QED BY <3>1, <3>3 DEF NeverGivesUp
  <2>4. CASE stage \in Priced
    <3>1. visited \in SUBSET Items
      BY <2>2, <2>4 DEF Priced
    <3>2. passes <= Cardinality(visited)
      BY <2>1, <2>2, <2>4, <3>1 DEF AdviceInv, PassesOK, Priced
    <3> QED BY <2>1, <2>2, <3>1, <3>2 DEF NeverGivesUp
  <2> QED BY <2>2, <2>3, <2>4
<1>2. JamIsSeen
  BY DEF AdviceInv, AnswerOK, SeesJam, JamIsSeen, Priced
<1>3. Unblocked
  BY DEF AdviceInv, AdviceTypeOK, AnswerOK, Named, Fed, Unblocked, Priced
<1>4. DeadEndsAreWalked
  BY DEF AdviceInv, AnswerOK, Paid, DeadEndsAreWalked, Priced
<1> QED BY <1>1, <1>2, <1>3, <1>4 DEF AdviceHelps

\* AdviceHelps, for every bundle and every report: the redirects of bottleneck.ts payable take
\* no more passes than there are items, and the machine that is advised is live, is not one that
\* the sweep would hold, is not starved of what could be walked to, and has a price whose unmade
\* payers were all tried or have no live recipe.
THEOREM AdviceAlwaysHelps == AdviceSpec => []AdviceHelps
BY AdviceInitHolds, AdviceKeepsInv, AdviceInvHelps, PTL DEF AdviceSpec

----------------------------------------------------------------------------
(* calibrate.ts: bisectMonotone on the stairs of whole amounts.            *)

Stages == {"seed", "up", "floor", "down", "split", "done"}
Searches ==
    [at : Stages, target : Nat, floor : Nat, x : Nat, y : Nat, lo : Nat, hi : Nat, best : Nat,
     turns : Nat, evaluations : Nat, converged : BOOLEAN]

\* x was tried, and measured y.
Tried(x, y) == y = Reading(x) /\ <<x, y>> \in tried

\* An input that came out below the target, or above it, and not near it.
Below(x) == Tried(x, Reading(x)) /\ Reading(x) < seek.target /\ ~IsHit(Reading(x), seek.target)
Above(x) == Tried(x, Reading(x)) /\ Reading(x) > seek.target /\ ~IsHit(Reading(x), seek.target)

SearchInv ==
    /\ stair \in [1..Top -> Readings] /\ Rises(stair) /\ atOne \in Bases
    /\ seek \in Searches /\ seek.target < Infinity
    /\ seek.at # "seed" => seek.y = Reading(seek.x)
    /\ seek.at = "up" => Below(seek.x)
    /\ seek.at \in {"floor", "down"} => Above(seek.x)
    /\ seek.at = "split" => Below(seek.lo) /\ Above(seek.hi)
    /\ seek.at = "done" /\ seek.converged => IsHit(seek.y, seek.target)

\* A floored amount is an amount.
LEMMA AmountIs == ASSUME atOne \in Bases, NEW x \in Nat PROVE Amount(x) \in Nat \ {0}
<1>1. atOne \in Nat /\ SeedAt \in Nat /\ SeedAt > 0
  BY Options, StairsAreWhole
<1>2. PICK n : n = 2 * atOne * x + SeedAt
  OBVIOUS
<1>3. PICK d : d = 2 * SeedAt
  OBVIOUS
<1>4. n \in Nat
  <2>1. atOne * x \in Nat
    BY <1>1
  <2>2. 2 * atOne * x \in Nat
    BY <1>1
  <2> QED BY <1>1, <1>2, <2>2
<1>5. d \in Nat /\ d > 0
  BY <1>1, <1>3
<1>6. n \div d \in Int
  BY <1>4, <1>5
<1>7. Amount(x) = IF n \div d < 1 THEN 1 ELSE n \div d
  BY <1>2, <1>3 DEF Amount
<1> QED BY <1>6, <1>7

\* A run measures a number.
LEMMA ReadingIs ==
    ASSUME stair \in [1..Top -> Readings], atOne \in Bases, NEW x \in Nat
    PROVE  Reading(x) \in Nat
<1>1. Amount(x) \in Nat \ {0} /\ Top \in Nat /\ Infinity \in Nat
  BY AmountIs, StairsAreWhole DEF Infinity
<1>2. PICK a \in Nat \ {0} : a = Amount(x)
  BY <1>1
<1>3. a <= Top => a \in 1..Top
  BY <1>1
<1>4. a <= Top => stair[a] \in Readings
  BY <1>3
<1>5. a <= Top => stair[a] \in Nat
  BY <1>4, StairsAreWhole
<1>6. Reading(x) = IF a > Top THEN Infinity ELSE stair[a]
  BY <1>2 DEF Reading
<1> QED BY <1>1, <1>5, <1>6

\* The stairs rise over any distance, and not only from step to step: take the least amount
\* at which they have fallen.
LEMMA Climbs ==
    ASSUME stair \in [1..Top -> Readings], Rises(stair), NEW a \in 1..Top
    PROVE  \A z \in a..Top : stair[a] <= stair[z]
<1> DEFINE Bad == {z \in a..Top : ~(stair[a] <= stair[z])}
           R == OpToRel(<, Nat)
<1>0. Top \in Nat /\ \A z \in 1..Top : stair[z] \in Nat
  BY StairsAreWhole
<1> SUFFICES ASSUME Bad # {} PROVE FALSE
  OBVIOUS
<1>1. Bad \subseteq Nat
  BY <1>0
<1>2. PICK p \in Bad : \A q \in Bad : ~(<<q, p>> \in R)
  <2> HIDE DEF R, Bad
  <2>1. IsWellFoundedOn(R, Nat)
    BY NatLessThanWellFounded DEF R
  <2> QED BY <1>1, <2>1, WFMin
<1> HIDE DEF R
<1>3. p \in a..Top /\ p # a /\ ~(stair[a] <= stair[p])
  <2>1. p \in a..Top /\ ~(stair[a] <= stair[p])
    BY <1>2
  <2>2. stair[a] <= stair[a]
    BY <1>0
  <2> QED BY <2>1, <2>2
<1>4. p - 1 \in a..Top /\ p \in 2..Top /\ p - 1 \in 1..Top
  BY <1>0, <1>3
<1>5. stair[p - 1] <= stair[p]
  BY <1>4 DEF Rises
<1>6. p - 1 \notin Bad
  <2>1. <<p - 1, p>> \in R
    BY <1>0, <1>4 DEF OpToRel, R
  <2> QED BY <1>2, <2>1
<1>7. stair[a] <= stair[p - 1]
  BY <1>4, <1>6
<1>8. stair[a] \in Nat /\ stair[p] \in Nat /\ stair[p - 1] \in Nat
  BY <1>0, <1>3, <1>4
<1> QED BY <1>3, <1>5, <1>7, <1>8

\* A measurement that is no hit, or one further from the target on the same side, is none.
LEMMA FurtherIsNoHit ==
    ASSUME NEW t \in Nat, NEW y \in Nat, NEW z \in Nat, t < Infinity, ~IsHit(y, t),
           (z <= y /\ y < t) \/ (t < y /\ y <= z)
    PROVE  ~IsHit(z, t)
<1>1. PICK dy, dz : dy = Distance(y, t) /\ dz = Distance(z, t)
  OBVIOUS
<1>2. dy \in Nat /\ dz \in Nat /\ dy <= dz
  BY <1>1 DEF Distance
<1>3. TolDen \in Nat /\ TolNum \in Nat
  BY Options
<1>4. dy * TolDen <= dz * TolDen /\ dy * TolDen \in Nat /\ dz * TolDen \in Nat /\ TolNum * t \in Nat
  <2>1. PICK e \in Nat : dz = dy + e
    <3>1. dz - dy \in Nat /\ dz = dy + (dz - dy)
      BY <1>2
    <3> QED BY <3>1
  <2>2. dz * TolDen = dy * TolDen + e * TolDen
    BY <1>2, <1>3, <2>1
  <2>3. e * TolDen \in Nat /\ dy * TolDen \in Nat /\ TolNum * t \in Nat
    BY <1>2, <1>3
  <2> QED BY <2>2, <2>3
<1>5. Infinity \in Nat
  BY DEF Infinity
<1>6. CASE y < Infinity
  BY <1>1, <1>4, <1>5, <1>6 DEF IsHit
<1>7. CASE ~(y < Infinity)
  BY <1>5, <1>7 DEF IsHit
<1> QED BY <1>6, <1>7

\* A measurement is a hit, below the target or above it.
LEMMA Sides ==
    ASSUME NEW t \in Nat, NEW y \in Nat, t < Infinity, ~IsHit(y, t)
    PROVE  y < t \/ y > t
<1> SUFFICES ASSUME y = t PROVE FALSE
  OBVIOUS
<1>1. Distance(y, t) = 0
  BY DEF Distance
<1>2. TolDen \in Nat /\ TolNum * t \in Nat
  BY Options
<1> QED BY <1>1, <1>2 DEF IsHit

----------------------------------------------------------------------------
\* What a search may be after a step, t being its target and S what was tried.
Low(t, S, v) == v \in Nat /\ <<v, Reading(v)>> \in S /\ Reading(v) < t /\ ~IsHit(Reading(v), t)
High(t, S, v) == v \in Nat /\ <<v, Reading(v)>> \in S /\ Reading(v) > t /\ ~IsHit(Reading(v), t)

Good(t, S, q) ==
    /\ q \in Searches /\ q.target = t /\ q.at # "seed"
    /\ q.y = Reading(q.x)
    /\ q.at = "up" => Low(t, S, q.x)
    /\ q.at \in {"floor", "down"} => High(t, S, q.x)
    /\ q.at = "split" => Low(t, S, q.lo) /\ High(t, S, q.hi)
    /\ q.at = "done" /\ q.converged => IsHit(q.y, t)

\* A search that ends with an input and what it measured.
LEMMA EndsWell ==
    ASSUME NEW t, NEW S, NEW q \in Searches, q.target = t, NEW x \in Nat, NEW y \in Nat, y = Reading(x),
           NEW hit \in BOOLEAN, hit => IsHit(y, t)
    PROVE  Good(t, S, Ended(q, x, y, hit))
<1>1. PICK e : e = Ended(q, x, y, hit)
  OBVIOUS
<1>2. e \in Searches
  BY <1>1 DEF Ended, Searches, Stages
<1>3. e.at = "done" /\ e.x = x /\ e.y = y /\ e.converged = hit /\ e.target = t
  BY <1>1 DEF Ended, Searches
<1> QED BY <1>1, <1>2, <1>3 DEF Good

\* Giving up reports the best input so far.
LEMMA GivesUpWell ==
    ASSUME NEW t, NEW S, NEW q \in Searches, q.target = t, q.y = Reading(q.x)
    PROVE  Good(t, S, GaveUp(q))
<1>1. q.x \in Nat /\ q.y \in Nat
  BY DEF Searches
<1> QED BY <1>1, EndsWell DEF GaveUp

\* A bracket whose ends lie on either side of the target is split, or collapsed.
LEMMA SplitsWell ==
    ASSUME NEW t, NEW S, NEW q \in Searches, q.target = t, q.y = Reading(q.x),
           Low(t, S, q.lo), High(t, S, q.hi)
    PROVE  Good(t, S, Split(q))
<1>1. PICK e : e = [q EXCEPT !.at = "split"]
  OBVIOUS
<1>2. e \in Searches
  BY <1>1 DEF Searches, Stages
<1>3. e.at = "split" /\ e.x = q.x /\ e.y = q.y /\ e.lo = q.lo /\ e.hi = q.hi /\ e.target = t
  BY <1>1 DEF Searches
<1>4. Good(t, S, e)
  BY <1>2, <1>3 DEF Good
<1> QED BY <1>1, <1>4, GivesUpWell DEF Split

\* The walk goes on up from an input below the target, and down from one above it.
LEMMA ExpandsWell ==
    ASSUME NEW t, NEW S, NEW q \in Searches, q.target = t, q.y = Reading(q.x),
           NEW at \in {"up", "down"},
           at = "up" => Low(t, S, q.x), at = "down" => High(t, S, q.x)
    PROVE  Good(t, S, Expand(q, at))
<1>1. PICK e : e = [q EXCEPT !.at = at]
  OBVIOUS
<1>2. e \in Searches
  BY <1>1 DEF Searches, Stages
<1>3. e.at = at /\ e.x = q.x /\ e.y = q.y /\ e.target = t
  BY <1>1 DEF Searches
<1>4. Good(t, S, e)
  BY <1>2, <1>3 DEF Good
<1> QED BY <1>1, <1>4, GivesUpWell DEF Expand

\* The floor is probed from an input above the target.
LEMMA DownWell ==
    ASSUME NEW t, NEW S, NEW q \in Searches, q.target = t, q.y = Reading(q.x), High(t, S, q.x)
    PROVE  Good(t, S, Down(q))
<1>1. PICK e : e = [q EXCEPT !.at = "floor", !.turns = 0]
  OBVIOUS
<1>2. e \in Searches
  BY <1>1 DEF Searches, Stages
<1>3. e.at = "floor" /\ e.x = q.x /\ e.y = q.y /\ e.target = t
  BY <1>1 DEF Searches
<1>4. Good(t, S, e)
  BY <1>2, <1>3 DEF Good
<1> QED BY <1>1, <1>4, GivesUpWell DEF Down

\* The two ends of a bracket, in whichever order they were tried.
LEMMA BracketsWell ==
    ASSUME NEW t, NEW S, NEW q \in Searches, q.target = t, q.y = Reading(q.x), NEW x,
           \/ Low(t, S, q.x) /\ High(t, S, x) /\ q.x < x
           \/ High(t, S, q.x) /\ Low(t, S, x) /\ x < q.x
    PROVE  Good(t, S, Split(Bracketed(q, x)))
<1>1. PICK e : e = Bracketed(q, x)
  OBVIOUS
<1>2. x \in Nat /\ q.x \in Nat
  BY DEF Low, High, Searches
<1>3. e \in Searches
  BY <1>1, <1>2 DEF Bracketed, Searches
<1>4. /\ e.x = q.x /\ e.y = q.y /\ e.target = t
      /\ e.lo = IF x < q.x THEN x ELSE q.x
      /\ e.hi = IF x < q.x THEN q.x ELSE x
  BY <1>1 DEF Bracketed, Searches
<1>5. Low(t, S, e.lo) /\ High(t, S, e.hi)
  BY <1>2, <1>4
<1> QED BY <1>1, <1>3, <1>4, <1>5, SplitsWell

\* A split moves the end on whose side the measurement came out.
LEMMA RefinesWell ==
    ASSUME NEW t, NEW S, NEW q \in Searches, q.target = t, q.y = Reading(q.x),
           Low(t, S, q.lo), High(t, S, q.hi), NEW x \in Nat, NEW y \in Nat, y = Reading(x),
           Low(t, S, x) \/ High(t, S, x), t \in Nat
    PROVE  Good(t, S, Refined(q, x, y))
<1>1. PICK e : e = [q EXCEPT !.x = IF Nearer(q, y) THEN x ELSE q.x,
                             !.y = IF Nearer(q, y) THEN y ELSE q.y,
                             !.best = IF Nearer(q, y) THEN Distance(y, q.target) ELSE q.best,
                             !.lo = IF y < q.target THEN x ELSE q.lo,
                             !.hi = IF y < q.target THEN q.hi ELSE x,
                             !.turns = @ + 1]
  OBVIOUS
<1>2. /\ q.x \in Nat /\ q.y \in Nat /\ q.best \in Nat /\ q.lo \in Nat /\ q.hi \in Nat /\ q.turns \in Nat
      /\ q.turns + 1 \in Nat /\ Distance(y, q.target) \in Nat
  BY DEF Searches, Distance
<1>3. e \in Searches
  BY <1>1, <1>2 DEF Searches
<1>4. /\ e.target = t
      /\ e.x = IF Nearer(q, y) THEN x ELSE q.x
      /\ e.y = IF Nearer(q, y) THEN y ELSE q.y
      /\ e.lo = IF y < t THEN x ELSE q.lo
      /\ e.hi = IF y < t THEN q.hi ELSE x
  BY <1>1 DEF Searches
<1>5. e.y = Reading(e.x)
  BY <1>4
<1>6. (y < t => Low(t, S, x)) /\ (~(y < t) => High(t, S, x))
  BY DEF Low, High
<1>7. Low(t, S, e.lo) /\ High(t, S, e.hi)
  BY <1>4, <1>6
<1> QED BY <1>1, <1>3, <1>4, <1>5, <1>7, SplitsWell DEF Refined

\* One evaluation, wherever the search is.
LEMMA JudgesWell ==
    ASSUME NEW t \in Nat, t < Infinity, NEW S, NEW q \in Searches, q.target = t, q.at # "done",
           NEW x \in Nat, NEW y \in Nat, y = Reading(x), <<x, y>> \in S, x = ProbeAt(q),
           q.at # "seed" => q.y = Reading(q.x),
           q.at = "up" => Low(t, S, q.x),
           q.at \in {"floor", "down"} => High(t, S, q.x),
           q.at = "split" => Low(t, S, q.lo) /\ High(t, S, q.hi)
    PROVE  Good(t, S, Judged(q, x, y))
<1>0. /\ q.x \in Nat /\ q.at \in Stages \ {"done"} /\ (q.at = "seed" => x = q.x)
      /\ (q.at = "up" => x = q.x * 4) /\ (q.at = "down" => x = q.x \div 4)
  BY DEF ProbeAt, Searches, Stages
<1>1. CASE q.at # "floor" /\ IsHit(y, t)
  <2>1. Judged(q, x, y) = Ended(q, x, y, TRUE)
    BY <1>1 DEF Judged
  <2>2. Good(t, S, Ended(q, x, y, TRUE))
    BY <1>1, EndsWell
  <2> QED BY <2>1, <2>2
<1>2. ~IsHit(y, t) => Low(t, S, x) \/ High(t, S, x)
  <2>1. ~IsHit(y, t) => y < t \/ y > t
    BY Sides
  <2> QED BY <2>1 DEF Low, High
<1>3. (Low(t, S, x) => y < t) /\ (High(t, S, x) => y > t /\ ~(y < t))
  BY DEF Low, High
<1>4. CASE q.at = "seed" /\ ~IsHit(y, t)
  <2>1. PICK e : e = [q EXCEPT !.y = y]
    OBVIOUS
  <2>2. e \in Searches /\ e.target = t /\ e.x = x /\ e.y = y
    BY <1>0, <1>4, <2>1 DEF Searches
  <2>3. Judged(q, x, y) = IF y < t THEN Expand(e, "up") ELSE Down(e)
    BY <1>4, <2>1 DEF Judged
  <2>4. y < t => Good(t, S, Expand(e, "up"))
    BY <1>2, <1>3, <1>4, <2>2, ExpandsWell
  <2>5. ~(y < t) => Good(t, S, Down(e))
    BY <1>2, <1>3, <1>4, <2>2, DownWell
  <2> QED BY <2>3, <2>4, <2>5
<1>5. CASE q.at \in {"up", "down"} /\ ~IsHit(y, t)
  <2>1. PICK e : e = [q EXCEPT !.x = x, !.y = y, !.turns = @ + 1]
    OBVIOUS
  <2>2. e \in Searches /\ e.target = t /\ e.x = x /\ e.y = y
    <3>1. q.turns \in Nat
      BY DEF Searches
    <3>2. q.turns + 1 \in Nat
      BY <3>1
    <3> QED BY <2>1, <3>2 DEF Searches
  <2>3. CASE q.at = "up"
    <3>1. Judged(q, x, y) = IF y > t THEN Split(Bracketed(q, x)) ELSE Expand(e, "up")
      BY <1>5, <2>1, <2>3 DEF Judged
    <3>2. y > t => Good(t, S, Split(Bracketed(q, x)))
      <4> SUFFICES ASSUME y > t PROVE Good(t, S, Split(Bracketed(q, x)))
        OBVIOUS
      <4>1. High(t, S, x)
        BY <1>2, <1>3, <1>5
      <4>2. q.x # x
        BY <2>3 DEF Low
      <4>3. q.x < x
        BY <1>0, <2>3, <4>2
      <4> QED BY <2>3, <4>1, <4>3, BracketsWell
    <3>3. ~(y > t) => Good(t, S, Expand(e, "up"))
      BY <1>2, <1>3, <1>5, <2>2, ExpandsWell
    <3> QED BY <3>1, <3>2, <3>3
  <2>4. CASE q.at = "down"
    <3>1. Judged(q, x, y) = IF y < t THEN Split(Bracketed(q, x)) ELSE Expand(e, "down")
      BY <1>5, <2>1, <2>4 DEF Judged
    <3>2. y < t => Good(t, S, Split(Bracketed(q, x)))
      <4> SUFFICES ASSUME y < t PROVE Good(t, S, Split(Bracketed(q, x)))
        OBVIOUS
      <4>1. Low(t, S, x)
        BY <1>2, <1>3, <1>5
      <4>2. q.x # x
        BY <2>4 DEF High
      <4>3. x < q.x
        BY <1>0, <2>4, <4>2
      <4> QED BY <2>4, <4>1, <4>3, BracketsWell
    <3>3. ~(y < t) => Good(t, S, Expand(e, "down"))
      BY <1>2, <1>3, <1>5, <2>2, ExpandsWell
    <3> QED BY <3>1, <3>2, <3>3
  <2> QED BY <1>5, <2>3, <2>4
<1>6. CASE q.at = "split" /\ ~IsHit(y, t)
  <2>1. Judged(q, x, y) = Refined(q, x, y)
    BY <1>6 DEF Judged
  <2>2. Good(t, S, Refined(q, x, y))
    BY <1>2, <1>6, RefinesWell
  <2> QED BY <2>1, <2>2
<1>7. CASE q.at = "floor"
  <2>1. Judged(q, x, y) = IF FloorEnds(q, y) THEN Ended(q, x, y, FALSE) ELSE Expand(q, "down")
    BY <1>7 DEF Judged
  <2>2. Good(t, S, Ended(q, x, y, FALSE))
    BY EndsWell
  <2>3. Good(t, S, Expand(q, "down"))
    BY <1>7, ExpandsWell
  <2> QED BY <2>1, <2>2, <2>3
<1> QED BY <1>0, <1>1, <1>4, <1>5, <1>6, <1>7 DEF Stages

----------------------------------------------------------------------------

\* A search starts with nothing tried.
LEMMA SearchStarts ==
    ASSUME NEW wanted, wanted \subseteq 1..(Infinity - 1), StaircaseInit(wanted) PROVE SearchInv
<1>1. PICK t \in wanted : seek = Started(t, SeedAt \div atOne)
  BY DEF StaircaseInit
<1>2. t \in Nat /\ t < Infinity /\ Infinity \in Nat
  <2>1. t \in 1..(Infinity - 1)
    OBVIOUS
  <2>2. Infinity \in Nat
    BY DEF Infinity
  <2> QED BY <2>1, <2>2
<1>3. SeedAt \in Nat /\ SeedAt \div atOne \in Nat
  <2>1. atOne \in Nat /\ atOne > 0 /\ SeedAt \in Nat
    BY Options, StairsAreWhole DEF StaircaseInit
  <2> QED BY <2>1
<1>4. seek \in Searches /\ seek.at = "seed" /\ seek.target = t
  BY <1>1, <1>2, <1>3 DEF Started, Searches, Stages
<1> QED BY <1>2, <1>4 DEF StaircaseInit, SearchInv

\* Where a search looks next is an input.
LEMMA ProbeIs == ASSUME NEW q \in Searches, q.at # "done" PROVE ProbeAt(q) \in Nat
<1>1. /\ q.x \in Nat /\ q.lo \in Nat /\ q.hi \in Nat /\ q.floor \in Nat
      /\ q.at \in {"seed", "up", "floor", "down", "split"}
  BY DEF Searches, Stages
<1>2. q.x * 4 \in Nat /\ q.x \div 4 \in Nat /\ (q.lo + q.hi) \div 2 \in Nat
  BY <1>1
<1> QED BY <1>1, <1>2 DEF ProbeAt

\* Every evaluation keeps the invariant.
LEMMA SearchSteps == ASSUME SearchInv, StaircaseNext PROVE SearchInv'
<1>1. PICK t, S, x, y, q :
         /\ t = seek.target /\ S = tried' /\ x = ProbeAt(seek) /\ y = Reading(x)
         /\ q = [seek EXCEPT !.evaluations = @ + 1]
  OBVIOUS
<1>2. /\ seek' = Judged(q, x, y) /\ S = tried \cup {<<x, y>>} /\ seek.at # "done"
      /\ stair' = stair /\ atOne' = atOne
  BY <1>1 DEF StaircaseNext, Learned
<1>3. x \in Nat /\ y \in Nat /\ t \in Nat /\ t < Infinity
  <2>1. x \in Nat /\ t \in Nat
    BY <1>1, <1>2, ProbeIs DEF SearchInv, Searches
  <2> QED BY <1>1, <2>1, ReadingIs DEF SearchInv
<1>4. /\ q \in Searches /\ q.target = t /\ q.at = seek.at /\ q.x = seek.x /\ q.y = seek.y
      /\ q.lo = seek.lo /\ q.hi = seek.hi /\ q.floor = seek.floor
  <2>1. seek.evaluations \in Nat
    BY DEF SearchInv, Searches
  <2>2. seek.evaluations + 1 \in Nat
    BY <2>1
  <2> QED BY <1>1, <2>2 DEF SearchInv, Searches
<1>5. x = ProbeAt(q)
  BY <1>1, <1>4 DEF ProbeAt
<1>6. /\ \A v \in Nat : Below(v) => Low(t, S, v)
      /\ \A v \in Nat : Above(v) => High(t, S, v)
  BY <1>1, <1>2 DEF Below, Above, Tried, Low, High
<1>7. seek.x \in Nat /\ seek.lo \in Nat /\ seek.hi \in Nat
  BY DEF SearchInv, Searches
<1>8. /\ q.at # "seed" => q.y = Reading(q.x)
      /\ q.at = "up" => Low(t, S, q.x)
      /\ q.at \in {"floor", "down"} => High(t, S, q.x)
      /\ q.at = "split" => Low(t, S, q.lo) /\ High(t, S, q.hi)
  BY <1>4, <1>6, <1>7 DEF SearchInv
<1>9. Good(t, S, Judged(q, x, y))
  <2>1. <<x, y>> \in S
    BY <1>2
  <2> QED BY <1>1, <1>2, <1>3, <1>4, <1>5, <1>8, <2>1, JudgesWell
<1>10. PICK z : z = seek' /\ Good(t, S, z)
  BY <1>2, <1>9
<1>11. \A v : Reading(v)' = Reading(v)
  BY <1>2 DEF Reading, Amount
<1>12. /\ \A v : Low(t, S, v) /\ seek'.target = t => Below(v)'
       /\ \A v : High(t, S, v) /\ seek'.target = t => Above(v)'
  BY <1>1, <1>11 DEF Below, Above, Tried, Low, High
<1>13. Rises(stair)' /\ (stair \in [1..Top -> Readings])' /\ (atOne \in Bases)'
  BY <1>2 DEF SearchInv, Rises
<1> QED BY <1>3, <1>10, <1>11, <1>12, <1>13 DEF Good, SearchInv

\* The law of powers, which the provers do not know of.
Powers(b) == b ^ 0 = 1 /\ \A n \in Nat : b ^ n \in Nat /\ b ^ (n + 1) = b * b ^ n

\* No amount is an answer.
NoHits(t) == \A a \in 1..Top : ~IsHit(stair[a], t)

\* Whole division rounds down.
LEMMA WholePart ==
    ASSUME NEW n \in Nat, NEW d \in Nat \ {0}
    PROVE  n \div d \in Nat /\ d * (n \div d) <= n /\ n < d * (n \div d) + d
  OBVIOUS

\* A product grows with its factors.
LEMMA Times ==
    ASSUME NEW a \in Nat, NEW b \in Nat, NEW c \in Nat, a <= b
    PROVE  a * c <= b * c /\ c * a <= c * b /\ a * c \in Nat /\ b * c \in Nat
<1>1. PICK e \in Nat : b = a + e
  <2>1. b - a \in Nat /\ b = a + (b - a)
    OBVIOUS
  <2> QED BY <2>1
<1>2. b * c = a * c + e * c /\ e * c \in Nat /\ a * c \in Nat /\ b * c = c * b /\ a * c = c * a
  BY <1>1
<1> QED BY <1>2

\* What the nearest whole amount of a factor is.
LEMMA AmountRounds ==
    ASSUME atOne \in Bases, NEW x \in Nat
    PROVE  \E near \in Nat : /\ Amount(x) = (IF near < 1 THEN 1 ELSE near)
                          /\ 2 * SeedAt * near <= 2 * atOne * x + SeedAt
                          /\ 2 * atOne * x < 2 * SeedAt * near + SeedAt
<1>1. atOne \in Nat /\ SeedAt \in Nat /\ SeedAt > 0
  BY Options, StairsAreWhole
<1>2. PICK n : n = 2 * atOne * x + SeedAt
  OBVIOUS
<1>3. PICK d : d = 2 * SeedAt
  OBVIOUS
<1>4. n \in Nat
  <2>1. atOne * x \in Nat
    BY <1>1
  <2>2. 2 * atOne * x \in Nat
    BY <1>1
  <2> QED BY <1>1, <1>2, <2>2
<1>5. d \in Nat \ {0}
  BY <1>1, <1>3
<1>6. PICK near : near = n \div d
  OBVIOUS
<1>7. near \in Nat /\ d * near <= n /\ n < d * near + d
  BY <1>4, <1>5, <1>6, WholePart
<1>8. Amount(x) = IF near < 1 THEN 1 ELSE near
  BY <1>2, <1>3, <1>6 DEF Amount
<1>9. 2 * SeedAt * near \in Nat /\ 2 * atOne * x \in Nat /\ d * near = 2 * SeedAt * near
  BY <1>1, <1>3, <1>7
<1>10. 2 * SeedAt * near <= 2 * atOne * x + SeedAt /\ 2 * atOne * x < 2 * SeedAt * near + SeedAt
  <2>1. PICK u, v : u = 2 * SeedAt * near /\ v = 2 * atOne * x
    OBVIOUS
  <2>2. u \in Nat /\ v \in Nat /\ u <= v + SeedAt /\ v + SeedAt < u + 2 * SeedAt
    BY <1>2, <1>3, <1>7, <1>9, <2>1
  <2>3. u <= v + SeedAt /\ v < u + SeedAt
    BY <1>1, <2>2
  <2> QED BY <2>1, <2>3
<1> QED BY <1>7, <1>8, <1>10

\* Inputs less than a unit apart, in amounts, are at most one amount apart.
LEMMA AmountsClose ==
    ASSUME atOne \in Bases, NEW x \in Nat, NEW z \in Nat, x <= z, atOne * (z - x) <= SeedAt
    PROVE  Amount(z) <= Amount(x) + 1
<1>1. atOne \in Nat /\ SeedAt \in Nat /\ SeedAt > 0
  BY Options, StairsAreWhole
<1>2. PICK v \in Nat : /\ Amount(x) = (IF v < 1 THEN 1 ELSE v)
                       /\ 2 * SeedAt * v <= 2 * atOne * x + SeedAt
                       /\ 2 * atOne * x < 2 * SeedAt * v + SeedAt
  BY AmountRounds
<1>3. PICK near \in Nat : /\ Amount(z) = (IF near < 1 THEN 1 ELSE near)
                       /\ 2 * SeedAt * near <= 2 * atOne * z + SeedAt
                       /\ 2 * atOne * z < 2 * SeedAt * near + SeedAt
  BY AmountRounds
<1>4. atOne * z <= atOne * x + SeedAt /\ atOne * z \in Nat /\ atOne * x \in Nat
  <2>1. atOne * (z - x) = atOne * z - atOne * x /\ atOne * z \in Nat /\ atOne * x \in Nat
    BY <1>1
  <2> QED BY <1>1, <2>1
<1>5. near <= v + 1
  <2> SUFFICES ASSUME v + 2 <= near PROVE FALSE
    BY <1>2, <1>3
  <2>1. SeedAt * (v + 2) <= SeedAt * near /\ SeedAt * near \in Nat
    BY <1>1, <1>2, <1>3, Times
  <2>2. SeedAt * (v + 2) = SeedAt * v + 2 * SeedAt /\ SeedAt * v \in Nat
    BY <1>1, <1>2
  <2>3. 2 * (SeedAt * near) <= 2 * (atOne * z) + SeedAt /\ 2 * (atOne * x) < 2 * (SeedAt * v) + SeedAt
    <3>1. 2 * SeedAt * near = 2 * (SeedAt * near) /\ 2 * atOne * z = 2 * (atOne * z)
      BY <1>1, <1>3
    <3>2. 2 * SeedAt * v = 2 * (SeedAt * v) /\ 2 * atOne * x = 2 * (atOne * x)
      BY <1>1, <1>2
    <3> QED BY <1>2, <1>3, <3>1, <3>2
  <2> QED BY <1>1, <1>4, <2>1, <2>2, <2>3
<1>6. PICK a, c : a = Amount(x) /\ c = Amount(z)
  OBVIOUS
<1>7. a = (IF v < 1 THEN 1 ELSE v) /\ c = (IF near < 1 THEN 1 ELSE near)
  BY <1>2, <1>3, <1>6
<1>8. v \in Nat /\ near \in Nat
  OBVIOUS
<1>9. c <= a + 1
  <2>1. CASE near < 1
    BY <1>5, <1>7, <1>8, <2>1
  <2>2. CASE ~(near < 1)
    BY <1>5, <1>7, <1>8, <2>2
  <2> QED BY <2>1, <2>2
<1> QED BY <1>6, <1>9

\* An input of a unit at most is one amount.
LEMMA AmountOne ==
    ASSUME atOne \in Bases, NEW x \in Nat, atOne * x <= SeedAt PROVE Amount(x) = 1
<1>1. atOne \in Nat /\ SeedAt \in Nat /\ SeedAt > 0
  BY Options, StairsAreWhole
<1>2. PICK near \in Nat : /\ Amount(x) = (IF near < 1 THEN 1 ELSE near)
                       /\ 2 * SeedAt * near <= 2 * atOne * x + SeedAt
                       /\ 2 * atOne * x < 2 * SeedAt * near + SeedAt
  BY AmountRounds
<1>3. near < 2
  <2> SUFFICES ASSUME 2 <= near PROVE FALSE
    BY <1>2
  <2>1. SeedAt * 2 <= SeedAt * near /\ SeedAt * near \in Nat
    BY <1>1, <1>2, Times
  <2>2. 2 * (SeedAt * near) <= 2 * (atOne * x) + SeedAt /\ atOne * x \in Nat
    <3>1. 2 * SeedAt * near = 2 * (SeedAt * near) /\ 2 * atOne * x = 2 * (atOne * x) /\ atOne * x \in Nat
      BY <1>1, <1>2
    <3> QED BY <1>2, <3>1
  <2> QED BY <1>1, <2>1, <2>2
<1> QED BY <1>2, <1>3

\* How large an input with an amount on the stairs can be.
LEMMA AmountWithin ==
    ASSUME atOne \in Bases, NEW x \in Nat, Amount(x) <= Top, Top >= 1
    PROVE  2 * (atOne * x) < SeedAt * (2 * Top + 1)
<1>1. atOne \in Nat /\ SeedAt \in Nat /\ SeedAt > 0 /\ Top \in Nat
  BY Options, StairsAreWhole
<1>2. PICK near \in Nat : /\ Amount(x) = (IF near < 1 THEN 1 ELSE near)
                       /\ 2 * SeedAt * near <= 2 * atOne * x + SeedAt
                       /\ 2 * atOne * x < 2 * SeedAt * near + SeedAt
  BY AmountRounds
<1>3. near <= Top
  BY <1>1, <1>2
<1>4. SeedAt * near <= SeedAt * Top /\ SeedAt * near \in Nat /\ SeedAt * Top \in Nat
  BY <1>1, <1>2, <1>3, Times
<1>5. 2 * (atOne * x) < 2 * (SeedAt * near) + SeedAt /\ atOne * x \in Nat
  <2>1. 2 * SeedAt * near = 2 * (SeedAt * near) /\ 2 * atOne * x = 2 * (atOne * x) /\ atOne * x \in Nat
    BY <1>1, <1>2
  <2> QED BY <1>2, <2>1
<1>6. SeedAt * (2 * Top + 1) = 2 * (SeedAt * Top) + SeedAt
  BY <1>1
<1> QED BY <1>1, <1>4, <1>5, <1>6

\* An input of so many units is no amount less.
LEMMA AmountReaches ==
    ASSUME atOne \in Bases, NEW x \in Nat, NEW p \in Nat, SeedAt * p <= x PROVE p <= Amount(x)
<1>1. atOne \in Nat /\ atOne >= 1 /\ SeedAt \in Nat /\ SeedAt > 0
  BY Options, StairsAreWhole
<1>2. PICK near \in Nat : /\ Amount(x) = (IF near < 1 THEN 1 ELSE near)
                       /\ 2 * SeedAt * near <= 2 * atOne * x + SeedAt
                       /\ 2 * atOne * x < 2 * SeedAt * near + SeedAt
  BY AmountRounds
<1>3. x <= atOne * x /\ atOne * x \in Nat
  <2>1. 1 * x <= atOne * x /\ atOne * x \in Nat
    BY <1>1, Times
  <2> QED BY <2>1
<1>4. p <= near
  <2> SUFFICES ASSUME near + 1 <= p PROVE FALSE
    BY <1>2
  <2>1. SeedAt * (near + 1) <= SeedAt * p /\ SeedAt * p \in Nat
    BY <1>1, <1>2, Times
  <2>2. SeedAt * (near + 1) = SeedAt * near + SeedAt /\ SeedAt * near \in Nat
    BY <1>1, <1>2
  <2>3. 2 * (atOne * x) < 2 * (SeedAt * near) + SeedAt
    <3>1. 2 * SeedAt * near = 2 * (SeedAt * near) /\ 2 * atOne * x = 2 * (atOne * x)
      BY <1>1, <1>2
    <3> QED BY <1>2, <3>1
  <2>4. PICK g, h, k : g = SeedAt * near /\ h = SeedAt * p /\ k = atOne * x
    OBVIOUS
  <2>5. /\ g \in Nat /\ h \in Nat /\ k \in Nat /\ g + SeedAt <= h /\ h <= x /\ x <= k
        /\ 2 * k < 2 * g + SeedAt
    BY <1>3, <2>1, <2>2, <2>3, <2>4
  <2> QED BY <1>1, <2>5
<1> QED BY <1>1, <1>2, <1>4

\* No amount at or below one that measured below the target is an answer.
LEMMA LowerAreNoHits ==
    ASSUME stair \in [1..Top -> Readings], Rises(stair), atOne \in Bases, NEW t \in Nat, t < Infinity,
           NEW S, NEW v, Low(t, S, v)
    PROVE  Amount(v) <= Top /\ \A a \in 1..Top : a <= Amount(v) => ~IsHit(stair[a], t)
<1>1. PICK lo : lo = Amount(v)
  OBVIOUS
<1>2. v \in Nat /\ lo \in Nat \ {0} /\ Top \in Nat /\ Infinity \in Nat
  BY <1>1, AmountIs, StairsAreWhole DEF Low, Infinity
<1>3. \A z \in 1..Top : stair[z] \in Nat
  BY StairsAreWhole
<1>4. Reading(v) < t /\ ~IsHit(Reading(v), t) /\ Reading(v) = (IF lo > Top THEN Infinity ELSE stair[lo])
  BY <1>1 DEF Low, Reading
<1>5. lo <= Top /\ lo \in 1..Top /\ stair[lo] < t /\ ~IsHit(stair[lo], t)
  BY <1>2, <1>4
<1>6. ASSUME NEW a \in 1..Top, a <= lo PROVE ~IsHit(stair[a], t)
  <2>1. lo \in a..Top
    BY <1>2, <1>5, <1>6
  <2>2. stair[a] <= stair[lo]
    BY <2>1, Climbs
  <2> QED BY <2>2, <1>2, <1>3, <1>5, FurtherIsNoHit
<1> QED BY <1>1, <1>5, <1>6

\* Nor is one at or above an amount that measured above it.
LEMMA UpperAreNoHits ==
    ASSUME stair \in [1..Top -> Readings], Rises(stair), atOne \in Bases, NEW t \in Nat, t < Infinity,
           NEW S, NEW v, High(t, S, v)
    PROVE  \A a \in 1..Top : Amount(v) <= a => ~IsHit(stair[a], t)
<1>1. PICK hi : hi = Amount(v)
  OBVIOUS
<1>2. v \in Nat /\ hi \in Nat \ {0} /\ Top \in Nat
  BY <1>1, AmountIs, StairsAreWhole DEF High
<1>3. \A z \in 1..Top : stair[z] \in Nat
  BY StairsAreWhole
<1>4. Reading(v) > t /\ ~IsHit(Reading(v), t) /\ Reading(v) = (IF hi > Top THEN Infinity ELSE stair[hi])
  BY <1>1 DEF High, Reading
<1>5. ASSUME NEW a \in 1..Top, hi <= a PROVE ~IsHit(stair[a], t)
  <2>1. hi \in 1..Top /\ a \in hi..Top /\ hi <= Top
    BY <1>2, <1>5
  <2>2. stair[hi] <= stair[a] /\ stair[hi] > t /\ ~IsHit(stair[hi], t)
    BY <1>2, <1>4, <2>1, Climbs
  <2> QED BY <2>1, <2>2, <1>3, FurtherIsNoHit
<1> QED BY <1>1, <1>5

\* Of a search so far: what it reports was measured, and no answer lies outside its bracket.
LEMMA SearchKnows == SearchInv => BracketHolds /\ AnswerMeasured
<1> SUFFICES ASSUME SearchInv PROVE BracketHolds /\ AnswerMeasured
  OBVIOUS
<1>1. AnswerMeasured
  BY DEF AnswerMeasured, SearchInv
<1>2. ASSUME seek.at = "split", NEW a \in 1..Top, IsHit(stair[a], seek.target)
      PROVE  Amount(seek.lo) < a /\ a < Amount(seek.hi)
  <2>1. PICK t, lo, hi : t = seek.target /\ lo = Amount(seek.lo) /\ hi = Amount(seek.hi)
    OBVIOUS
  <2>2. t \in Nat /\ t < Infinity /\ seek.lo \in Nat /\ seek.hi \in Nat /\ lo \in Nat /\ hi \in Nat
    BY <2>1, AmountIs DEF SearchInv, Searches
  <2>3. Low(t, tried, seek.lo) /\ High(t, tried, seek.hi)
    BY <1>2, <2>1, <2>2 DEF SearchInv, Below, Above, Tried, Low, High
  <2>4. ~(a <= lo) /\ ~(hi <= a)
    BY <1>2, <2>1, <2>2, <2>3, LowerAreNoHits, UpperAreNoHits DEF SearchInv
  <2>5. lo < a /\ a < hi
    BY <2>2, <2>4
  <2> QED BY <2>1, <2>5
<1>3. BracketHolds
  BY <1>2 DEF BracketHolds, SearchInv, Below, Above, Tried
<1> QED BY <1>1, <1>3

\* calibrate.ts refine: whatever the tolerance, the seed, the floor and the bounds on turns, the
\* bracket never excludes an amount that lands within the tolerance, and what is reported of an
\* input is what it measured.
THEOREM NothingIsBracketedAway ==
    ASSUME NEW wanted, wanted \subseteq 1..(Infinity - 1)
    PROVE  StaircaseInit(wanted) /\ [][StaircaseNext]_staircase => [](BracketHolds /\ AnswerMeasured)
<1>1. StaircaseInit(wanted) => SearchInv
  BY SearchStarts
<1>2. SearchInv /\ [StaircaseNext]_staircase => SearchInv'
  <2>1. SearchInv /\ UNCHANGED staircase => SearchInv'
    BY DEF SearchInv, staircase, Rises, Below, Above, Tried, Reading, Amount
  <2> QED BY <2>1, SearchSteps
<1> QED BY <1>1, <1>2, SearchKnows, PTL

----------------------------------------------------------------------------
\* Whether it converges when there is something to find.

\* A bracket as it is split: narrow enough to begin with, and half as wide after every split.
Halves(lo, hi, n) ==
    /\ lo < hi /\ hi <= 4 * lo + 3
    /\ 2 * (atOne * (hi - lo - 1)) * 2 ^ n <= 3 * (SeedAt * (2 * Top + 1)) + 4 * atOne

\* How far the walk is, and that it gives nothing up that is there.
Walks(t, q) ==
    /\ q.floor = SeedAt \div atOne
    /\ q.at \in {"seed", "floor"} => q.turns = 0
    /\ q.at = "seed" => q.x = SeedAt
    /\ q.at = "up" => q.x = SeedAt * 4 ^ q.turns
    /\ q.at \in {"floor", "down"} => q.x * 4 ^ q.turns <= SeedAt
    /\ q.at = "split" => Halves(q.lo, q.hi, q.turns)
    /\ q.at = "done" /\ ~q.converged => NoHits(t)

\* Between neighbouring amounts there is none.
LEMMA NoneBetween ==
    ASSUME stair \in [1..Top -> Readings], Rises(stair), atOne \in Bases, NEW t \in Nat, t < Infinity,
           NEW S, NEW lo, NEW hi, Low(t, S, lo), High(t, S, hi), Amount(hi) <= Amount(lo) + 1
    PROVE  NoHits(t)
<1>1. PICK m, n : m = Amount(lo) /\ n = Amount(hi)
  OBVIOUS
<1>2. m \in Nat /\ n \in Nat /\ n <= m + 1
  BY <1>1, AmountIs DEF Low, High
<1>3. \A a \in 1..Top : a <= m \/ n <= a
  BY <1>2, StairsAreWhole
<1> QED BY <1>1, <1>3, LowerAreNoHits, UpperAreNoHits DEF NoHits

\* A search that gives up has ended without an answer.
LEMMA GivesUp ==
    ASSUME NEW t, NEW q \in Searches, q.floor = SeedAt \div atOne, NoHits(t)
    PROVE  Walks(t, GaveUp(q))
<1>1. PICK e : e = GaveUp(q)
  OBVIOUS
<1>2. e.at = "done" /\ e.floor = q.floor
  BY <1>1 DEF GaveUp, Ended, Searches
<1> QED BY <1>1, <1>2 DEF Walks

\* A bracket is given up when it is so narrow that its ends are neighbours.
LEMMA SplitsOn ==
    ASSUME BoundsSuffice, Powers(2),
           stair \in [1..Top -> Readings], Rises(stair), atOne \in Bases, NEW t \in Nat, t < Infinity,
           NEW S, NEW q \in Searches, q.floor = SeedAt \div atOne,
           Low(t, S, q.lo), High(t, S, q.hi), Halves(q.lo, q.hi, q.turns)
    PROVE  Walks(t, Split(q))
<1>1. PICK e : e = [q EXCEPT !.at = "split"]
  OBVIOUS
<1>2. e.at = "split" /\ e.lo = q.lo /\ e.hi = q.hi /\ e.turns = q.turns /\ e.floor = q.floor
  BY <1>1 DEF Searches
<1>3. Walks(t, e)
  BY <1>2 DEF Walks
<1>4. PICK a, lo, hi, gap, p : /\ a = atOne /\ lo = q.lo /\ hi = q.hi /\ gap = hi - lo - 1
                             /\ p = 2 ^ MaxIterations
  OBVIOUS
<1>5. /\ a \in Nat /\ lo \in Nat /\ hi \in Nat /\ gap \in Nat /\ p \in Nat /\ lo < hi
      /\ SeedAt \in Nat /\ SeedAt > 0 /\ Top \in Nat /\ BracketDen \in Nat /\ a >= 1
  <2>1. /\ a \in Nat /\ a >= 1 /\ SeedAt \in Nat /\ SeedAt > 0 /\ Top \in Nat /\ BracketDen \in Nat
        /\ MaxIterations \in Nat
    BY <1>4, Options, StairsAreWhole
  <2>2. lo \in Nat /\ hi \in Nat /\ lo < hi
    BY <1>4 DEF Searches, Halves
  <2>3. gap \in Nat
    BY <1>4, <2>2
  <2> QED BY <1>4, <2>1, <2>2, <2>3 DEF Powers
<1>6. 4 * a <= SeedAt /\ (3 * Top + 2) * SeedAt <= p * (SeedAt - a) /\ 4 * Top + 5 <= BracketDen
  BY <1>4 DEF BoundsSuffice
<1>7. 2 * (a * lo) < SeedAt * (2 * Top + 1)
  <2>1. Amount(q.lo) <= Top /\ Amount(q.lo) \in Nat \ {0}
    BY LowerAreNoHits, AmountIs DEF Low
  <2>2. Top >= 1
    BY <1>5, <2>1
  <2> QED BY <1>4, <2>1, <2>2, AmountWithin DEF Low
<1>8. PICK k, l : k = a * gap /\ l = a * lo
  OBVIOUS
<1>9. k \in Nat /\ l \in Nat
  BY <1>5, <1>8
<1>10. ASSUME q.turns = MaxIterations \/ (hi - lo) * BracketDen <= hi
       PROVE  a * (hi - lo) <= SeedAt
  <2>0. a * (hi - lo) = k + a
    <3>1. hi - lo = gap + 1
      BY <1>4, <1>5
    <3>2. a * (gap + 1) = a * gap + a
      BY <1>5
    <3> QED BY <1>8, <3>1, <3>2
  <2>1. CASE q.turns = MaxIterations
    <3>1. (2 * k) * p <= 3 * (SeedAt * (2 * Top + 1)) + 4 * a
      BY <1>4, <1>8, <2>1 DEF Halves
    <3>2. SUFFICES ASSUME SeedAt - a + 1 <= k PROVE FALSE
      BY <1>5, <1>6, <1>9, <2>0
    <3>3. SeedAt - a \in Nat
      BY <1>5, <1>6
    <3>4. PICK d : d = SeedAt - a
      OBVIOUS
    <3>5. (d + 1) * p <= k * p /\ (d + 1) * p = d * p + p /\ d * p \in Nat /\ k * p \in Nat
      <4>1. d \in Nat /\ d + 1 \in Nat /\ d + 1 <= k
        BY <3>2, <3>3, <3>4
      <4>2. (d + 1) * p <= k * p
        BY <1>5, <1>9, <4>1, Times
      <4> QED BY <1>5, <1>9, <4>1, <4>2
    <3>6. (3 * Top + 2) * SeedAt <= d * p
      <4>1. p * d = d * p
        BY <1>5, <3>3, <3>4
      <4> QED BY <1>6, <3>4, <4>1
    <3>7. PICK g, h, j : g = SeedAt * Top /\ h = d * p /\ j = k * p
      OBVIOUS
    <3>8. /\ g \in Nat /\ (3 * Top + 2) * SeedAt = 3 * g + 2 * SeedAt
          /\ SeedAt * (2 * Top + 1) = 2 * g + SeedAt
      BY <1>5, <3>7
    <3>9. (2 * k) * p = 2 * j
      BY <1>5, <1>9, <3>7
    <3>10. h \in Nat /\ j \in Nat /\ h + p <= j
      BY <3>5, <3>7
    <3>11. 2 * j <= 6 * g + 3 * SeedAt + 4 * a
      BY <1>5, <3>1, <3>8, <3>9
    <3>12. 3 * g + 2 * SeedAt <= h
      BY <3>6, <3>7, <3>8
    <3>13. p <= 0
      BY <1>5, <1>6, <3>8, <3>10, <3>11, <3>12
    <3>14. p = 0 /\ h = 0
      <4>1. p = 0
        BY <1>5, <3>13
      <4>2. d * 0 = 0
        BY <3>3, <3>4
      <4> QED BY <3>7, <4>1, <4>2
    <3> QED BY <1>5, <3>8, <3>12, <3>14
  <2>2. CASE (hi - lo) * BracketDen <= hi
    <3>1. SUFFICES ASSUME SeedAt + 1 <= k + a PROVE FALSE
      BY <1>5, <1>9, <2>0
    <3>2. (4 * Top + 5) * (hi - lo) <= hi
      <4>1. hi - lo \in Nat /\ 4 * Top + 5 \in Nat
        BY <1>5
      <4>2. (4 * Top + 5) * (hi - lo) <= BracketDen * (hi - lo)
        BY <1>5, <1>6, <4>1, Times
      <4>3. BracketDen * (hi - lo) = (hi - lo) * BracketDen
        BY <1>5, <4>1
      <4>4. (4 * Top + 5) * (hi - lo) \in Nat /\ BracketDen * (hi - lo) \in Nat
        BY <1>5, <4>1
      <4> QED BY <1>5, <2>2, <4>2, <4>3, <4>4
    <3>3. hi <= 4 * lo + 3
      BY <1>4 DEF Halves
    <3>4. a * ((4 * Top + 5) * (hi - lo)) <= a * (4 * lo + 3)
      <4>1. (4 * Top + 5) * (hi - lo) \in Nat /\ 4 * lo + 3 \in Nat
        BY <1>5
      <4>2. (4 * Top + 5) * (hi - lo) <= 4 * lo + 3
        BY <1>5, <3>2, <3>3, <4>1
      <4> QED BY <1>5, <4>1, <4>2, Times
    <3>5. a * (4 * lo + 3) = 4 * l + 3 * a
      BY <1>5, <1>8
    <3>6. a * ((4 * Top + 5) * (hi - lo)) = (4 * Top + 5) * (k + a)
      <4>1. hi - lo \in Nat
        BY <1>5
      <4>2. a * ((4 * Top + 5) * (hi - lo)) = (4 * Top + 5) * (a * (hi - lo))
        BY <1>5, <4>1
      <4> QED BY <2>0, <4>2
    <3>7. (4 * Top + 5) * (SeedAt + 1) <= (4 * Top + 5) * (k + a)
      <4>1. 4 * Top + 5 \in Nat /\ k + a \in Nat /\ SeedAt + 1 \in Nat
        BY <1>5, <1>9
      <4> QED BY <3>1, <4>1, Times
    <3>8. PICK g : g = SeedAt * Top
      OBVIOUS
    <3>9. /\ g \in Nat /\ (4 * Top + 5) * (SeedAt + 1) = 4 * g + 5 * SeedAt + 4 * Top + 5
          /\ SeedAt * (2 * Top + 1) = 2 * g + SeedAt
      BY <1>5, <3>8
    <3>10. PICK j : j = (4 * Top + 5) * (k + a)
      OBVIOUS
    <3>11. j <= 4 * l + 3 * a /\ j \in Nat
      <4>1. j \in Nat
        BY <1>5, <1>9, <3>10
      <4> QED BY <3>4, <3>5, <3>6, <3>10, <4>1
    <3>12. 4 * g + 5 * SeedAt + 4 * Top + 5 <= j
      BY <3>7, <3>9, <3>10
    <3>13. 2 * l < 2 * g + SeedAt
      BY <1>7, <1>8, <3>9
    <3> QED BY <1>5, <1>6, <1>9, <3>9, <3>11, <3>12, <3>13
  <2> QED BY <1>10, <2>1, <2>2
<1>11. q.turns = MaxIterations \/ (q.hi - q.lo) * BracketDen <= q.hi => NoHits(t)
  <2> SUFFICES ASSUME q.turns = MaxIterations \/ (hi - lo) * BracketDen <= hi PROVE NoHits(t)
    BY <1>4
  <2>1. a * (hi - lo) <= SeedAt
    BY <1>10
  <2>2. Amount(q.hi) <= Amount(q.lo) + 1
    <3>1. q.lo \in Nat /\ q.hi \in Nat /\ q.lo <= q.hi /\ atOne * (q.hi - q.lo) <= SeedAt
      BY <1>4, <1>5, <2>1
    <3> QED BY <3>1, AmountsClose
  <2> QED BY <2>2, NoneBetween
<1> QED BY <1>1, <1>3, <1>11, GivesUp DEF Split

\* One amount that measured above the target leaves no smaller one.
LEMMA NoneBelowOne ==
    ASSUME stair \in [1..Top -> Readings], Rises(stair), atOne \in Bases, NEW t \in Nat, t < Infinity,
           NEW S, NEW x, High(t, S, x), atOne * x <= SeedAt
    PROVE  NoHits(t)
<1>1. Amount(x) = 1
  BY AmountOne DEF High
<1>2. \A a \in 1..Top : 1 <= a
  BY StairsAreWhole
<1> QED BY <1>1, <1>2, UpperAreNoHits DEF NoHits

\* The walk up gives up beyond the last amount, and the walk down at the first.
LEMMA ExpandsOn ==
    ASSUME BoundsSuffice, Powers(4),
           stair \in [1..Top -> Readings], Rises(stair), atOne \in Bases, NEW t \in Nat, t < Infinity,
           NEW S, NEW q \in Searches, q.floor = SeedAt \div atOne, NEW at \in {"up", "down"},
           at = "up" => Low(t, S, q.x) /\ q.x = SeedAt * 4 ^ q.turns,
           at = "down" => High(t, S, q.x) /\ q.x * 4 ^ q.turns <= SeedAt
    PROVE  Walks(t, Expand(q, at))
<1>1. PICK e : e = [q EXCEPT !.at = at]
  OBVIOUS
<1>2. e.at = at /\ e.x = q.x /\ e.turns = q.turns /\ e.floor = q.floor
  BY <1>1 DEF Searches
<1>3. Walks(t, e)
  BY <1>2 DEF Walks
<1>4. /\ SeedAt \in Nat /\ SeedAt > 0 /\ Top \in Nat /\ atOne \in Nat /\ q.x \in Nat
      /\ MaxExpansions \in Nat /\ 4 ^ MaxExpansions \in Nat
      /\ Top <= 4 ^ MaxExpansions /\ atOne <= 4 ^ MaxExpansions
  BY Options, StairsAreWhole DEF Searches, Powers, BoundsSuffice
<1>5. CASE q.turns = MaxExpansions /\ at = "up"
  <2>1. PICK p \in Nat : p = 4 ^ MaxExpansions
    BY <1>4
  <2>2. SeedAt * p <= q.x
    <3>1. SeedAt * p = q.x
      BY <1>5, <2>1
    <3> QED BY <1>4, <3>1
  <2>3. p <= Amount(q.x) /\ Amount(q.x) \in Nat
    BY <1>4, <2>2, AmountReaches, AmountIs
  <2>4. \A a \in 1..Top : a <= Amount(q.x)
    BY <1>4, <2>1, <2>3
  <2>5. NoHits(t)
    BY <1>5, <2>4, LowerAreNoHits DEF NoHits
  <2> QED BY <1>5, <2>5, GivesUp DEF Expand
<1>6. CASE q.turns = MaxExpansions /\ at = "down"
  <2>1. PICK p \in Nat : p = 4 ^ MaxExpansions
    BY <1>4
  <2>2. atOne * q.x <= SeedAt
    <3>1. atOne * q.x <= p * q.x /\ p * q.x = q.x * p /\ q.x * p <= SeedAt
      BY <1>4, <1>6, <2>1, Times
    <3>2. atOne * q.x \in Nat /\ q.x * p \in Nat
      BY <1>4
    <3> QED BY <1>4, <3>1, <3>2
  <2>3. NoHits(t)
    BY <1>6, <2>2, NoneBelowOne
  <2> QED BY <1>6, <2>3, GivesUp DEF Expand
<1>7. CASE q.turns # MaxExpansions
  BY <1>1, <1>3, <1>7 DEF Expand
<1> QED BY <1>5, <1>6, <1>7

\* An input up to the floor is one amount.
LEMMA FloorIsOne ==
    ASSUME atOne \in Bases, NEW x \in Nat, x <= SeedAt \div atOne PROVE atOne * x <= SeedAt
<1>1. atOne \in Nat \ {0} /\ SeedAt \in Nat
  BY Options, StairsAreWhole
<1>2. PICK f : f = SeedAt \div atOne
  OBVIOUS
<1>3. f \in Nat /\ atOne * f <= SeedAt
  BY <1>1, <1>2, WholePart
<1>4. atOne * x <= atOne * f /\ atOne * x \in Nat /\ atOne * f \in Nat
  BY <1>1, <1>2, <1>3, Times
<1> QED BY <1>1, <1>3, <1>4

\* The walk down begins at the seed, unless that is one amount already.
LEMMA DownOn ==
    ASSUME Powers(4),
           stair \in [1..Top -> Readings], Rises(stair), atOne \in Bases, NEW t \in Nat, t < Infinity,
           NEW S, NEW q \in Searches, q.floor = SeedAt \div atOne, High(t, S, q.x), q.x = SeedAt
    PROVE  Walks(t, Down(q))
<1>1. PICK e : e = [q EXCEPT !.at = "floor", !.turns = 0]
  OBVIOUS
<1>2. e.at = "floor" /\ e.x = q.x /\ e.turns = 0 /\ e.floor = q.floor
  BY <1>1 DEF Searches
<1>3. q.x * 4 ^ 0 <= SeedAt
  BY Options DEF Powers
<1>4. Walks(t, e)
  BY <1>2, <1>3 DEF Walks
<1>5. q.x <= q.floor => NoHits(t)
  BY FloorIsOne, NoneBelowOne DEF High
<1> QED BY <1>1, <1>4, <1>5, GivesUp DEF Down

\* A new bracket is narrow enough.
LEMMA BracketsOn ==
    ASSUME BoundsSuffice, Powers(2),
           stair \in [1..Top -> Readings], Rises(stair), atOne \in Bases, NEW t \in Nat, t < Infinity,
           NEW S, NEW q \in Searches, q.floor = SeedAt \div atOne, NEW x,
           \/ Low(t, S, q.x) /\ High(t, S, x) /\ q.x < x /\ x <= 4 * q.x + 3
           \/ High(t, S, q.x) /\ Low(t, S, x) /\ x < q.x /\ q.x <= 4 * x + 3
    PROVE  Walks(t, Split(Bracketed(q, x)))
<1>1. PICK e : e = Bracketed(q, x)
  OBVIOUS
<1>2. x \in Nat /\ q.x \in Nat
  BY DEF Low, High, Searches
<1>3. e \in Searches
  BY <1>1, <1>2 DEF Bracketed, Searches
<1>4. /\ e.turns = 0 /\ e.floor = q.floor
      /\ e.lo = IF x < q.x THEN x ELSE q.x
      /\ e.hi = IF x < q.x THEN q.x ELSE x
  BY <1>1 DEF Bracketed, Searches
<1>5. Low(t, S, e.lo) /\ High(t, S, e.hi) /\ e.lo < e.hi /\ e.hi <= 4 * e.lo + 3
  BY <1>2, <1>4
<1>6. PICK a, lo, hi : a = atOne /\ lo = e.lo /\ hi = e.hi
  OBVIOUS
<1>7. a \in Nat /\ a >= 1 /\ lo \in Nat /\ hi \in Nat /\ SeedAt \in Nat /\ Top \in Nat /\ lo < hi /\ hi <= 4 * lo + 3
  BY <1>3, <1>5, <1>6, Options, StairsAreWhole DEF Searches
<1>8. 2 * (a * lo) < SeedAt * (2 * Top + 1)
  <2>1. Amount(e.lo) <= Top /\ Amount(e.lo) \in Nat \ {0}
    BY <1>5, LowerAreNoHits, AmountIs DEF Low
  <2>2. Top >= 1
    BY <1>7, <2>1
  <2> QED BY <1>6, <1>7, <2>1, <2>2, AmountWithin
<1>9. a * (hi - lo - 1) <= 3 * (a * lo) + 2 * a /\ a * (hi - lo - 1) \in Nat
  <2>1. hi - lo - 1 \in Nat /\ 3 * lo + 2 \in Nat /\ hi - lo - 1 <= 3 * lo + 2
    BY <1>7
  <2>2. a * (hi - lo - 1) <= a * (3 * lo + 2) /\ a * (hi - lo - 1) \in Nat
    BY <1>7, <2>1, Times
  <2>3. a * (3 * lo + 2) = 3 * (a * lo) + 2 * a
    BY <1>7
  <2> QED BY <2>2, <2>3
<1>10. 2 * (a * (hi - lo - 1)) * 2 ^ 0 <= 3 * (SeedAt * (2 * Top + 1)) + 4 * a
  <2>1. PICK k, l, g : k = a * (hi - lo - 1) /\ l = a * lo /\ g = SeedAt * (2 * Top + 1)
    OBVIOUS
  <2>2. k \in Nat /\ l \in Nat /\ g \in Nat
    BY <1>7, <1>9, <2>1
  <2>3. 2 * k <= 3 * g + 4 * a
    BY <1>7, <1>8, <1>9, <2>1, <2>2
  <2>4. (2 * k) * 2 ^ 0 = 2 * k
    BY <2>2 DEF Powers
  <2> QED BY <2>1, <2>3, <2>4
<1>11. Halves(e.lo, e.hi, e.turns)
  BY <1>4, <1>5, <1>6, <1>10 DEF Halves
<1> QED BY <1>1, <1>3, <1>4, <1>5, <1>11, SplitsOn

\* A split halves the bracket.
LEMMA RefinesOn ==
    ASSUME BoundsSuffice, Powers(2),
           stair \in [1..Top -> Readings], Rises(stair), atOne \in Bases, NEW t \in Nat, t < Infinity,
           NEW S, NEW q \in Searches, q.target = t, q.floor = SeedAt \div atOne,
           Low(t, S, q.lo), High(t, S, q.hi), Halves(q.lo, q.hi, q.turns),
           NEW x, x = (q.lo + q.hi) \div 2, NEW y \in Nat, y = Reading(x),
           Low(t, S, x) \/ High(t, S, x)
    PROVE  Walks(t, Refined(q, x, y))
<1>1. PICK e : e = [q EXCEPT !.x = IF Nearer(q, y) THEN x ELSE q.x,
                             !.y = IF Nearer(q, y) THEN y ELSE q.y,
                             !.best = IF Nearer(q, y) THEN Distance(y, q.target) ELSE q.best,
                             !.lo = IF y < q.target THEN x ELSE q.lo,
                             !.hi = IF y < q.target THEN q.hi ELSE x,
                             !.turns = @ + 1]
  OBVIOUS
<1>2. /\ q.x \in Nat /\ q.y \in Nat /\ q.best \in Nat /\ q.lo \in Nat /\ q.hi \in Nat /\ q.turns \in Nat
      /\ q.turns + 1 \in Nat /\ Distance(y, q.target) \in Nat /\ x \in Nat
  BY DEF Searches, Distance, Low, High
<1>3. e \in Searches
  BY <1>1, <1>2 DEF Searches
<1>4. /\ e.floor = q.floor /\ e.turns = q.turns + 1
      /\ e.lo = IF y < t THEN x ELSE q.lo
      /\ e.hi = IF y < t THEN q.hi ELSE x
  BY <1>1 DEF Searches
<1>5. (y < t => Low(t, S, x)) /\ (~(y < t) => High(t, S, x))
  BY DEF Low, High
<1>6. Low(t, S, e.lo) /\ High(t, S, e.hi)
  BY <1>4, <1>5
<1>7. e.lo # e.hi
  <2> SUFFICES ASSUME e.lo = e.hi PROVE FALSE
    OBVIOUS
  <2>1. PICK v : v = e.lo
    OBVIOUS
  <2>2. Low(t, S, v) /\ High(t, S, v)
    BY <1>6, <2>1
  <2>3. Reading(v) \in Nat /\ Reading(v) < t /\ Reading(v) > t
    BY <2>2, ReadingIs DEF Low, High
  <2> QED BY <2>3
<1>8. PICK a, lo, hi, l, h : a = atOne /\ lo = q.lo /\ hi = q.hi /\ l = e.lo /\ h = e.hi
  OBVIOUS
<1>9. /\ a \in Nat /\ lo \in Nat /\ hi \in Nat /\ x \in Nat /\ l \in Nat /\ h \in Nat
      /\ lo < hi /\ hi <= 4 * lo + 3 /\ x = (lo + hi) \div 2 /\ l # h
      /\ (l = x /\ h = hi) \/ (l = lo /\ h = x)
  <2>1. a \in Nat /\ lo \in Nat /\ hi \in Nat /\ x \in Nat
    BY <1>2, <1>8, StairsAreWhole
  <2>2. lo < hi /\ hi <= 4 * lo + 3
    BY <1>8 DEF Halves
  <2>3. (l = x /\ h = hi) \/ (l = lo /\ h = x)
    BY <1>4, <1>8
  <2>4. l \in Nat /\ h \in Nat
    BY <2>1, <2>3
  <2> QED BY <1>7, <1>8, <2>1, <2>2, <2>3, <2>4
<1>10. l < h /\ h <= 4 * l + 3 /\ 2 * (h - l - 1) <= hi - lo - 1 /\ h - l - 1 \in Nat /\ hi - lo - 1 \in Nat
  <2>1. 2 * x <= lo + hi /\ lo + hi < 2 * x + 2
    BY <1>9, WholePart
  <2> QED BY <1>9, <2>1
<1>11. 2 * (a * (h - l - 1)) * 2 ^ (q.turns + 1) <= 2 * (a * (hi - lo - 1)) * 2 ^ q.turns
  <2>1. PICK p, k, j, m : /\ p = 2 ^ q.turns /\ k = a * (hi - lo - 1) /\ j = a * (h - l - 1)
                          /\ m = 2 ^ (q.turns + 1)
    OBVIOUS
  <2>2. p \in Nat /\ m = 2 * p /\ k \in Nat /\ j \in Nat
    <3>1. p \in Nat /\ m = 2 * p
      BY <1>2, <2>1 DEF Powers
    <3>2. PICK u, v : u = hi - lo - 1 /\ v = h - l - 1
      OBVIOUS
    <3>3. a * u \in Nat /\ a * v \in Nat
      BY <1>9, <1>10, <3>2
    <3> QED BY <2>1, <3>1, <3>2, <3>3
  <2>3. 2 * j <= k
    <3>1. a * (2 * (h - l - 1)) <= a * (hi - lo - 1)
      <4>1. 2 * (h - l - 1) \in Nat
        BY <1>10
      <4> QED BY <1>9, <1>10, <4>1, Times
    <3>2. a * (2 * (h - l - 1)) = 2 * (a * (h - l - 1))
      BY <1>9, <1>10
    <3> QED BY <2>1, <3>1, <3>2
  <2>4. (2 * j) * p <= k * p /\ (2 * j) * p \in Nat /\ k * p \in Nat
    BY <2>2, <2>3, Times
  <2>5. (2 * j) * m = 2 * ((2 * j) * p) /\ (2 * k) * p = 2 * (k * p)
    BY <2>2
  <2>6. (2 * j) * m <= (2 * k) * p
    BY <2>4, <2>5
  <2> QED BY <2>1, <2>6
<1>12. Halves(e.lo, e.hi, e.turns)
  <2>1. PICK g, r, b : /\ g = 2 * (a * (h - l - 1)) * 2 ^ (q.turns + 1)
                       /\ r = 2 * (a * (hi - lo - 1)) * 2 ^ q.turns
                       /\ b = 3 * (SeedAt * (2 * Top + 1)) + 4 * a
    OBVIOUS
  <2>2. g \in Nat /\ r \in Nat /\ b \in Nat /\ g <= r
    <3>1. 2 ^ q.turns \in Nat /\ 2 ^ (q.turns + 1) \in Nat
      BY <1>2 DEF Powers
    <3>2. PICK u, v : u = a * (h - l - 1) /\ v = a * (hi - lo - 1) /\ u \in Nat /\ v \in Nat
      BY <1>9, <1>10
    <3>3. SeedAt * (2 * Top + 1) \in Nat
      BY Options, StairsAreWhole
    <3>4. g \in Nat /\ r \in Nat
      <4>1. PICK c \in Nat, d \in Nat : c = 2 ^ q.turns /\ d = 2 ^ (q.turns + 1)
        BY <3>1
      <4>2. 2 * u \in Nat /\ 2 * v \in Nat
        BY <3>2
      <4>3. (2 * u) * d \in Nat /\ (2 * v) * c \in Nat
        BY <4>2
      <4> QED BY <2>1, <3>2, <4>1, <4>3
    <3> QED BY <1>9, <1>11, <2>1, <3>3, <3>4
  <2>3. r <= b
    BY <1>8, <2>1 DEF Halves
  <2>4. g <= b
    BY <2>2, <2>3
  <2> QED BY <1>4, <1>8, <1>10, <2>1, <2>4 DEF Halves
<1> QED BY <1>1, <1>3, <1>4, <1>6, <1>12, SplitsOn DEF Refined

\* One evaluation, wherever the search is.
LEMMA JudgesOn ==
    ASSUME BoundsSuffice, Powers(2), Powers(4),
           stair \in [1..Top -> Readings], Rises(stair), atOne \in Bases,
           NEW t \in Nat, t < Infinity, NEW S, NEW q \in Searches, q.target = t, q.at # "done",
           NEW x \in Nat, NEW y \in Nat, y = Reading(x), <<x, y>> \in S, x = ProbeAt(q),
           q.at = "up" => Low(t, S, q.x),
           q.at \in {"floor", "down"} => High(t, S, q.x),
           q.at = "split" => Low(t, S, q.lo) /\ High(t, S, q.hi),
           Walks(t, q)
    PROVE  Walks(t, Judged(q, x, y))
<1>0. /\ q.x \in Nat /\ q.turns \in Nat /\ q.at \in Stages \ {"done"} /\ (q.at = "seed" => x = q.x)
      /\ (q.at = "up" => x = q.x * 4) /\ (q.at = "down" => x = q.x \div 4)
      /\ (q.at = "floor" => x = q.floor) /\ (q.at = "split" => x = (q.lo + q.hi) \div 2)
      /\ q.floor = SeedAt \div atOne
  BY DEF ProbeAt, Searches, Stages, Walks
<1>1. CASE q.at # "floor" /\ IsHit(y, t)
  <2>1. PICK e : e = Ended(q, x, y, TRUE)
    OBVIOUS
  <2>2. e.at = "done" /\ e.converged = TRUE /\ e.floor = q.floor
    BY <2>1 DEF Ended, Searches
  <2>3. Walks(t, e)
    BY <1>0, <2>2 DEF Walks
  <2> QED BY <1>1, <2>1, <2>3 DEF Judged
<1>2. ~IsHit(y, t) => Low(t, S, x) \/ High(t, S, x)
  <2>1. ~IsHit(y, t) => y < t \/ y > t
    BY Sides
  <2> QED BY <2>1 DEF Low, High
<1>3. (Low(t, S, x) => y < t) /\ (High(t, S, x) => y > t /\ ~(y < t))
  BY DEF Low, High
<1>4. CASE q.at = "seed" /\ ~IsHit(y, t)
  <2>1. PICK e : e = [q EXCEPT !.y = y]
    OBVIOUS
  <2>2. e \in Searches /\ e.x = SeedAt /\ x = SeedAt /\ e.turns = 0 /\ e.floor = q.floor
    BY <1>0, <1>4, <2>1 DEF Searches, Walks
  <2>3. Judged(q, x, y) = IF y < t THEN Expand(e, "up") ELSE Down(e)
    BY <1>4, <2>1 DEF Judged
  <2>4. y < t => Walks(t, Expand(e, "up"))
    <3>1. e.x = SeedAt * 4 ^ e.turns
      BY <2>2, Options DEF Powers
    <3> QED BY <1>0, <1>2, <1>3, <1>4, <2>2, <3>1, ExpandsOn
  <2>5. ~(y < t) => Walks(t, Down(e))
    BY <1>0, <1>2, <1>3, <1>4, <2>2, DownOn
  <2> QED BY <2>3, <2>4, <2>5
<1>5. CASE q.at \in {"up", "down"} /\ ~IsHit(y, t)
  <2>1. PICK e : e = [q EXCEPT !.x = x, !.y = y, !.turns = @ + 1]
    OBVIOUS
  <2>2. e \in Searches /\ e.x = x /\ e.floor = q.floor /\ e.turns = q.turns + 1
    <3>1. q.turns + 1 \in Nat
      BY <1>0
    <3> QED BY <2>1, <3>1 DEF Searches
  <2>3. PICK p \in Nat : p = 4 ^ q.turns /\ 4 ^ (q.turns + 1) = 4 * p
    BY <1>0 DEF Powers
  <2>4. CASE q.at = "up"
    <3>1. Judged(q, x, y) = IF y > t THEN Split(Bracketed(q, x)) ELSE Expand(e, "up")
      BY <1>5, <2>1, <2>4 DEF Judged
    <3>2. y > t => Walks(t, Split(Bracketed(q, x)))
      <4> SUFFICES ASSUME y > t PROVE Walks(t, Split(Bracketed(q, x)))
        OBVIOUS
      <4>1. High(t, S, x)
        BY <1>2, <1>3, <1>5
      <4>2. q.x # x
        BY <2>4, <4>1 DEF Low, High
      <4>3. q.x < x /\ x <= 4 * q.x + 3
        BY <1>0, <2>4, <4>2
      <4> QED BY <1>0, <2>4, <4>1, <4>3, BracketsOn
    <3>3. ~(y > t) => Walks(t, Expand(e, "up"))
      <4>1. x = SeedAt * 4 ^ (q.turns + 1)
        <5>1. q.x = SeedAt * p
          BY <2>3, <2>4 DEF Walks
        <5>2. (SeedAt * p) * 4 = SeedAt * (4 * p)
          BY Options
        <5> QED BY <1>0, <2>3, <2>4, <5>1, <5>2
      <4> QED BY <1>0, <1>2, <1>3, <1>5, <2>2, <4>1, ExpandsOn
    <3> QED BY <3>1, <3>2, <3>3
  <2>5. CASE q.at = "down"
    <3>0. 4 * x <= q.x /\ q.x < 4 * x + 4
      BY <1>0, <2>5, WholePart
    <3>1. Judged(q, x, y) = IF y < t THEN Split(Bracketed(q, x)) ELSE Expand(e, "down")
      BY <1>5, <2>1, <2>5 DEF Judged
    <3>2. y < t => Walks(t, Split(Bracketed(q, x)))
      <4> SUFFICES ASSUME y < t PROVE Walks(t, Split(Bracketed(q, x)))
        OBVIOUS
      <4>1. Low(t, S, x)
        BY <1>2, <1>3, <1>5
      <4>2. q.x # x
        BY <2>5, <4>1 DEF Low, High
      <4>3. x < q.x /\ q.x <= 4 * x + 3
        BY <1>0, <3>0, <4>2
      <4> QED BY <1>0, <2>5, <4>1, <4>3, BracketsOn
    <3>3. ~(y < t) => Walks(t, Expand(e, "down"))
      <4>1. x * 4 ^ (q.turns + 1) <= SeedAt
        <5>1. q.x * p <= SeedAt
          BY <2>3, <2>5 DEF Walks
        <5>2. (4 * x) * p <= q.x * p /\ (4 * x) * p \in Nat /\ q.x * p \in Nat
          <6>1. 4 * x \in Nat
            OBVIOUS
          <6> QED BY <1>0, <3>0, <6>1, Times
        <5>3. (4 * x) * p = x * (4 * p)
          OBVIOUS
        <5>4. (4 * x) * p <= SeedAt
          BY <5>1, <5>2, Options
        <5> QED BY <2>3, <5>3, <5>4
      <4> QED BY <1>0, <1>2, <1>3, <1>5, <2>2, <4>1, ExpandsOn
    <3> QED BY <3>1, <3>2, <3>3
  <2> QED BY <1>5, <2>4, <2>5
<1>6. CASE q.at = "split" /\ ~IsHit(y, t)
  <2>1. Judged(q, x, y) = Refined(q, x, y)
    BY <1>6 DEF Judged
  <2>2. Halves(q.lo, q.hi, q.turns)
    BY <1>6 DEF Walks
  <2> QED BY <1>0, <1>2, <1>6, <2>1, <2>2, RefinesOn
<1>7. CASE q.at = "floor"
  <2>1. Judged(q, x, y) = IF FloorEnds(q, y) THEN Ended(q, x, y, FALSE) ELSE Expand(q, "down")
    BY <1>7 DEF Judged
  <2>2. FloorEnds(q, y) => NoHits(t)
    <3> SUFFICES ASSUME FloorEnds(q, y) PROVE NoHits(t)
      OBVIOUS
    <3>1. High(t, S, x)
      BY DEF FloorEnds, High
    <3>2. atOne * x <= SeedAt
      <4>1. x <= SeedAt \div atOne
        BY <1>0, <1>7
      <4> QED BY <4>1, FloorIsOne
    <3> QED BY <3>1, <3>2, NoneBelowOne
  <2>3. NoHits(t) => Walks(t, Ended(q, x, y, FALSE))
    <3>1. PICK e : e = Ended(q, x, y, FALSE)
      OBVIOUS
    <3>2. e.at = "done" /\ e.floor = q.floor
      BY <3>1 DEF Ended, Searches
    <3> QED BY <1>0, <3>1, <3>2 DEF Walks
  <2>4. Walks(t, Expand(q, "down"))
    <3>1. q.x * 4 ^ q.turns <= SeedAt
      BY <1>7 DEF Walks
    <3> QED BY <1>0, <1>7, <3>1, ExpandsOn
  <2> QED BY <2>1, <2>2, <2>3, <2>4
<1> QED BY <1>0, <1>1, <1>4, <1>5, <1>6, <1>7 DEF Stages

\* What the search has learned, and where it is.
FindsInv == SearchInv /\ Walks(seek.target, seek)

\* Every step of the search keeps what it has learned.
LEMMA FindsSteps ==
    ASSUME BoundsSuffice, Powers(2), Powers(4), FindsInv, StaircaseNext PROVE FindsInv'
<1>0. SearchInv /\ SearchInv'
  BY SearchSteps DEF FindsInv
<1>1. PICK t, S, x, y, q :
         /\ t = seek.target /\ S = tried' /\ x = ProbeAt(seek) /\ y = Reading(x)
         /\ q = [seek EXCEPT !.evaluations = @ + 1]
  OBVIOUS
<1>2. /\ seek' = Judged(q, x, y) /\ S = tried \cup {<<x, y>>} /\ seek.at # "done"
      /\ stair' = stair /\ atOne' = atOne
  BY <1>1 DEF StaircaseNext, Learned
<1>3. x \in Nat /\ y \in Nat /\ t \in Nat /\ t < Infinity
  <2>1. x \in Nat /\ t \in Nat
    BY <1>0, <1>1, <1>2, ProbeIs DEF SearchInv, Searches
  <2> QED BY <1>0, <1>1, <2>1, ReadingIs DEF SearchInv
<1>4. /\ q \in Searches /\ q.target = t /\ q.at = seek.at /\ q.x = seek.x /\ q.y = seek.y
      /\ q.lo = seek.lo /\ q.hi = seek.hi /\ q.floor = seek.floor /\ q.turns = seek.turns
      /\ q.converged = seek.converged
  <2>1. seek.evaluations + 1 \in Nat
    BY <1>0 DEF SearchInv, Searches
  <2> QED BY <1>0, <1>1, <2>1 DEF SearchInv, Searches
<1>5. x = ProbeAt(q)
  BY <1>1, <1>4 DEF ProbeAt
<1>6. /\ \A v \in Nat : Below(v) => Low(t, S, v)
      /\ \A v \in Nat : Above(v) => High(t, S, v)
  BY <1>1, <1>2 DEF Below, Above, Tried, Low, High
<1>7. seek.x \in Nat /\ seek.lo \in Nat /\ seek.hi \in Nat
  BY <1>0 DEF SearchInv, Searches
<1>8. /\ q.at = "up" => Low(t, S, q.x)
      /\ q.at \in {"floor", "down"} => High(t, S, q.x)
      /\ q.at = "split" => Low(t, S, q.lo) /\ High(t, S, q.hi)
  BY <1>0, <1>4, <1>6, <1>7 DEF SearchInv
<1>9. Walks(t, q)
  BY <1>1, <1>4 DEF FindsInv, Walks
<1>10. Walks(t, Judged(q, x, y))
  <2>1. <<x, y>> \in S
    BY <1>2
  <2>2. stair \in [1..Top -> Readings] /\ Rises(stair) /\ atOne \in Bases
    BY <1>0 DEF SearchInv
  <2> QED BY <1>1, <1>2, <1>3, <1>4, <1>5, <1>8, <1>9, <2>1, <2>2, JudgesOn
<1>11. seek'.target = t
  <2>1. Good(t, S, Judged(q, x, y))
    <3>1. <<x, y>> \in S
      BY <1>2
    <3>2. q.at # "seed" => q.y = Reading(q.x)
      BY <1>0, <1>4 DEF SearchInv
    <3> QED BY <1>1, <1>2, <1>3, <1>4, <1>5, <1>8, <3>1, <3>2, JudgesWell
  <2> QED BY <1>2, <2>1 DEF Good
<1>12. PICK z : z = seek' /\ Walks(t, z)
  BY <1>2, <1>10
<1>13. Walks(t, z)'
  BY <1>2, <1>12 DEF Walks, Halves, NoHits
<1> QED BY <1>0, <1>11, <1>12, <1>13 DEF FindsInv

\* A search that is done has converged exactly when there was something to find.
LEMMA FindsKnows == FindsInv => NoHitMissed
<1> SUFFICES ASSUME FindsInv, seek.at = "done"
             PROVE  seek.converged <=> \E a \in 1..Top : IsHit(stair[a], seek.target)
  BY DEF NoHitMissed
<1>1. ~seek.converged => \A a \in 1..Top : ~IsHit(stair[a], seek.target)
  BY DEF FindsInv, Walks, NoHits
<1>2. ASSUME seek.converged PROVE \E a \in 1..Top : IsHit(stair[a], seek.target)
  <2>1. IsHit(Reading(seek.x), seek.target) /\ seek.x \in Nat /\ atOne \in Bases
    BY <1>2 DEF FindsInv, SearchInv, Searches
  <2>2. PICK a : a = Amount(seek.x) /\ a \in Nat \ {0}
    BY <2>1, AmountIs
  <2>3. Reading(seek.x) = IF a > Top THEN Infinity ELSE stair[a]
    BY <2>2 DEF Reading
  <2>4. ~(a > Top)
    BY <2>1, <2>3 DEF IsHit, Infinity
  <2>5. a \in 1..Top
    BY <2>2, <2>4, StairsAreWhole
  <2> QED BY <2>1, <2>3, <2>4, <2>5
<1> QED BY <1>1, <1>2

\* calibrate.ts bisectMonotone and refine: over every staircase that rises and every seed, a search
\* whose turns, splits and smallest bracket suffice for the amounts there are converges exactly when
\* some whole amount lands within the tolerance, and never brackets it away.
THEOREM SearchAlwaysFinds ==
    ASSUME NEW wanted, wanted \subseteq 1..(Infinity - 1), BoundsSuffice, Powers(2), Powers(4)
    PROVE  StaircaseInit(wanted) /\ [][StaircaseNext]_staircase => []SearchFinds
<1>1. StaircaseInit(wanted) => FindsInv
  <2> SUFFICES ASSUME StaircaseInit(wanted) PROVE FindsInv
    OBVIOUS
  <2>1. PICK t \in wanted : seek = Started(t, SeedAt \div atOne)
    BY DEF StaircaseInit
  <2>2. Walks(seek.target, seek)
    BY <2>1 DEF Started, Walks
  <2> QED BY <2>2, SearchStarts DEF FindsInv
<1>2. FindsInv /\ [StaircaseNext]_staircase => FindsInv'
  <2>1. FindsInv /\ UNCHANGED staircase => FindsInv'
    BY DEF FindsInv, SearchInv, staircase, Rises, Below, Above, Tried, Reading, Amount, Walks, Halves, NoHits
  <2> QED BY <2>1, FindsSteps
<1>3. FindsInv => SearchFinds
  BY SearchKnows, FindsKnows DEF FindsInv, SearchFinds
<1> QED BY <1>1, <1>2, <1>3, PTL

----------------------------------------------------------------------------
(* pool.ts and gate.ts.                                                    *)

With(state) == {j \in Jobs : worker[j] = state}

\* While the pool is on: jobs start in their order, what is filed is what was said, and
\* doneJobs counts it.
Counted ==
    /\ nextJob \in 1..(Rerun + 1)
    /\ \A j \in Jobs : IF j < nextJob THEN worker[j] \in {"running", "reported"} ELSE worker[j] = "waiting"
    /\ doneJobs = Cardinality(With("reported"))
    /\ results \in [Jobs -> Reports \cup {NoReport}] /\ \A j \in With("reported") : results[j] = says[j]

PoolInv ==
    /\ worker \in [Jobs -> {"waiting", "running", "reported", "failed", "stopped"}]
    /\ says \in [Jobs -> Reports]
    /\ flying = With("running") /\ Cardinality(flying) <= Limit
    /\ gate \in {"running", "green", "red", "rejected"}
    /\ gate = "running" => Counted
    /\ gate = "green" => Verdict(says) = "green"
    /\ gate = "rejected" => flying = {}

\* One job per gate, and greedy again.
LEMMA JobsAre ==
    /\ Rerun \in Nat /\ Jobs = 1..Rerun /\ IsFiniteSet(Jobs) /\ Cardinality(Jobs) = Rerun
    /\ DOMAIN Gates = 1..(Rerun - 1)
<1>1. Rerun \in Nat /\ Rerun > 0 /\ Jobs = 1..Rerun /\ DOMAIN Gates = 1..(Rerun - 1)
  BY GatesAndReports DEF Rerun, Jobs
<1>2. IsFiniteSet(1..Rerun) /\ Cardinality(1..Rerun) = Rerun
  BY <1>1, FS_Interval
<1> QED BY <1>1, <1>2

\* The pool starts as many jobs as it may at once.
LEMMA PoolStarts == ASSUME says \in [Jobs -> Reports], GateInit("running") PROVE PoolInv
<1>1. PICK n : n = IF Limit < Rerun THEN Limit ELSE Rerun
  OBVIOUS
<1>2. n \in Nat /\ n <= Limit /\ n <= Rerun /\ Limit \in Nat /\ \A j \in Jobs : j <= Limit <=> j <= n
  BY <1>1, JobsAre, GatesAndReports
<1>3. nextJob = n + 1
  BY <1>1 DEF GateInit, Rerun
<1>4. \A j \in Jobs : worker[j] = IF j <= n THEN "running" ELSE "waiting"
  BY <1>2 DEF GateInit
<1>5. flying = 1..n
  BY <1>2, JobsAre DEF GateInit
<1>6. With("running") = 1..n /\ With("reported") = {}
  BY <1>2, <1>4, JobsAre DEF With
<1>7. Cardinality(1..n) <= Limit /\ Cardinality({}) = 0
  <2>1. Cardinality(1..n) = IF 1 > n THEN 0 ELSE n - 1 + 1
    BY <1>2, FS_Interval
  <2> QED BY <1>2, <2>1, FS_EmptySet
<1>8. Counted
  <2>1. nextJob \in 1..(Rerun + 1)
    BY <1>2, <1>3, JobsAre
  <2>2. \A j \in Jobs : j < nextJob <=> j <= n
    BY <1>2, <1>3, JobsAre
  <2>3. doneJobs = 0 /\ results \in [Jobs -> Reports \cup {NoReport}]
    BY DEF GateInit
  <2> QED BY <1>4, <1>6, <1>7, <2>1, <2>2, <2>3 DEF Counted
<1>9. worker \in [Jobs -> {"waiting", "running", "reported", "failed", "stopped"}] /\ gate = "running"
  BY DEF GateInit
<1> QED BY <1>5, <1>6, <1>7, <1>8, <1>9 DEF PoolInv

\* A report comes in: the next job takes the worker's place.
LEMMA ReportsKeep == ASSUME PoolInv, NEW j \in Jobs, Message(j) PROVE PoolInv'
<1>0. /\ Counted /\ gate = "running" /\ worker[j] = "running" /\ says' = says
      /\ flying = With("running") /\ says \in [Jobs -> Reports] /\ Cardinality(flying) <= Limit
  BY DEF PoolInv, Message
<1>1. PICK next : next = Relaunched(j)
  OBVIOUS
<1>2. next = {nextJob} \cap Jobs
  BY <1>1 DEF Relaunched
<1>3. /\ worker' = [k \in Jobs |-> IF k = j THEN "reported" ELSE IF k \in next THEN "running" ELSE worker[k]]
      /\ flying' = (flying \ {j}) \cup next /\ nextJob' = nextJob + Cardinality(next)
      /\ results' = [results EXCEPT ![j] = says[j]] /\ doneJobs' = doneJobs + 1
      /\ gate' = IF doneJobs + 1 = Cardinality(Jobs) THEN Verdict(results') ELSE gate
  BY <1>1, <1>0 DEF Message, Filed
<1>4. \A k \in next : k = nextJob /\ k # j /\ worker[k] = "waiting"
  BY <1>0, <1>2, JobsAre DEF Counted
<1>5. With("reported")' = With("reported") \cup {j} /\ j \notin With("reported")
  <2>1. \A k \in Jobs : worker'[k] = "reported" <=> k = j \/ worker[k] = "reported"
    BY <1>3, <1>4
  <2> QED BY <2>1, <1>0 DEF With
<1>6. With("running")' = flying'
  <2>1. \A k \in Jobs : worker'[k] = "running" <=> (k # j /\ worker[k] = "running") \/ k \in next
    BY <1>3, <1>4
  <2> QED BY <2>1, <1>0, <1>2, <1>3 DEF With
<1>7. IsFiniteSet(With("reported")) /\ IsFiniteSet(flying)
  BY <1>0, JobsAre, FS_Subset DEF With
<1>8. doneJobs' = Cardinality(With("reported")') /\ doneJobs' \in Nat
  <2>1. PICK R : R = With("reported")
    OBVIOUS
  <2>2. Cardinality(R \cup {j}) = Cardinality(R) + 1 /\ Cardinality(R) \in Nat
    BY <2>1, <1>5, <1>7, FS_AddElement, FS_CardinalityType
  <2>3. Cardinality(With("reported")') = Cardinality(R) + 1
    BY <2>1, <2>2, <1>5
  <2>4. doneJobs = Cardinality(R)
    BY <2>1, <1>0 DEF Counted
  <2> QED BY <2>2, <2>3, <2>4, <1>3
<1>9. Cardinality(flying') <= Limit
  <2>1. PICK F, G : F = flying /\ G = flying \ {j}
    OBVIOUS
  <2>2. IsFiniteSet(G) /\ Cardinality(G) = Cardinality(F) - 1 /\ Cardinality(F) \in Nat /\ j \in F
    BY <2>1, <1>0, <1>7, FS_RemoveElement, FS_CardinalityType DEF With
  <2>3. next = {} \/ next = {nextJob}
    BY <1>2
  <2>4. Cardinality(G \cup {nextJob}) <= Cardinality(G) + 1
    <3>1. Cardinality(G \cup {nextJob}) = IF nextJob \in G THEN Cardinality(G) ELSE Cardinality(G) + 1
      BY <2>2, FS_AddElement
    <3> QED BY <2>2, <3>1
  <2>5. Cardinality(flying') <= Cardinality(G) + 1
    <3>1. flying' = G \cup next
      BY <2>1, <1>3
    <3>2. CASE next = {}
      <4>1. flying' = G
        BY <3>1, <3>2
      <4> QED BY <4>1, <2>2
    <3>3. CASE next = {nextJob}
      BY <3>1, <3>3, <2>4
    <3> QED BY <3>2, <3>3, <2>3
  <2>6. Cardinality(flying') \in Nat
    <3>1. IsFiniteSet(flying')
      <4>1. flying' \subseteq Jobs
        BY <1>0, <1>2, <1>3 DEF With
      <4> QED BY <4>1, JobsAre, FS_Subset
    <3> QED BY <3>1, FS_CardinalityType
  <2> QED BY <2>1, <2>2, <2>5, <2>6, <1>0, GatesAndReports
<1>10. results' \in [Jobs -> Reports \cup {NoReport}] /\ \A k \in With("reported")' : results'[k] = says'[k]
  BY <1>0, <1>3, <1>5 DEF Counted
<1>11. CASE doneJobs + 1 = Cardinality(Jobs)
  <2>1. With("reported")' = Jobs
    <3>1. PICK R : R = With("reported")'
      OBVIOUS
    <3>2. R \subseteq Jobs /\ Cardinality(R) = Cardinality(Jobs)
      BY <3>1, <1>3, <1>8, <1>11 DEF With
    <3> QED BY <3>1, <3>2, JobsAre, FS_Subset
  <2>2. results' = says
    <3>1. results' = [k \in Jobs |-> results'[k]]
      BY <1>10
    <3>2. \A k \in Jobs : results'[k] = says[k]
      BY <2>1, <1>0, <1>10
    <3> QED BY <3>1, <3>2, <1>0
  <2>3. gate' = Verdict(says) /\ gate' \in {"green", "red"}
    <3>1. gate' = Verdict(says)
      BY <2>2, <1>3, <1>11
    <3>2. Verdict(says) \in {"green", "red"}
      BY DEF Verdict
    <3> QED BY <3>1, <3>2
  <2> QED BY <2>3, <1>0, <1>3, <1>6, <1>9 DEF PoolInv
<1>12. CASE doneJobs + 1 # Cardinality(Jobs)
  <2>1. gate' = "running"
    BY <1>0, <1>3, <1>12
  <2>2. CASE nextJob \in Jobs
    <3>1. next = {nextJob} /\ nextJob' = nextJob + 1
      <4>1. next = {nextJob}
        BY <1>2, <2>2
      <4>2. Cardinality(next) = 1
        BY <4>1, FS_Singleton
      <4> QED BY <4>1, <4>2, <1>3
    <3>2. nextJob \in 1..Rerun
      BY <2>2, JobsAre
    <3>3. nextJob' \in 1..(Rerun + 1)
      BY <3>1, <3>2, JobsAre
    <3>4. \A k \in Jobs : k < nextJob' <=> k < nextJob \/ k = nextJob
      BY <3>1, <3>2, JobsAre
    <3>5. \A k \in Jobs : IF k < nextJob' THEN worker'[k] \in {"running", "reported"} ELSE worker'[k] = "waiting"
      <4>1. \A k \in Jobs : IF k < nextJob THEN worker[k] \in {"running", "reported"} ELSE worker[k] = "waiting"
        BY <1>0 DEF Counted
      <4>2. j < nextJob
        BY <4>1, <1>0
      <4> QED BY <4>1, <4>2, <3>1, <3>4, <1>3
    <3>6. Counted'
      BY <3>3, <3>5, <1>8, <1>10 DEF Counted, Jobs, Rerun
    <3> QED BY <3>6, <2>1, <1>0, <1>3, <1>6, <1>9 DEF PoolInv
  <2>3. CASE nextJob \notin Jobs
    <3>1. next = {} /\ nextJob' = nextJob
      <4>1. next = {}
        BY <1>2, <2>3
      <4>2. nextJob \in Nat /\ Cardinality({}) = 0
        BY <1>0, FS_EmptySet DEF Counted
      <4> QED BY <4>1, <4>2, <1>3
    <3>2. \A k \in Jobs : IF k < nextJob THEN worker[k] \in {"running", "reported"} ELSE worker[k] = "waiting"
      BY <1>0 DEF Counted
    <3>3. j < nextJob
      BY <3>2, <1>0
    <3>4. \A k \in Jobs : IF k < nextJob THEN worker'[k] \in {"running", "reported"} ELSE worker'[k] = "waiting"
      BY <3>1, <3>2, <3>3, <1>3
    <3>5. Counted'
      BY <3>1, <3>4, <1>0, <1>8, <1>10 DEF Counted, Jobs, Rerun
    <3> QED BY <3>5, <2>1, <1>0, <1>3, <1>6, <1>9 DEF PoolInv
  <2> QED BY <2>2, <2>3
<1> QED BY <1>11, <1>12

\* A job fails: everything in flight is stopped.
LEMMA FailuresKeep == ASSUME PoolInv, NEW j \in Jobs, Failure(j) PROVE PoolInv'
<1>1. /\ flying = With("running") /\ says' = says /\ flying' = {} /\ gate' = "rejected"
      /\ worker' = [k \in Jobs |-> IF k = j THEN "failed" ELSE IF k \in flying \ {j} THEN "stopped" ELSE worker[k]]
      /\ worker \in [Jobs -> {"waiting", "running", "reported", "failed", "stopped"}]
      /\ says \in [Jobs -> Reports]
  BY DEF PoolInv, Failure, Stopped
<1>2. \A k \in Jobs : worker'[k] # "running"
  BY <1>1 DEF With
<1>3. With("running")' = {}
  BY <1>2 DEF With
<1>4. Cardinality({}) <= Limit
  BY FS_EmptySet, GatesAndReports
<1> QED BY <1>1, <1>3, <1>4 DEF PoolInv

\* A verdict of green on what the runs came to says what the gate claims.
LEMMA GreenSays ==
    ASSUME says \in [Jobs -> Reports], Verdict(says) = "green", gate = "green" PROVE GreenIsMeasured
<1>1. \A j \in DOMAIN Gates : ReportFor(Gates[j].policy, says) = says[j]
  <2> SUFFICES ASSUME NEW j \in DOMAIN Gates PROVE ReportFor(Gates[j].policy, says) = says[j]
    OBVIOUS
  <2>1. j \in Jobs /\ \A k \in 1..(j - 1) : k \in DOMAIN Gates /\ k # j
    BY JobsAre
  <2>2. \A i \in Jobs : (Gates[i].policy = Gates[j].policy
                          /\ \A k \in 1..(i - 1) : Gates[k].policy # Gates[j].policy) => i = j
    <3> SUFFICES ASSUME NEW i \in Jobs, Gates[i].policy = Gates[j].policy, i # j,
                        \A k \in 1..(i - 1) : Gates[k].policy # Gates[j].policy
                 PROVE  FALSE
      OBVIOUS
    <3>1. i \notin DOMAIN Gates
      BY GatesAndReports
    <3>2. j \in 1..(i - 1)
      BY <3>1, JobsAre
    <3> QED BY <3>2
  <2>3. \A k \in 1..(j - 1) : Gates[k].policy # Gates[j].policy
    BY <2>1, GatesAndReports
  <2>4. j = CHOOSE i \in Jobs : /\ Gates[i].policy = Gates[j].policy
                                /\ \A k \in 1..(i - 1) : Gates[k].policy # Gates[j].policy
    BY <2>1, <2>2, <2>3
  <2> QED BY <2>4 DEF ReportFor
<1>2. /\ ~Diverges(ReportFor("greedy", says), says[Rerun])
      /\ \A j \in DOMAIN Gates : ~Findings(Gates[j], says[j])
  BY <1>1 DEF Verdict
<1>3. \A j \in DOMAIN Gates : Gates[j].policy = "greedy" => says[j] = says[Rerun]
  BY <1>1, <1>2 DEF Diverges
<1>4. ASSUME NEW j \in DOMAIN Gates, NEW g, g = Gates[j], NEW r, r = says[j]
      PROVE  /\ r.reached >= Highest(g) /\ ~r.runaway
             /\ \A tier \in 1..Highest(g) :
                   IF tier \in DOMAIN g.pins
                   THEN ~OnTarget(tier, r.times[tier]) /\ Off(r.times[tier], g.pins[tier]) <= DriftBand
                   ELSE OnTarget(tier, r.times[tier])
  <2>1. r \in Reports
    BY <1>4, JobsAre
  <2>2. /\ g.untilTier \in Nat /\ g.reachesTier \in Nat
        /\ 1..g.untilTier \subseteq DOMAIN TierTargets /\ 1..g.reachesTier \subseteq DOMAIN TierTargets
        /\ r.reached \in Nat /\ 1..r.reached \subseteq DOMAIN r.times
    BY <1>4, <2>1, GatesAndReports
  <2>3. ~ReachFinding(g, r)
        /\ \A tier \in DOMAIN r.times : tier <= Highest(g) /\ tier \in DOMAIN TierTargets
                                         => ~TimeFinding(g, tier, r.times[tier])
    BY <1>2, <1>4 DEF Findings
  <2>4. r.reached >= Highest(g) /\ Highest(g) \in Nat
    BY <2>2, <2>3 DEF ReachFinding, Highest
  <2>5. ASSUME NEW tier \in 1..Highest(g)
        PROVE  IF tier \in DOMAIN g.pins
               THEN ~OnTarget(tier, r.times[tier]) /\ Off(r.times[tier], g.pins[tier]) <= DriftBand
               ELSE OnTarget(tier, r.times[tier])
    <3>1. tier \in DOMAIN r.times /\ tier \in DOMAIN TierTargets /\ tier <= Highest(g)
      <4>1. tier \in 1..r.reached
        BY <2>2, <2>4
      <4>2. tier \in 1..g.untilTier \/ tier \in 1..g.reachesTier
        BY <2>2 DEF Highest
      <4> QED BY <4>1, <4>2, <2>2, <2>4
    <3>2. ~TimeFinding(g, tier, r.times[tier])
      BY <3>1, <2>3
    <3>3. CASE tier \notin DOMAIN g.pins
      BY <3>2, <3>3 DEF TimeFinding
    <3>4. CASE tier \in DOMAIN g.pins
      <4>1. PICK a, b : a = r.times[tier] /\ b = g.pins[tier]
        OBVIOUS
      <4>2. a \in Nat /\ b \in Nat /\ DriftBand \in Nat
        BY <4>1, <3>1, <3>4, <2>1, <1>4, GatesAndReports
      <4>3. ~OnTarget(tier, a) /\ ~(Off(a, b) > DriftBand)
        BY <4>1, <3>2, <3>4 DEF TimeFinding
      <4>4. Off(a, b) <= DriftBand
        BY <4>2, <4>3 DEF Off
      <4> QED BY <4>1, <4>3, <4>4, <3>4
    <3> QED BY <3>3, <3>4
  <2>6. ~r.runaway
    BY <1>2, <1>4 DEF Findings, EfficiencyFinding
  <2> QED BY <2>4, <2>5, <2>6
<1> QED BY <1>3, <1>4 DEF GreenIsMeasured

\* pool.ts and gate.ts, of any number of workers to any number of processors, which end in any order
\* or fail: what is green was measured, no more run at once than there are processors, and a
\* failure leaves nothing running.
THEOREM GreenIsAlwaysMeasured ==
    (says \in [Jobs -> Reports] /\ GateInit("running") /\ [][GateNext]_pool)
       => [](GreenIsMeasured /\ FailureStopsThePool)
<1>1. says \in [Jobs -> Reports] /\ GateInit("running") => PoolInv
  BY PoolStarts
<1>2. PoolInv /\ [GateNext]_pool => PoolInv'
  <2>1. PoolInv /\ UNCHANGED pool => PoolInv'
    BY DEF PoolInv, Counted, With, pool
  <2> QED BY <2>1, ReportsKeep, FailuresKeep DEF GateNext
<1>3. PoolInv => GreenIsMeasured /\ FailureStopsThePool
  <2> SUFFICES ASSUME PoolInv PROVE GreenIsMeasured /\ FailureStopsThePool
    OBVIOUS
  <2>1. GreenIsMeasured
    <3>1. CASE gate = "green"
      BY <3>1, GreenSays DEF PoolInv
    <3>2. CASE gate # "green"
      BY <3>2 DEF GreenIsMeasured
    <3> QED BY <3>1, <3>2
  <2>2. FailureStopsThePool
    BY DEF PoolInv, With, FailureStopsThePool
  <2> QED BY <2>1, <2>2
<1> QED BY <1>1, <1>2, <1>3, PTL

------------------------------------------------------------
\* Of a search for the factor that clears a need: the records it goes through, and what it knows.
Clearings ==
    [at : {"idle", "seed", "halve", "double", "narrow", "done"}, good : Nat, bad : Nat,
     turns : Nat, cleared : BOOLEAN, value : Nat]

Suffices(cap, need) ==
    cap >= need /\ (cap = CapFloor \/ cap - (cap \div PrecisionDen) - 1 < need)

\* Every turn halves what is left, of less than the turns can halve.
Fits(c, need) ==
    /\ c \in Clearings
    /\ c.at = "seed" => c.bad = CapFloor /\ c.value < 2 ^ MaxTurns
    /\ c.at = "halve" => /\ c.bad = CapFloor /\ CapFloor < c.good /\ need <= c.good
                         /\ c.turns < MaxTurns /\ c.good * 2 ^ c.turns < 2 ^ MaxTurns
                         /\ c.good < 2 ^ MaxTurns
    /\ c.at = "double" => c.bad < need /\ c.bad * 2 <= CapCeiling
    /\ c.at = "narrow" => /\ c.bad < need /\ need <= c.good /\ c.good < 2 ^ MaxTurns
                          /\ c.turns < MaxTurns
                          /\ (c.good - c.bad - 1) * 2 ^ c.turns < 2 ^ MaxTurns
    /\ c.at = "done" /\ c.cleared => Suffices(c.value, need) /\ c.value < 2 ^ MaxTurns

\* What times a power is less than the power is nothing.
LEMMA NothingLeft ==
    ASSUME NEW x \in Nat, NEW p \in Nat, x * p < p
    PROVE  x = 0
<1>1. CASE x >= 1
  <2>1. 1 * p <= x * p
    BY <1>1, Times
  <2>2. x * p \in Nat
    BY Times
  <2> QED BY <2>1, <2>2
<1> QED BY <1>1

\* A bracket that is closed, or as narrow as whole units can be, is solved by its good end.
LEMMA GoodEndSolves ==
    ASSUME NEW need \in Nat, NEW good \in Nat, NEW bad \in Nat, bad < need, need <= good,
           (good - bad) * PrecisionDen <= good \/ good = bad + 1
    PROVE  Suffices(good, need)
<1>1. PrecisionDen \in Nat \ {0}
  BY FactorsAreWhole
<1>2. PICK q \in Nat : q = good \div PrecisionDen /\ good < PrecisionDen * q + PrecisionDen
  BY <1>1, WholePart
<1>3. PICK width \in Nat : width = good - bad /\ width >= 1
  <2>1. good - bad \in Nat /\ good - bad >= 1
    OBVIOUS
  <2> QED BY <2>1
<1>4. width <= q + 1
  <2>1. CASE width = 1
    BY <2>1
  <2>2. CASE width * PrecisionDen <= good
    <3>1. CASE q + 2 <= width
      <4>1. (q + 2) * PrecisionDen <= width * PrecisionDen /\ width * PrecisionDen \in Nat
        BY <1>1, <3>1, Times
      <4>2. (q + 2) * PrecisionDen = PrecisionDen * q + PrecisionDen + PrecisionDen
        BY <1>1
      <4>3. PrecisionDen * q \in Nat
        BY <1>1, Times
      <4> QED BY <1>1, <1>2, <2>2, <4>1, <4>2, <4>3
    <3> QED BY <3>1
  <2> QED BY <1>3, <2>1, <2>2
<1>5. good - q - 1 < need
  BY <1>3, <1>4
<1> QED BY <1>2, <1>5 DEF Suffices

\* What is at most a number, and not it, is less.
LEMMA LessThan == ASSUME NEW a \in Nat, NEW b \in Nat, a <= b, a # b PROVE a < b
  OBVIOUS

\* What narrows a bracket either ends it, solved, or halves it again.
LEMMA NarrowFits ==
    ASSUME Powers(2), NEW need \in Nat, NEW c \in Clearings, c.bad < need, need <= c.good,
           c.good < 2 ^ MaxTurns, c.turns <= MaxTurns,
           (c.good - c.bad - 1) * 2 ^ c.turns < 2 ^ MaxTurns
    PROVE  Fits(Narrow(c), need)
<1>0. MaxTurns \in Nat /\ c.good \in Nat /\ c.bad \in Nat /\ c.turns \in Nat
  BY FactorsAreWhole DEF Clearings
<1>1. CASE c.turns = MaxTurns \/ Close(c)
  <2>1. Narrow(c) = Closed(c, c.good, TRUE)
    BY <1>1 DEF Narrow
  <2>2. c.turns = MaxTurns => c.good - c.bad - 1 = 0
    <3>1. c.good - c.bad - 1 \in Nat
      BY <1>0
    <3>2. 2 ^ MaxTurns \in Nat
      BY <1>0 DEF Powers
    <3> QED BY <3>1, <3>2, NothingLeft
  <2>3. (c.good - c.bad) * PrecisionDen <= c.good \/ c.good = c.bad + 1
    BY <1>0, <1>1, <2>2 DEF Close
  <2>4. Suffices(c.good, need)
    BY <1>0, <2>3, GoodEndSolves
  <2>5. /\ Closed(c, c.good, TRUE) \in Clearings /\ Closed(c, c.good, TRUE).at = "done"
        /\ Closed(c, c.good, TRUE).value = c.good
    BY DEF Clearings, Closed
  <2> QED BY <2>1, <2>4, <2>5 DEF Fits
<1>2. CASE ~(c.turns = MaxTurns \/ Close(c))
  <2>1. PICK d : d = [c EXCEPT !.at = "narrow"]
    OBVIOUS
  <2>2. /\ d \in Clearings /\ d.at = "narrow" /\ d.good = c.good /\ d.bad = c.bad
        /\ d.turns = c.turns
    BY <2>1 DEF Clearings
  <2>3. Narrow(c) = d
    BY <1>2, <2>1 DEF Narrow
  <2>4. c.turns # MaxTurns
    BY <1>2
  <2>5. c.turns < MaxTurns
    <3>1. c.turns <= MaxTurns
      OBVIOUS
    <3> QED BY <1>0, <2>4, <3>1, LessThan
  <2> QED BY <2>2, <2>3, <2>5 DEF Fits
<1> QED BY <1>1, <1>2

\* A factor that clears is halved again, unless the turns are up: then it was the floor.
LEMMA HalveFits ==
    ASSUME Powers(2), NEW need \in Nat, NEW c \in Clearings, c.bad = CapFloor, need <= c.good,
           CapFloor < c.good, c.turns <= MaxTurns, c.good < 2 ^ MaxTurns,
           c.good * 2 ^ c.turns < 2 ^ MaxTurns
    PROVE  Fits(Halve(c), need)
<1>0. MaxTurns \in Nat /\ c.good \in Nat /\ c.turns \in Nat /\ CapFloor \in Nat
  BY FactorsAreWhole DEF Clearings
<1>1. c.turns < MaxTurns
  <2>1. 2 ^ MaxTurns \in Nat
    BY <1>0 DEF Powers
  <2>2. c.turns = MaxTurns => c.good = 0
    BY <1>0, <2>1, NothingLeft
  <2> QED BY <1>0, <2>2
<1>2. Halved(c) # c.good
  BY <1>0 DEF Halved
<1>3. PICK d : d = [c EXCEPT !.at = "halve"]
  OBVIOUS
<1>4. /\ d \in Clearings /\ d.at = "halve" /\ d.good = c.good /\ d.bad = c.bad
      /\ d.turns = c.turns
  BY <1>3 DEF Clearings
<1>5. Halve(c) = d
  BY <1>0, <1>1, <1>2, <1>3 DEF Halve
<1> QED BY <1>1, <1>4, <1>5 DEF Fits

\* A factor that fails is doubled, up to the ceiling.
LEMMA DoubleFits ==
    ASSUME NEW need \in Nat, NEW c \in Clearings, c.bad < need
    PROVE  Fits(Double(c), need)
<1>1. CASE c.turns = MaxTurns \/ c.bad * 2 > CapCeiling
  <2>1. /\ Double(c) \in Clearings /\ Double(c).at = "done" /\ ~Double(c).cleared
    BY <1>1 DEF Double, Closed, Clearings
  <2> QED BY <2>1 DEF Fits
<1>2. CASE ~(c.turns = MaxTurns \/ c.bad * 2 > CapCeiling)
  <2>1. PICK d : d = [c EXCEPT !.at = "double"]
    OBVIOUS
  <2>2. /\ d \in Clearings /\ d.at = "double" /\ d.good = c.good /\ d.bad = c.bad
    BY <2>1 DEF Clearings
  <2>3. Double(c) = d
    BY <1>2, <2>1 DEF Double
  <2>4. c.bad * 2 <= CapCeiling
    BY <1>2, FactorsAreWhole DEF Clearings
  <2> QED BY <2>2, <2>3, <2>4 DEF Fits
<1> QED BY <1>1, <1>2

\* What a turn leaves, of what was left, is half.
LEMMA HalfLeft ==
    ASSUME Powers(2), NEW x \in Nat, NEW y \in Nat, NEW t \in Nat, 2 * x <= y
    PROVE  x * 2 ^ (t + 1) <= y * 2 ^ t
<1>1. PICK p \in Nat : p = 2 ^ t /\ 2 ^ (t + 1) = 2 * p
  BY DEF Powers
<1>2. (2 * x) * p <= y * p
  BY Times
<1>3. (2 * x) * p = x * (2 * p)
  OBVIOUS
<1> QED BY <1>1, <1>2, <1>3

\* The first test and the halvings below it.
LEMMA LowerFits ==
    ASSUME Powers(2), NEW need \in Nat, NEW c, Fits(c, need), c.at \in {"seed", "halve"},
           CapFloor < 2 ^ MaxTurns
    PROVE  Fits(Tested(c, TestAt(c) >= need), need)
<1>0. /\ MaxTurns \in Nat /\ c.good \in Nat /\ c.bad \in Nat /\ c.turns \in Nat /\ c.value \in Nat
      /\ CapFloor \in Nat /\ c \in Clearings
  BY FactorsAreWhole DEF Clearings, Fits
<1>1. PICK x : x = TestAt(c)
  OBVIOUS
<1>2. x \in Nat /\ x < 2 ^ MaxTurns /\ (c.at = "halve" => x < c.good /\ (x > CapFloor => 2 * x <= c.good))
  <2>1. CASE c.at = "seed"
    BY <1>0, <1>1, <2>1 DEF TestAt, Fits
  <2>2. CASE c.at = "halve"
    <3>1. x = Halved(c) /\ c.good < 2 ^ MaxTurns /\ CapFloor < c.good
      BY <1>1, <2>2 DEF TestAt, Fits
    <3>2. x \in Nat /\ x < c.good /\ (x > CapFloor => 2 * x <= c.good)
      BY <1>0, <3>1 DEF Halved
    <3>3. 2 ^ MaxTurns \in Nat
      BY <1>0 DEF Powers
    <3> QED BY <1>0, <3>1, <3>2, <3>3
  <2> QED BY <2>1, <2>2
<1>3. CASE x >= need /\ x <= CapFloor
  <2>1. Tested(c, x >= need) = Closed(c, CapFloor, TRUE)
    BY <1>1, <1>3 DEF Tested, AfterTest
  <2>2. Suffices(CapFloor, need)
    BY <1>0, <1>2, <1>3 DEF Suffices
  <2>3. /\ Closed(c, CapFloor, TRUE) \in Clearings /\ Closed(c, CapFloor, TRUE).at = "done"
        /\ Closed(c, CapFloor, TRUE).value = CapFloor
    BY <1>0 DEF Closed, Clearings
  <2> QED BY <1>1, <2>1, <2>2, <2>3 DEF Fits
<1>4. CASE x >= need /\ x > CapFloor
  <2>1. PICK d : d = [c EXCEPT !.good = x, !.turns = IF c.at = "seed" THEN 0 ELSE @ + 1]
    OBVIOUS
  <2>a. PICK t \in Nat : t = IF c.at = "seed" THEN 0 ELSE c.turns + 1
    BY <1>0
  <2>b. d = [c EXCEPT !.good = x, !.turns = t]
    BY <2>1, <2>a
  <2>2. /\ d \in Clearings /\ d.good = x /\ d.bad = c.bad
        /\ d.turns = IF c.at = "seed" THEN 0 ELSE c.turns + 1
    BY <1>0, <1>2, <2>a, <2>b DEF Clearings
  <2>c. ~(x <= CapFloor)
    BY <1>0, <1>2, <1>4
  <2>3. Tested(c, x >= need) = Halve(d)
    BY <1>1, <1>4, <2>1, <2>c DEF Tested, AfterTest
  <2>4. d.bad = CapFloor /\ d.turns <= MaxTurns
    BY <1>0, <2>2 DEF Fits
  <2>5. d.good * 2 ^ d.turns < 2 ^ MaxTurns
    <3>1. CASE c.at = "seed"
      <4>1. 2 ^ d.turns = 1
        BY <2>2, <3>1 DEF Powers
      <4> QED BY <1>2, <2>2, <4>1
    <3>2. CASE c.at = "halve"
      <4>1. PICK l \in Nat, m \in Nat, r \in Nat :
               l = d.good * 2 ^ d.turns /\ m = c.good * 2 ^ c.turns /\ r = 2 ^ MaxTurns
        <5>1. 2 ^ d.turns \in Nat /\ 2 ^ c.turns \in Nat /\ 2 ^ MaxTurns \in Nat
          BY <1>0, <2>2 DEF Powers
        <5>2. d.good * 2 ^ d.turns \in Nat /\ c.good * 2 ^ c.turns \in Nat
          BY <1>0, <1>2, <2>2, <5>1, Times
        <5> QED BY <5>1, <5>2
      <4>2. l <= m
        <5>1. d.turns = c.turns + 1 /\ 2 * x <= c.good
          BY <1>2, <1>4, <2>2, <3>2
        <5>2. x * 2 ^ (c.turns + 1) <= c.good * 2 ^ c.turns
          BY <1>0, <1>2, <5>1, HalfLeft
        <5> QED BY <2>2, <4>1, <5>1, <5>2
      <4>3. m < r
        BY <3>2, <4>1 DEF Fits
      <4>4. l < r
        BY <4>2, <4>3
      <4> QED BY <4>1, <4>4
    <3> QED BY <3>1, <3>2
  <2> QED BY <1>1, <1>2, <1>4, <2>2, <2>3, <2>4, <2>5, HalveFits
<1>5. CASE ~(x >= need) /\ c.at = "seed"
  <2>1. PICK d : d = [c EXCEPT !.bad = x]
    OBVIOUS
  <2>2. d \in Clearings /\ d.bad = x /\ x < need
    BY <1>0, <1>2, <1>5, <2>1 DEF Clearings
  <2>3. Tested(c, x >= need) = Double(d)
    BY <1>1, <1>5, <2>1 DEF Tested, AfterTest
  <2> QED BY <1>1, <2>2, <2>3, DoubleFits
<1>6. CASE ~(x >= need) /\ c.at = "halve"
  <2>1. PICK d : d = [c EXCEPT !.bad = x, !.turns = 0]
    OBVIOUS
  <2>b. x < need
    BY <1>2, <1>6
  <2>a. d \in Clearings /\ d.bad = x /\ d.turns = 0 /\ d.good = c.good
    BY <1>0, <1>2, <2>1 DEF Clearings
  <2>2. d \in Clearings /\ d.bad = x /\ x < need /\ d.turns = 0 /\ d.good = c.good
    BY <2>a, <2>b
  <2>3. Tested(c, x >= need) = Narrow(d)
    BY <1>1, <1>6, <2>1 DEF Tested, AfterTest
  <2>4. need <= d.good /\ d.good < 2 ^ MaxTurns
    BY <1>6, <2>2 DEF Fits
  <2>5. (d.good - d.bad - 1) * 2 ^ d.turns < 2 ^ MaxTurns
    <3>1. PICK r \in Nat : r = 2 ^ MaxTurns
      BY <1>0 DEF Powers
    <3>2. 2 ^ d.turns = 1
      BY <2>2 DEF Powers
    <3>3. d.good < r /\ d.good \in Nat /\ d.bad \in Nat
      BY <2>2, <2>4, <3>1 DEF Clearings
    <3>4. (d.good - d.bad - 1) * 1 < r
      BY <3>3
    <3> QED BY <3>1, <3>2, <3>4
  <2>6. d.turns <= MaxTurns
    BY <1>0, <2>2
  <2>7. d.bad < need
    BY <2>2
  <2> QED BY <1>1, <2>2, <2>3, <2>4, <2>5, <2>6, <2>7, NarrowFits
<1> QED BY <1>1, <1>2, <1>0, <1>3, <1>4, <1>5, <1>6

\* The doublings, and the bisection that follows.
LEMMA UpperFits ==
    ASSUME Powers(2), NEW need \in Nat, NEW c, Fits(c, need), c.at \in {"double", "narrow"},
           CapCeiling < 2 ^ MaxTurns
    PROVE  Fits(Tested(c, TestAt(c) >= need), need)
<1>0. /\ MaxTurns \in Nat /\ c.good \in Nat /\ c.bad \in Nat /\ c.turns \in Nat
      /\ CapCeiling \in Nat /\ c \in Clearings
  BY FactorsAreWhole DEF Clearings, Fits
<1>1. PICK x : x = TestAt(c)
  OBVIOUS
<1>2. PICK r \in Nat : r = 2 ^ MaxTurns
  BY <1>0 DEF Powers
<1>3. CASE c.at = "double" /\ x >= need
  <2>1. PICK d : d = [c EXCEPT !.good = x, !.turns = 0]
    OBVIOUS
  <2>2. x = c.bad * 2 /\ x \in Nat /\ c.bad < need /\ x <= CapCeiling
    BY <1>0, <1>1, <1>3 DEF TestAt, Fits
  <2>3. d \in Clearings /\ d.bad = c.bad /\ d.turns = 0 /\ d.good = x
    BY <1>0, <2>1, <2>2 DEF Clearings
  <2>4. Tested(c, x >= need) = Narrow(d)
    BY <1>1, <1>3, <2>1 DEF Tested, AfterTest
  <2>5. CapCeiling < r
    BY <1>2
  <2>6. x < r /\ (x - c.bad - 1) * 1 < r
    BY <1>0, <2>2, <2>5
  <2>7. 2 ^ d.turns = 1
    BY <2>3 DEF Powers
  <2>8. (d.good - d.bad - 1) * 2 ^ d.turns < 2 ^ MaxTurns /\ d.good < 2 ^ MaxTurns
    BY <1>2, <2>3, <2>6, <2>7
  <2>9. d.turns <= MaxTurns /\ d.bad < need /\ need <= d.good
    BY <1>0, <1>3, <2>2, <2>3
  <2> QED BY <1>1, <2>3, <2>4, <2>8, <2>9, NarrowFits
<1>4. CASE c.at = "double" /\ ~(x >= need)
  <2>1. PICK d : d = [c EXCEPT !.bad = x, !.turns = @ + 1]
    OBVIOUS
  <2>2. x = c.bad * 2 /\ x \in Nat
    BY <1>0, <1>1, <1>4 DEF TestAt
  <2>a. PICK t \in Nat : t = c.turns + 1
    BY <1>0
  <2>c. d = [c EXCEPT !.bad = x, !.turns = t]
    BY <2>1, <2>a
  <2>d. d \in Clearings /\ d.bad = x
    BY <1>0, <2>2, <2>c DEF Clearings
  <2>b. x < need
    BY <1>4, <2>2
  <2>3. d \in Clearings /\ d.bad = x /\ x < need
    BY <2>b, <2>d
  <2>4. Tested(c, x >= need) = Double(d)
    BY <1>1, <1>4, <2>1 DEF Tested, AfterTest
  <2> QED BY <1>1, <2>3, <2>4, DoubleFits
<1>5. CASE c.at = "narrow"
  <2>1. PICK d : d = [c EXCEPT !.good = IF x >= need THEN x ELSE @,
                               !.bad = IF x >= need THEN @ ELSE x, !.turns = @ + 1]
    OBVIOUS
  <2>2. x = (c.good + c.bad) \div 2 /\ x \in Nat
    BY <1>0, <1>1, <1>5 DEF TestAt
  <2>3. /\ d \in Clearings /\ d.turns = c.turns + 1
        /\ d.good = (IF x >= need THEN x ELSE c.good) /\ d.bad = (IF x >= need THEN c.bad ELSE x)
    <3>1. PICK g \in Nat, b \in Nat, t \in Nat :
             /\ g = (IF x >= need THEN x ELSE c.good) /\ b = (IF x >= need THEN c.bad ELSE x)
             /\ t = c.turns + 1
      BY <1>0, <2>2
    <3>2. d = [c EXCEPT !.good = g, !.bad = b, !.turns = t]
      BY <2>1, <3>1
    <3>3. d \in Clearings /\ d.good = g /\ d.bad = b /\ d.turns = t
      BY <1>0, <3>2 DEF Clearings
    <3> QED BY <3>1, <3>3
  <2>4. Tested(c, x >= need) = Narrow(d)
    BY <1>1, <1>5, <2>1 DEF Tested, AfterTest
  <2>5. c.bad < need /\ need <= c.good /\ c.good < r /\ c.turns < MaxTurns
    BY <1>2, <1>5 DEF Fits
  <2>6. /\ d.turns <= MaxTurns /\ d.bad < need /\ need <= d.good /\ d.good < r
        /\ d.good \in Nat /\ d.bad \in Nat /\ d.good - d.bad - 1 \in Nat
        /\ 2 * (d.good - d.bad - 1) <= c.good - c.bad - 1 /\ c.good - c.bad - 1 \in Nat
    BY <1>0, <2>2, <2>3, <2>5
  <2>7. PICK left \in Nat, was \in Nat : left = d.good - d.bad - 1 /\ was = c.good - c.bad - 1
    BY <2>6
  <2>8. left * 2 ^ (c.turns + 1) <= was * 2 ^ c.turns
    BY <1>0, <2>6, <2>7, HalfLeft
  <2>9. PICK l \in Nat, m \in Nat : l = left * 2 ^ d.turns /\ m = was * 2 ^ c.turns
    <3>1. 2 ^ d.turns \in Nat /\ 2 ^ c.turns \in Nat
      BY <1>0, <2>3 DEF Powers
    <3> QED BY <3>1, Times
  <2>10. l <= m
    BY <2>3, <2>8, <2>9
  <2>11. m < r
    BY <1>2, <1>5, <2>7, <2>9 DEF Fits
  <2>12. l < r
    BY <2>10, <2>11
  <2>13. (d.good - d.bad - 1) * 2 ^ d.turns < 2 ^ MaxTurns /\ d.good < 2 ^ MaxTurns
    BY <1>2, <2>6, <2>7, <2>9, <2>12
  <2>14. d.turns <= MaxTurns /\ d.bad < need /\ need <= d.good
    BY <2>6
  <2> QED BY <1>1, <2>3, <2>4, <2>13, <2>14, NarrowFits
<1> QED BY <1>1, <1>3, <1>4, <1>5

\* A search opens at its seed, or at the floor.
LEMMA OpenedFits ==
    ASSUME NEW need \in Nat, NEW seed \in Nat, seed < 2 ^ MaxTurns, CapFloor < 2 ^ MaxTurns
    PROVE  Fits(Opened(seed), need)
<1>1. Opened(seed) \in Clearings /\ Opened(seed).at = "seed" /\ Opened(seed).bad = CapFloor
  BY FactorsAreWhole DEF Opened, Clearings
<1>2. Opened(seed).value < 2 ^ MaxTurns
  BY DEF Opened
<1> QED BY <1>1, <1>2 DEF Fits

----------------------------------------------------------------------------
\* What the calibration knows, until it falls back: what it was given, where it stands, the points
\* it tried, the one to beat, the round of the refinement, the factors it solved, and the search at
\* hand.
Points == [scale : Scales, miss : 0..Never, cap : Nat \cup {NoCap}]

GivenOK ==
    /\ bundle \in Bundles /\ grid \in Grids /\ authoredCap \in AuthoredCaps
    /\ warmSeed \in Nat /\ warmSeed < 2 ^ MaxTurns

PhaseOK ==
    /\ phase = "grid" => place \in 1..Len(grid) /\ Len(scan) = place - 1
    /\ phase = "refine" => /\ place \in 1..4 /\ Len(scan) = Len(grid) + place - 1
                           /\ winner \in Authored
    /\ phase \in {"grid", "refine"} => Len(grid) > 1
    /\ phase \in {"start", "storage", "single"} => scan = <<>>
    /\ phase = "single" => Len(grid) = 1
    /\ phase = "ranked" => Len(scan) = IF Len(grid) = 1 THEN 0 ELSE Len(grid)
    /\ phase \in {"start", "single"} \/ (phase = "grid" /\ place = 1) => best = Never

PointsOK == scan \in Seq(Points) /\ \A i \in DOMAIN scan : i <= Len(grid) => scan[i].scale = grid[i]

BestOK ==
    /\ best \in 0..Never /\ bestScale \in Scales
    /\ \A j \in DOMAIN scan : best <= scan[j].miss
    /\ scan # <<>> /\ best # Never =>
          \E i \in DOMAIN scan : /\ scan[i] = [scale |-> bestScale, miss |-> best, cap |-> bestCap]
                                 /\ Clears(bestScale, bestCap)

RoundOK ==
    phase = "refine" \/ Len(scan) > Len(grid) =>
       /\ \E k \in DOMAIN scan :
             /\ k <= Len(grid) /\ scan[k].scale = winner /\ scan[k].miss # Never
             /\ \A j \in DOMAIN scan : j <= Len(grid) => scan[k].miss <= scan[j].miss
       /\ \A i \in DOMAIN scan : i > Len(grid) => scan[i].scale = RefinedScale(i - Len(grid))

CapsOK ==
    ~holdCap => \A s \in DOMAIN capByScale :
                   s \in Scales /\ capByScale[s] \in Nat /\ Suffices(capByScale[s], Needs(bundle, s))

SearchOK ==
    /\ clearing \in Clearings
    /\ clearing.at # "idle" => /\ phase \in {"storage", "single", "grid", "refine"} /\ ~holdCap
                               /\ Fits(clearing, Needs(bundle, ScaleAt))

Calibrated == GivenOK /\ PhaseOK /\ PointsOK /\ BestOK /\ RoundOK /\ CapsOK /\ SearchOK

CalibrationInv == EmitsNoRunaway /\ (fellBack \/ Calibrated)

\* The scale at hand is one of those tried.
LEMMA ScaleTried ==
    ASSUME Calibrated, phase \in {"storage", "single", "grid", "refine"}
    PROVE  ScaleAt \in Scales /\ Needs(bundle, ScaleAt) \in Nat
<1> SUFFICES ScaleAt \in Scales
  BY SimulatorAnswers DEF Calibrated, GivenOK
<1>0. grid \in Seq(Nat) /\ grid # <<>> /\ grid \in Grids /\ Len(grid) \in Nat
  BY GridsHoldScales DEF Calibrated, GivenOK
<1>1. \A i \in 1..Len(grid) : grid[i] \in Authored
  BY <1>0 DEF Authored, ToSet
<1>2. CASE phase = "storage"
  BY <1>2 DEF ScaleAt, Scales, Authored
<1>3. CASE phase = "single"
  BY <1>0, <1>1, <1>3 DEF ScaleAt, Scales
<1>4. CASE phase = "grid"
  BY <1>1, <1>4 DEF ScaleAt, Scales, Calibrated, PhaseOK
<1>5. CASE phase = "refine"
  <2>1. place \in 1..4 /\ winner \in Authored
    BY <1>5 DEF Calibrated, PhaseOK
  <2>2. ScaleAt = (winner * Factors[place]) \div 20
    BY <1>5 DEF ScaleAt, RefinedScale, Around
  <2> QED BY <2>1, <2>2 DEF Scales
<1> QED BY <1>2, <1>3, <1>4, <1>5

\* What requiredCap answers clears at its scale and, when it was solved, nothing smaller does.
LEMMA RequiredIs ==
    ASSUME Calibrated, TurnsSuffice, phase \in {"storage", "single", "grid", "refine"}, Answered,
           NEW scale, scale = ScaleAt, NEW cap, cap = Required(scale).cap
    PROVE  \/ cap = NoCap
           \/ /\ cap \in Nat /\ cap < 2 ^ MaxTurns /\ Clears(scale, cap)
              /\ ~holdCap => Suffices(cap, Needs(bundle, scale))
<1>1. scale \in Scales /\ Needs(bundle, scale) \in Nat
  BY ScaleTried
<1>2. CASE holdCap
  <2>1. authoredCap \in Nat /\ authoredCap < 2 ^ MaxTurns
    BY GridsHoldScales DEF Calibrated, GivenOK, TurnsSuffice
  <2> QED BY <1>2, <2>1 DEF Required
<1>3. CASE ~holdCap
  <2>1. clearing.at = "done" /\ clearing \in Clearings /\ Fits(clearing, Needs(bundle, scale))
    BY <1>3 DEF Answered, Calibrated, SearchOK
  <2>2. cap = IF clearing.cleared THEN clearing.value ELSE NoCap
    BY <1>3 DEF Required
  <2>3. CASE clearing.cleared
    <3>1. /\ clearing.value \in Nat /\ clearing.value < 2 ^ MaxTurns
          /\ Suffices(clearing.value, Needs(bundle, scale))
      BY <2>1, <2>3 DEF Fits, Clearings
    <3> QED BY <2>2, <2>3, <3>1 DEF Suffices, Clears
  <2> QED BY <2>2, <2>3
<1> QED BY <1>2, <1>3

\* What the answer leaves behind: the seed of the next search, and the factor of that scale.
LEMMA SolvesOK ==
    ASSUME Calibrated, TurnsSuffice, phase \in {"storage", "single", "grid", "refine"}, Answered,
           NEW scale, scale = ScaleAt, Solves(scale, Required(scale)), bundle' = bundle, holdCap' = holdCap
    PROVE  warmSeed' \in Nat /\ warmSeed' < 2 ^ MaxTurns /\ CapsOK'
<1>1. scale \in Scales
  BY ScaleTried
<1>2. PICK cap : cap = Required(scale).cap
  OBVIOUS
<1>3. \/ cap = NoCap
      \/ /\ cap \in Nat /\ cap < 2 ^ MaxTurns
         /\ ~holdCap => Suffices(cap, Needs(bundle, scale))
  BY <1>2, RequiredIs
<1>4. warmSeed \in Nat /\ warmSeed < 2 ^ MaxTurns
  BY DEF Calibrated, GivenOK
<1>5. warmSeed' \in Nat /\ warmSeed' < 2 ^ MaxTurns
  BY <1>2, <1>3, <1>4 DEF Solves
<1>6. capByScale' = IF cap = NoCap THEN capByScale ELSE Put(capByScale, scale, cap)
  BY <1>2 DEF Solves
<1>7. CapsOK'
  <2>1. SUFFICES ASSUME ~holdCap, NEW s \in DOMAIN capByScale'
                 PROVE  /\ s \in Scales /\ capByScale'[s] \in Nat
                        /\ Suffices(capByScale'[s], Needs(bundle, s))
    BY DEF CapsOK
  <2>2. \A t \in DOMAIN capByScale :
           t \in Scales /\ capByScale[t] \in Nat /\ Suffices(capByScale[t], Needs(bundle, t))
    BY <2>1 DEF Calibrated, CapsOK
  <2>3. CASE cap = NoCap
    BY <1>6, <2>1, <2>2, <2>3
  <2>4. CASE cap # NoCap
    <3>1. capByScale' = [t \in DOMAIN capByScale \cup {scale} |-> IF t = scale THEN cap ELSE capByScale[t]]
      BY <1>6, <2>4 DEF Put
    <3>2. CASE s = scale
      BY <1>1, <1>3, <2>1, <2>4, <3>1, <3>2
    <3>3. CASE s # scale
      <4>1. s \in DOMAIN capByScale /\ capByScale'[s] = capByScale[s]
        BY <2>1, <3>1, <3>3
      <4> QED BY <2>2, <4>1
    <3> QED BY <3>2, <3>3
  <2> QED BY <2>3, <2>4
<1> QED BY <1>5, <1>7

\* What considering a scale adds: its point, which is the one to beat if it beats that.
LEMMA Considers ==
    ASSUME Calibrated, TurnsSuffice, phase \in {"grid", "refine"}, NEW scale, scale = ScaleAt,
           Consider(scale), bundle' = bundle, holdCap' = holdCap
    PROVE  /\ warmSeed' \in Nat /\ warmSeed' < 2 ^ MaxTurns /\ CapsOK'
           /\ \E p \in Points :
                 /\ p.scale = scale /\ scan' = Append(scan, p) /\ best' <= p.miss
                 /\ \/ UNCHANGED choice
                    \/ /\ p = [scale |-> bestScale', miss |-> best', cap |-> bestCap']
                       /\ Clears(bestScale', bestCap') /\ best' < best
<1>0. /\ scale \in Scales /\ bundle \in Bundles /\ best \in 0..Never
      /\ warmSeed \in Nat /\ warmSeed < 2 ^ MaxTurns
  BY ScaleTried DEF Calibrated, GivenOK, BestOK
<1>1. PICK p : p = [scale |-> scale, miss |-> Never, cap |-> NoCap]
  OBVIOUS
<1>2. p \in Points /\ p.scale = scale /\ p.miss = Never
  BY <1>0, <1>1 DEF Points, Never
<1>3. CASE Refused(scale)
  <2>1. scan' = Append(scan, p) /\ UNCHANGED <<choice, capByScale, shortfalls, warmSeed>>
    BY <1>1, <1>3 DEF Consider, Point
  <2>2. CapsOK'
    BY <2>1 DEF CapsOK, Calibrated
  <2>3. best' <= p.miss
    BY <1>0, <1>2, <2>1 DEF choice
  <2>4. UNCHANGED choice /\ warmSeed' = warmSeed
    BY <2>1
  <2> QED BY <1>0, <1>2, <2>1, <2>2, <2>3, <2>4
<1>4. CASE ~Refused(scale)
  <2>1. Answered /\ Solves(scale, Required(scale))
    BY <1>4 DEF Consider
  <2>2. warmSeed' \in Nat /\ warmSeed' < 2 ^ MaxTurns /\ CapsOK'
    BY <2>1, SolvesOK
  <2>3. PICK cap : cap = Required(scale).cap
    OBVIOUS
  <2>4. cap = NoCap \/ (cap \in Nat /\ Clears(scale, cap))
    BY <2>1, <2>3, RequiredIs
  <2>5. CASE cap = NoCap
    <3>1. scan' = Append(scan, p) /\ UNCHANGED choice
      BY <1>1, <1>4, <2>3, <2>5 DEF Consider, Point
    <3>2. best' <= p.miss
      BY <1>0, <1>2, <3>1 DEF choice
    <3> QED BY <1>2, <2>2, <3>1, <3>2
  <2>6. CASE cap # NoCap
    <3>1. Scored(scale, cap)
      BY <1>4, <2>3, <2>6 DEF Consider
    <3>2. PICK m \in 0..Never : m = Miss(bundle, scale)
      BY <1>0, SimulatorAnswers
    <3>3. PICK q : q = [scale |-> scale, miss |-> m, cap |-> cap]
      OBVIOUS
    <3>4. q \in Points /\ q.scale = scale /\ q.miss = m /\ scan' = Append(scan, q)
      BY <1>0, <2>4, <2>6, <3>1, <3>2, <3>3 DEF Points, Scored, Point
    <3>5. CASE m < best
      <4>1. best' = m /\ bestScale' = scale /\ bestCap' = cap
        BY <3>1, <3>2, <3>5 DEF Scored, Better, Kept
      <4>2. Clears(bestScale', bestCap')
        BY <2>4, <2>6, <4>1
      <4>3. q = [scale |-> bestScale', miss |-> best', cap |-> bestCap']
        BY <3>3, <4>1
      <4>4. best' <= q.miss /\ best' < best
        BY <3>2, <3>4, <3>5, <4>1
      <4> QED BY <2>2, <3>4, <4>2, <4>3, <4>4
    <3>6. CASE ~(m < best)
      <4>1. UNCHANGED choice
        BY <3>1, <3>2, <3>6 DEF Scored, Better
      <4>2. best' <= q.miss
        BY <1>0, <3>2, <3>4, <3>6, <4>1 DEF choice
      <4> QED BY <2>2, <3>4, <4>1, <4>2
    <3> QED BY <3>5, <3>6
  <2> QED BY <2>5, <2>6
<1> QED BY <1>3, <1>4

\* A point considered is added after the others, and the one to beat is among them.
LEMMA AddsPoint ==
    ASSUME Calibrated, TurnsSuffice, phase \in {"grid", "refine"}, NEW scale, scale = ScaleAt,
           Consider(scale), UNCHANGED given
    PROVE  /\ warmSeed' \in Nat /\ warmSeed' < 2 ^ MaxTurns /\ CapsOK' /\ BestOK'
           /\ scan' \in Seq(Points) /\ Len(scan') = Len(scan) + 1
           /\ \A i \in 1..Len(scan) : scan'[i] = scan[i]
           /\ scan'[Len(scan) + 1].scale = scale
<1>0. /\ scan \in Seq(Points) /\ Len(scan) \in Nat /\ DOMAIN scan = 1..Len(scan) /\ best \in 0..Never
      /\ bestScale \in Scales /\ \A j \in DOMAIN scan : best <= scan[j].miss
  BY DEF Calibrated, PointsOK, BestOK
<1>1. bundle' = bundle /\ holdCap' = holdCap
  BY DEF given
<1>2. /\ warmSeed' \in Nat /\ warmSeed' < 2 ^ MaxTurns /\ CapsOK'
      /\ \E p \in Points :
            /\ p.scale = scale /\ scan' = Append(scan, p) /\ best' <= p.miss
            /\ \/ UNCHANGED choice
               \/ /\ p = [scale |-> bestScale', miss |-> best', cap |-> bestCap']
                  /\ Clears(bestScale', bestCap') /\ best' < best
  BY <1>1, Considers
<1>3. PICK p \in Points :
         /\ p.scale = scale /\ scan' = Append(scan, p) /\ best' <= p.miss
         /\ \/ UNCHANGED choice
            \/ /\ p = [scale |-> bestScale', miss |-> best', cap |-> bestCap']
               /\ Clears(bestScale', bestCap') /\ best' < best
  BY <1>2
<1>4. /\ scan' \in Seq(Points) /\ Len(scan') = Len(scan) + 1 /\ DOMAIN scan' = 1..(Len(scan) + 1)
      /\ \A i \in 1..Len(scan) : scan'[i] = scan[i]
      /\ scan'[Len(scan) + 1] = p
  BY <1>0, <1>3
<1>5. \A j \in DOMAIN scan : scan[j].miss \in 0..Never
  <2>1. \A j \in DOMAIN scan : scan[j] \in Points
    BY <1>0
  <2> QED BY <2>1 DEF Points
<1>6. p.miss \in 0..Never /\ p.scale \in Scales
  BY DEF Points
<1>7. BestOK'
  <2>1. CASE UNCHANGED choice
    <3>1. best' = best /\ bestScale' = bestScale /\ bestCap' = bestCap
      BY <2>1 DEF choice
    <3>2. \A j \in DOMAIN scan' : best' <= scan'[j].miss
      BY <1>0, <1>3, <1>4, <3>1
    <3>3. ASSUME best' # Never
          PROVE  \E i \in DOMAIN scan' :
                    /\ scan'[i] = [scale |-> bestScale', miss |-> best', cap |-> bestCap']
                    /\ bestCap' >= Needs(bundle', bestScale')
      <4>1. grid \in Seq(Nat) /\ grid # <<>> /\ Len(grid) \in Nat
        BY GridsHoldScales DEF Calibrated, GivenOK
      <4>2. scan # <<>>
        <5>1. CASE phase = "grid"
          BY <3>1, <3>3, <5>1, <1>0 DEF Calibrated, PhaseOK
        <5>2. CASE phase = "refine"
          BY <4>1, <5>2, <1>0 DEF Calibrated, PhaseOK
        <5> QED BY <5>1, <5>2
      <4>3. PICK i \in DOMAIN scan : /\ scan[i] = [scale |-> bestScale, miss |-> best, cap |-> bestCap]
                                     /\ Clears(bestScale, bestCap)
        BY <3>1, <3>3, <4>2 DEF Calibrated, BestOK
      <4>4. i \in DOMAIN scan' /\ scan'[i] = scan[i]
        BY <1>0, <1>4
      <4>5. bestCap' >= Needs(bundle', bestScale')
        BY <1>1, <3>1, <4>3 DEF Clears
      <4> QED BY <3>1, <4>3, <4>4, <4>5
    <3>4. best' # Never =>
             \E i \in DOMAIN scan' :
                    /\ scan'[i] = [scale |-> bestScale', miss |-> best', cap |-> bestCap']
                    /\ bestCap' >= Needs(bundle', bestScale')
      BY <3>3
    <3> QED BY <1>0, <3>1, <3>2, <3>4 DEF BestOK, Clears
  <2>2. CASE /\ p = [scale |-> bestScale', miss |-> best', cap |-> bestCap']
             /\ Clears(bestScale', bestCap') /\ best' < best
    <3>1. best' = p.miss /\ bestScale' = p.scale
      BY <2>2
    <3>2. \A j \in DOMAIN scan' : best' <= scan'[j].miss
      <4>1. TAKE j \in DOMAIN scan'
      <4>2. CASE j = Len(scan) + 1
        BY <1>3, <1>4, <4>2
      <4>3. CASE j # Len(scan) + 1
        <5>1. j \in DOMAIN scan /\ scan'[j] = scan[j]
          BY <1>0, <1>4, <4>1, <4>3
        <5>2. best <= scan[j].miss /\ scan[j].miss \in 0..Never
          BY <1>0, <1>5, <5>1
        <5> QED BY <1>0, <1>6, <2>2, <3>1, <5>1, <5>2
      <4> QED BY <4>2, <4>3
    <3>3. \E i \in DOMAIN scan' :
             /\ scan'[i] = [scale |-> bestScale', miss |-> best', cap |-> bestCap']
             /\ bestCap' >= Needs(bundle', bestScale')
      <4>1. Len(scan) + 1 \in DOMAIN scan'
        BY <1>0, <1>4
      <4>2. bestCap' >= Needs(bundle', bestScale')
        BY <1>1, <2>2 DEF Clears
      <4> QED BY <1>4, <2>2, <4>1, <4>2
    <3> QED BY <1>6, <3>1, <3>2, <3>3 DEF BestOK, Clears
  <2> QED BY <1>3, <2>1, <2>2
<1>8. scan'[Len(scan) + 1].scale = scale
  BY <1>3, <1>4
<1> QED BY <1>2, <1>4, <1>7, <1>8

\* No search is at hand.
LEMMA NoneAtHand == ASSUME clearing' = Unasked PROVE SearchOK'
<1>1. Unasked \in Clearings /\ Unasked.at = "idle"
  BY DEF Unasked, Clearings
<1> QED BY <1>1 DEF SearchOK

\* The coarse pass tries the grid in its order.
LEMMA CoarseOK == ASSUME Calibrated, TurnsSuffice, Coarse PROVE Calibrated'
<1>0. /\ phase = "grid" /\ Consider(grid[place]) /\ clearing' = Unasked
      /\ UNCHANGED <<given, winner, fellBack>>
      /\ IF place = Len(grid) THEN Goes("ranked") ELSE place' = place + 1 /\ phase' = phase
  BY DEF Coarse
<1>1. grid \in Seq(Nat) /\ Len(grid) \in Nat /\ place \in 1..Len(grid) /\ Len(scan) = place - 1 /\ Len(grid) > 1
  BY <1>0, GridsHoldScales DEF Calibrated, GivenOK, PhaseOK
<1>2. PICK scale : scale = grid[place] /\ scale = ScaleAt /\ Consider(scale)
  BY <1>0 DEF ScaleAt
<1>3. /\ warmSeed' \in Nat /\ warmSeed' < 2 ^ MaxTurns /\ CapsOK' /\ BestOK'
      /\ scan' \in Seq(Points) /\ Len(scan') = Len(scan) + 1
      /\ \A i \in 1..Len(scan) : scan'[i] = scan[i]
      /\ scan'[Len(scan) + 1].scale = scale
  <2>1. UNCHANGED given
    BY <1>0
  <2> QED BY <1>0, <1>2, <2>1, AddsPoint
<1>4. bundle' = bundle /\ grid' = grid /\ authoredCap' = authoredCap
  BY <1>0 DEF given
<1>5. GivenOK'
  BY <1>3, <1>4 DEF GivenOK, Calibrated
<1>6. Len(scan') = place /\ DOMAIN scan' = 1..place
  BY <1>1, <1>3
<1>7. PhaseOK'
  <2>1. CASE place = Len(grid)
    <3>1. phase' = "ranked"
      BY <1>0, <2>1 DEF Goes
    <3> QED BY <1>1, <1>4, <1>6, <2>1, <3>1 DEF PhaseOK
  <2>2. CASE place # Len(grid)
    <3>1. phase' = "grid" /\ place' = place + 1
      BY <1>0, <2>2
    <3> QED BY <1>1, <1>4, <1>6, <2>2, <3>1 DEF PhaseOK
  <2> QED BY <2>1, <2>2
<1>8. PointsOK'
  <2>1. ASSUME NEW i \in DOMAIN scan' PROVE scan'[i].scale = grid[i]
    <3>1. CASE i = place
      <4>1. i = Len(scan) + 1
        BY <1>1, <3>1 DEF Calibrated, PointsOK
      <4> QED BY <1>2, <1>3, <3>1, <4>1
    <3>2. CASE i # place
      <4>1. i \in 1..Len(scan) /\ i \in DOMAIN scan /\ i <= Len(grid)
        BY <1>1, <1>6, <2>1, <3>2 DEF Calibrated, PointsOK
      <4> QED BY <1>3, <4>1 DEF Calibrated, PointsOK
    <3> QED BY <3>1, <3>2
  <2> QED BY <1>3, <1>4, <2>1 DEF PointsOK
<1>9. phase' # "refine"
  BY <1>0 DEF Goes
<1>10. RoundOK'
  BY <1>1, <1>4, <1>6, <1>9 DEF RoundOK
<1> QED BY <1>0, <1>3, <1>5, <1>7, <1>8, <1>10, NoneAtHand DEF Calibrated

\* The refinement tries the four scales round the winner.
LEMMA RefineOK == ASSUME Calibrated, TurnsSuffice, Refine PROVE Calibrated'
<1>0. /\ phase = "refine" /\ Consider(RefinedScale(place)) /\ clearing' = Unasked
      /\ UNCHANGED <<given, winner, fellBack>>
      /\ IF place = Len(Factors) THEN Goes("emit") ELSE place' = place + 1 /\ phase' = phase
  BY DEF Refine
<1>1. /\ grid \in Seq(Nat) /\ Len(grid) \in Nat /\ place \in 1..4 /\ Len(scan) = Len(grid) + place - 1
      /\ Len(grid) > 1 /\ winner \in Authored
  BY <1>0, GridsHoldScales DEF Calibrated, GivenOK, PhaseOK
<1>2. PICK scale : scale = RefinedScale(place) /\ scale = ScaleAt /\ Consider(scale)
  BY <1>0 DEF ScaleAt
<1>3. /\ warmSeed' \in Nat /\ warmSeed' < 2 ^ MaxTurns /\ CapsOK' /\ BestOK'
      /\ scan' \in Seq(Points) /\ Len(scan') = Len(scan) + 1
      /\ \A i \in 1..Len(scan) : scan'[i] = scan[i]
      /\ scan'[Len(scan) + 1].scale = scale
  <2>1. UNCHANGED given
    BY <1>0
  <2> QED BY <1>0, <1>2, <2>1, AddsPoint
<1>4. bundle' = bundle /\ grid' = grid /\ authoredCap' = authoredCap /\ winner' = winner
  BY <1>0 DEF given
<1>5. GivenOK'
  BY <1>3, <1>4 DEF GivenOK, Calibrated
<1>6. Len(scan') = Len(grid) + place /\ DOMAIN scan' = 1..(Len(grid) + place) /\ DOMAIN scan = 1..Len(scan)
  BY <1>1, <1>3 DEF Calibrated, PointsOK
<1>7. Len(Factors) = 4
  BY DEF Factors
<1>8. PhaseOK'
  <2>1. CASE place = 4
    <3>1. phase' = "emit"
      BY <1>0, <1>7, <2>1 DEF Goes
    <3> QED BY <3>1 DEF PhaseOK
  <2>2. CASE place # 4
    <3>1. phase' = "refine" /\ place' = place + 1
      BY <1>0, <1>7, <2>2
    <3> QED BY <1>1, <1>4, <1>6, <2>2, <3>1 DEF PhaseOK
  <2> QED BY <2>1, <2>2
<1>9. PointsOK'
  <2>1. ASSUME NEW i \in DOMAIN scan', i <= Len(grid) PROVE scan'[i].scale = grid[i]
    <3>1. i \in 1..Len(scan) /\ i \in DOMAIN scan
      BY <1>1, <1>6, <2>1
    <3> QED BY <1>3, <2>1, <3>1 DEF Calibrated, PointsOK
  <2> QED BY <1>3, <1>4, <2>1 DEF PointsOK
<1>10. RoundOK'
  <2>1. PICK k \in DOMAIN scan :
           /\ k <= Len(grid) /\ scan[k].scale = winner /\ scan[k].miss # Never
           /\ \A j \in DOMAIN scan : j <= Len(grid) => scan[k].miss <= scan[j].miss
    BY <1>0 DEF Calibrated, RoundOK
  <2>2. \A i \in DOMAIN scan : i > Len(grid) => scan[i].scale = RefinedScale(i - Len(grid))
    BY <1>0 DEF Calibrated, RoundOK
  <2>3. k \in DOMAIN scan' /\ scan'[k] = scan[k]
    BY <1>1, <1>3, <1>6, <2>1
  <2>4. \A j \in DOMAIN scan' : j <= Len(grid) => scan'[k].miss <= scan'[j].miss
    <3>1. \A j \in DOMAIN scan' : j <= Len(grid) => j \in DOMAIN scan /\ scan'[j] = scan[j]
      BY <1>1, <1>3, <1>6
    <3> QED BY <2>1, <2>3, <3>1
  <2>5. \A i \in DOMAIN scan' : i > Len(grid) => scan'[i].scale = RefinedScale(i - Len(grid))
    <3>1. TAKE i \in DOMAIN scan'
    <3>2. CASE i = Len(scan) + 1
      <4>1. i - Len(grid) = place
        BY <1>1, <3>2
      <4> QED BY <1>2, <1>3, <3>2, <4>1
    <3>3. CASE i # Len(scan) + 1
      <4>1. i \in DOMAIN scan /\ scan'[i] = scan[i]
        BY <1>1, <1>3, <1>6, <3>3
      <4> QED BY <2>2, <4>1
    <3> QED BY <3>2, <3>3
  <2>7. \A i \in DOMAIN scan' : i > Len(grid) => scan'[i].scale = (winner' * Factors[i - Len(grid)]) \div 20
    BY <1>4, <2>5 DEF RefinedScale, Around
  <2> QED BY <1>4, <2>1, <2>3, <2>4, <2>7 DEF RoundOK, RefinedScale, Around
<1> QED BY <1>0, <1>3, <1>5, <1>8, <1>9, <1>10, NoneAtHand DEF Calibrated

\* What leaves the scan, the choice and the factors alone keeps what is known of them.
LEMMA ScanKept ==
    ASSUME Calibrated, UNCHANGED <<given, scan, choice, capByScale, warmSeed>>
    PROVE  GivenOK' /\ PointsOK' /\ BestOK' /\ CapsOK'
<1>1. /\ bundle' = bundle /\ grid' = grid /\ authoredCap' = authoredCap /\ holdCap' = holdCap
      /\ scan' = scan /\ best' = best /\ bestScale' = bestScale /\ bestCap' = bestCap
      /\ capByScale' = capByScale /\ warmSeed' = warmSeed
  BY DEF given, choice
<1>2. GivenOK'
  BY <1>1 DEF Calibrated, GivenOK
<1>3. PointsOK'
  BY <1>1 DEF Calibrated, PointsOK
<1>4. BestOK'
  BY <1>1 DEF Calibrated, BestOK, Clears
<1>5. CapsOK'
  BY <1>1 DEF Calibrated, CapsOK
<1> QED BY <1>2, <1>3, <1>4, <1>5

\* No search runs where no scale is being asked for.
LEMMA StillIdle ==
    ASSUME Calibrated, phase \notin {"storage", "single", "grid", "refine"}, clearing' = clearing
    PROVE  SearchOK'
<1>1. clearing.at = "idle" /\ clearing \in Clearings
  BY DEF Calibrated, SearchOK
<1> QED BY <1>1 DEF SearchOK

\* The scan is chosen, or one scale, or storage alone, or nothing at all.
LEMMA BeginOK == ASSUME Calibrated, Begin PROVE Calibrated'
<1>0. /\ phase = "start" /\ scan = <<>> /\ best = Never
      /\ UNCHANGED <<given, scan, choice, capByScale, warmSeed>> /\ clearing' = clearing
      /\ best' = best /\ scan' = scan /\ grid' = grid
  BY DEF Begin, Calibrated, PhaseOK, given, choice
<1>1. place' = 1 /\ phase' \in {"emit", "storage", "single", "grid"}
  BY DEF Begin, Goes
<1>2. /\ phase' = "single" => Len(grid) = 1
      /\ phase' = "grid" => Len(grid) # 1
  BY DEF Begin, Goes
<1>3. grid \in Seq(Nat) /\ grid # <<>> /\ Len(grid) \in Nat /\ Len(grid) # 0
  BY GridsHoldScales DEF Calibrated, GivenOK
<1>4. PhaseOK'
  <2>1. scan' = <<>> /\ grid' = grid /\ best' = Never
    BY <1>0
  <2>2. Len(scan') = 0
    BY <2>1
  <2>3. phase' # "refine" /\ phase' # "ranked"
    BY <1>1
  <2>4. phase' = "grid" => place' \in 1..Len(grid') /\ Len(scan') = place' - 1 /\ Len(grid') > 1
    <3>1. PICK n \in Nat : n = Len(grid) /\ n = Len(grid') /\ n # 0
      BY <1>3, <2>1
    <3>2. phase' = "grid" => n # 1
      BY <1>2, <3>1
    <3>3. phase' = "grid" => n > 1 /\ 1 \in 1..n
      BY <3>1, <3>2
    <3>4. Len(scan') = 0 /\ place' = 1 /\ 0 = 1 - 1
      BY <1>1, <2>2
    <3> QED BY <3>1, <3>3, <3>4
  <2>5. phase' = "single" => Len(grid') = 1
    BY <1>2, <2>1
  <2> QED BY <2>1, <2>3, <2>4, <2>5 DEF PhaseOK
<1>5. RoundOK'
  BY <1>0, <1>1, <1>3 DEF RoundOK
<1>6. SearchOK'
  BY <1>0, StillIdle
<1> QED BY <1>0, <1>4, <1>5, <1>6, ScanKept DEF Calibrated

\* A search opens, or learns what one run told it.
LEMMA SearchGoesOn ==
    ASSUME Calibrated, TurnsSuffice, Powers(2), Open \/ Probe PROVE Calibrated'
<1>0. /\ UNCHANGED <<given, phase, place, scan, choice, capByScale, warmSeed, winner>>
      /\ UNCHANGED <<given, scan, choice, capByScale, warmSeed>>
  BY DEF Open, Probe
<1>1. /\ phase' = phase /\ place' = place /\ scan' = scan /\ grid' = grid /\ winner' = winner
      /\ best' = best /\ bundle' = bundle /\ holdCap' = holdCap
  BY <1>0 DEF given, choice
<1>2. PhaseOK'
  BY <1>1 DEF Calibrated, PhaseOK
<1>3. RoundOK'
  BY <1>1 DEF Calibrated, RoundOK, RefinedScale, Around
<1>4. ScaleAt' = ScaleAt
  BY <1>1 DEF ScaleAt, RefinedScale, Around
<1>5. /\ phase \in {"storage", "single", "grid", "refine"} /\ ~holdCap
      /\ Needs(bundle, ScaleAt) \in Nat
  <2>1. phase \in {"storage", "single", "grid", "refine"} /\ ~holdCap
    BY DEF Open, Asking, Probe, Calibrated, SearchOK
  <2> QED BY <2>1, ScaleTried
<1>6. PICK need \in Nat : need = Needs(bundle, ScaleAt)
  BY <1>5
<1>7. CapFloor < 2 ^ MaxTurns /\ CapCeiling < 2 ^ MaxTurns
  BY DEF TurnsSuffice
<1>8. Fits(clearing', need)
  <2>1. CASE Open
    <3>1. clearing' = Opened(warmSeed) /\ warmSeed \in Nat /\ warmSeed < 2 ^ MaxTurns
      BY <2>1 DEF Open, Calibrated, GivenOK
    <3> QED BY <1>7, <3>1, OpenedFits
  <2>2. CASE Probe
    <3>1. PICK c : c = clearing
      OBVIOUS
    <3>2. /\ Fits(c, need) /\ c.at \in {"seed", "halve", "double", "narrow"}
      BY <1>6, <2>2, <3>1 DEF Probe, Calibrated, SearchOK, Clearings
    <3>3. clearing' = Tested(c, TestAt(c) >= need)
      BY <1>6, <2>2, <3>1 DEF Probe, Clears
    <3>4. Fits(Tested(c, TestAt(c) >= need), need)
      BY <1>7, <3>2, LowerFits, UpperFits
    <3> QED BY <3>3, <3>4
  <2> QED BY <2>1, <2>2
<1>9. SearchOK'
  <2>1. clearing' \in Clearings
    BY <1>8 DEF Fits
  <2>2. Fits(clearing', Needs(bundle', ScaleAt'))
    BY <1>1, <1>4, <1>6, <1>8
  <2> QED BY <1>1, <1>5, <2>1, <2>2 DEF SearchOK
<1> QED BY <1>0, <1>2, <1>3, <1>9, ScanKept DEF Calibrated

\* Storage on its own: nothing is in the scan.
LEMMA StorageOK == ASSUME Calibrated, TurnsSuffice, Storage PROVE Calibrated'
<1>0. /\ phase = "storage" /\ scan = <<>> /\ Answered /\ Solves(One, Required(One))
      /\ phase' = "emit" /\ scan' = scan /\ best' = best /\ bestScale' = bestScale
      /\ bundle' = bundle /\ grid' = grid /\ authoredCap' = authoredCap /\ holdCap' = holdCap
      /\ clearing' = Unasked
  BY DEF Storage, Goes, Calibrated, PhaseOK, given
<1>1. One = ScaleAt
  BY <1>0 DEF ScaleAt
<1>2. warmSeed' \in Nat /\ warmSeed' < 2 ^ MaxTurns /\ CapsOK'
  BY <1>0, <1>1, SolvesOK
<1>3. GivenOK'
  BY <1>0, <1>2 DEF Calibrated, GivenOK
<1>4. grid \in Seq(Nat) /\ Len(grid) \in Nat
  BY GridsHoldScales DEF Calibrated, GivenOK
<1>5. PhaseOK' /\ RoundOK'
  BY <1>0, <1>4 DEF PhaseOK, RoundOK
<1>6. PointsOK' /\ BestOK'
  BY <1>0 DEF Calibrated, PointsOK, BestOK
<1> QED BY <1>0, <1>2, <1>3, <1>5, <1>6, NoneAtHand DEF Calibrated

\* One scale: nothing is in the scan either.
LEMMA SingleOK == ASSUME Calibrated, TurnsSuffice, Single PROVE Calibrated'
<1>0. /\ phase = "single" /\ scan = <<>> /\ Len(grid) = 1
      /\ phase' = "ranked" /\ scan' = scan
      /\ bundle' = bundle /\ grid' = grid /\ authoredCap' = authoredCap /\ holdCap' = holdCap
      /\ clearing' = Unasked
  BY DEF Single, Goes, Calibrated, PhaseOK, given
<1>1. PICK scale : scale = grid[1] /\ scale = ScaleAt
  BY <1>0 DEF ScaleAt
<1>2. scale \in Scales
  BY <1>0, <1>1, ScaleTried
<1>3. warmSeed' \in Nat /\ warmSeed' < 2 ^ MaxTurns /\ CapsOK'
  <2>1. CASE Refused(scale)
    <3>1. UNCHANGED <<choice, capByScale, shortfalls, warmSeed>>
      BY <1>1, <2>1 DEF Single
    <3> QED BY <1>0, <3>1 DEF Calibrated, GivenOK, CapsOK
  <2>2. CASE ~Refused(scale)
    <3>1. Answered /\ Solves(scale, Required(scale))
      BY <1>1, <2>2 DEF Single
    <3> QED BY <1>0, <1>1, <3>1, SolvesOK
  <2> QED BY <2>1, <2>2
<1>4. best' \in 0..Never /\ bestScale' \in Scales
  <2>1. best \in 0..Never /\ bestScale \in Scales
    BY DEF Calibrated, BestOK
  <2>2. CASE UNCHANGED choice
    BY <2>1, <2>2 DEF choice
  <2>3. CASE best' = 0 /\ bestScale' = grid[1]
    <3>1. 0 \in 0..Never
      BY DEF Never
    <3> QED BY <1>1, <1>2, <2>3, <3>1
  <2> QED BY <2>2, <2>3 DEF Single
<1>5. GivenOK'
  BY <1>0, <1>3 DEF Calibrated, GivenOK
<1>6. PhaseOK' /\ RoundOK'
  BY <1>0 DEF PhaseOK, RoundOK
<1>7. PointsOK' /\ BestOK'
  BY <1>0, <1>4 DEF Calibrated, PointsOK, BestOK
<1> QED BY <1>0, <1>3, <1>5, <1>6, <1>7, NoneAtHand DEF Calibrated

\* The winner of the coarse grid is one of its points, which no other beats.
LEMMA RankedOK == ASSUME Calibrated, Ranked PROVE Calibrated'
<1>0. /\ phase = "ranked" /\ clearing' = clearing /\ winner' = bestScale /\ place' = 1
      /\ UNCHANGED <<given, scan, choice, capByScale, warmSeed>>
      /\ phase' \in {"closest", "refine", "emit"}
      /\ phase' = "refine" => best # Never /\ Len(grid) > 1
  BY DEF Ranked, Goes
<1>1. /\ scan' = scan /\ grid' = grid /\ best' = best
  BY <1>0 DEF given, choice
<1>2. grid \in Seq(Nat) /\ Len(grid) \in Nat /\ grid \in Grids
  BY GridsHoldScales DEF Calibrated, GivenOK
<1>3. Len(scan) = IF Len(grid) = 1 THEN 0 ELSE Len(grid)
  BY <1>0 DEF Calibrated, PhaseOK
<1>4. scan \in Seq(Points) /\ DOMAIN scan = 1..Len(scan)
  BY DEF Calibrated, PointsOK
<1>5. ASSUME phase' = "refine"
      PROVE  /\ bestScale \in Authored
             /\ \E k \in DOMAIN scan :
                   /\ k <= Len(grid) /\ scan[k].scale = bestScale /\ scan[k].miss # Never
                   /\ \A j \in DOMAIN scan : j <= Len(grid) => scan[k].miss <= scan[j].miss
  <2>1. best # Never /\ Len(grid) > 1 /\ Len(scan) = Len(grid) /\ scan # <<>>
    <3>1. best # Never /\ Len(grid) > 1
      BY <1>0, <1>5
    <3>2. Len(scan) = Len(grid)
      <4>1. PICK n \in Nat : n = Len(grid) /\ n > 1
        BY <1>2, <3>1
      <4>2. n # 1
        BY <4>1
      <4> QED BY <1>3, <4>1, <4>2
    <3>3. scan # <<>>
      BY <1>2, <3>1, <3>2
    <3> QED BY <3>1, <3>2, <3>3
  <2>2. PICK k \in DOMAIN scan : scan[k] = [scale |-> bestScale, miss |-> best, cap |-> bestCap]
    BY <2>1 DEF Calibrated, BestOK
  <2>3. k <= Len(grid) /\ scan[k].scale = bestScale /\ scan[k].miss = best
    BY <1>4, <2>1, <2>2
  <2>4. bestScale = grid[k]
    BY <2>3 DEF Calibrated, PointsOK
  <2>5. bestScale \in Authored
    <3>1. k \in DOMAIN grid
      BY <1>2, <1>4, <2>1
    <3>2. grid[k] \in ToSet(grid)
      BY <3>1 DEF ToSet
    <3> QED BY <1>2, <2>4, <3>2 DEF Authored
  <2>6. \A j \in DOMAIN scan : best <= scan[j].miss
    BY DEF Calibrated, BestOK
  <2> QED BY <2>1, <2>3, <2>5, <2>6
<1>6. PhaseOK'
  BY <1>0, <1>1, <1>2, <1>3, <1>5 DEF PhaseOK
<1>7. RoundOK'
  <2>1. ~(Len(scan) > Len(grid)) /\ \A i \in DOMAIN scan : ~(i > Len(grid))
    BY <1>2, <1>3, <1>4
  <2> QED BY <1>0, <1>1, <1>5, <2>1 DEF RoundOK
<1>8. SearchOK'
  BY <1>0, StillIdle
<1> QED BY <1>0, <1>6, <1>7, <1>8, ScanKept DEF Calibrated

\* What is emitted is what was chosen.
LEMMA EmitOK == ASSUME Calibrated, Emit PROVE Calibrated'
<1>0. /\ phase = "emit" /\ phase' \in {"error", "emitted"} /\ clearing' = clearing /\ winner' = winner
      /\ UNCHANGED <<given, scan, choice, capByScale, warmSeed>>
  BY DEF Emit, Goes
<1>1. scan' = scan /\ grid' = grid
  BY <1>0 DEF given
<1>2. PhaseOK'
  BY <1>0 DEF PhaseOK
<1>3. RoundOK'
  BY <1>0, <1>1 DEF Calibrated, RoundOK, RefinedScale, Around
<1>4. SearchOK'
  BY <1>0, StillIdle
<1> QED BY <1>0, <1>2, <1>3, <1>4, ScanKept DEF Calibrated

\* A behaviour starts with an empty scan and no search.
LEMMA CalibrationStarts ==
    ASSUME CalibrationGiven, CalibrationInit, TurnsSuffice PROVE CalibrationInv
<1>1. /\ phase = "start" /\ place = 1 /\ scan = <<>> /\ best = Never /\ bestScale = One
      /\ capByScale = <<>> /\ winner = One /\ fellBack = FALSE /\ clearing = Unasked
      /\ warmSeed = IF authoredCap > 2 * Whole THEN authoredCap ELSE 2 * Whole
      /\ bundle \in Bundles /\ authoredCap \in AuthoredCaps /\ grid \in Grids
  BY DEF CalibrationGiven, CalibrationInit
<1>2. authoredCap \in Nat /\ grid \in Seq(Nat) /\ Len(grid) \in Nat /\ Whole \in Nat
  BY <1>1, GridsHoldScales, FactorsAreWhole
<1>3. GivenOK
  <2>1. warmSeed \in Nat
    BY <1>1, <1>2
  <2>2. warmSeed < 2 ^ MaxTurns
    BY <1>1 DEF TurnsSuffice
  <2> QED BY <1>1, <2>1, <2>2 DEF GivenOK
<1>4. PhaseOK /\ RoundOK
  BY <1>1, <1>2 DEF PhaseOK, RoundOK
<1>5. PointsOK /\ BestOK
  BY <1>1 DEF PointsOK, BestOK, Never, Scales, Authored
<1>6. CapsOK
  BY <1>1 DEF CapsOK
<1>7. SearchOK
  BY <1>1 DEF SearchOK, Unasked, Clearings
<1> QED BY <1>1, <1>3, <1>4, <1>5, <1>6, <1>7 DEF CalibrationInv, Calibrated, EmitsNoRunaway

\* No step emits a runaway bundle.
LEMMA EmitsKept ==
    ASSUME EmitsNoRunaway, [CalibrationNext]_calibration PROVE EmitsNoRunaway'
<1>1. CASE UNCHANGED calibration
  BY <1>1 DEF calibration, EmitsNoRunaway
<1>2. CASE Open \/ Probe
  BY <1>2 DEF Open, Probe, given, choice, EmitsNoRunaway
<1>3. CASE Begin \/ Storage \/ Single \/ Ranked \/ Fallback
  BY <1>3 DEF Begin, Storage, Single, Ranked, Fallback, Goes, EmitsNoRunaway
<1>4. CASE Coarse \/ Refine
  BY <1>4 DEF Coarse, Refine, Goes, EmitsNoRunaway
<1>5. CASE Emit
  BY <1>5 DEF Emit, Goes, Refused, given, choice, EmitsNoRunaway
<1> QED BY <1>1, <1>2, <1>3, <1>4, <1>5 DEF CalibrationNext

\* Every step keeps what the calibration knows, until it falls back.
LEMMA CalibrationSteps ==
    ASSUME CalibrationInv, TurnsSuffice, Powers(2), [CalibrationNext]_calibration
    PROVE  CalibrationInv'
<1>1. EmitsNoRunaway'
  BY EmitsKept DEF CalibrationInv
<1>2. ASSUME fellBack PROVE fellBack'
  BY <1>2 DEF CalibrationNext, calibration, Begin, Open, Probe, Storage, Single, Coarse, Ranked,
              Refine, Fallback, Emit
<1>3. ASSUME ~fellBack, Calibrated PROVE fellBack' \/ Calibrated'
  <2>1. CASE UNCHANGED calibration
    <3>1. /\ UNCHANGED <<given, scan, choice, capByScale, warmSeed>>
          /\ phase' = phase /\ place' = place /\ scan' = scan /\ grid' = grid /\ winner' = winner
          /\ best' = best /\ bundle' = bundle /\ holdCap' = holdCap /\ clearing' = clearing
      BY <2>1 DEF calibration, given, choice
    <3>2. PhaseOK' /\ RoundOK'
      BY <1>3, <3>1 DEF Calibrated, PhaseOK, RoundOK, RefinedScale, Around
    <3>3. ScaleAt' = ScaleAt
      BY <3>1 DEF ScaleAt, RefinedScale, Around
    <3>4. SearchOK'
      BY <1>3, <3>1, <3>3 DEF Calibrated, SearchOK
    <3> QED BY <1>3, <3>1, <3>2, <3>4, ScanKept DEF Calibrated
  <2>2. CASE Fallback
    BY <2>2 DEF Fallback
  <2> QED BY <1>3, <2>1, <2>2, BeginOK, SearchGoesOn, StorageOK, SingleOK, CoarseOK, RankedOK,
             RefineOK, EmitOK DEF CalibrationNext
<1> QED BY <1>1, <1>2, <1>3 DEF CalibrationInv

\* What the calibration knows is that what it emits belongs together.
LEMMA CalibrationKnows == ASSUME CalibrationInv PROVE EmitsOnePair
<1>1. ASSUME Coarsely # {}
      PROVE  /\ Calibrated /\ best # Never /\ scan # <<>> /\ ~fellBack
             /\ scan \in Seq(Points) /\ DOMAIN scan = 1..Len(scan) /\ Len(grid) \in Nat
  <2>1. PICK i \in DOMAIN scan : ~fellBack /\ i <= Len(grid) /\ scan[i].miss # Never
    BY <1>1 DEF Coarsely
  <2>2. Calibrated
    BY <2>1 DEF CalibrationInv
  <2>3. scan \in Seq(Points) /\ DOMAIN scan = 1..Len(scan) /\ grid \in Seq(Nat)
    BY <2>2, GridsHoldScales DEF Calibrated, PointsOK, GivenOK
  <2>4. scan[i] \in Points /\ best <= scan[i].miss /\ best \in 0..Never
    BY <2>1, <2>2, <2>3 DEF Calibrated, BestOK
  <2>5. best # Never
    <3>1. PICK m \in 0..Never : m = scan[i].miss
      BY <2>4 DEF Points
    <3>2. PICK top \in Nat : top = Never
      BY DEF Never
    <3>3. m \in 0..top /\ m # top /\ best <= m /\ best \in 0..top
      BY <2>1, <2>4, <3>1, <3>2
    <3>4. m < top
      BY <3>3
    <3> QED BY <3>2, <3>3, <3>4
  <2> QED BY <2>1, <2>2, <2>3, <2>5
<1>2. ASSUME Coarsely # {}
      PROVE  \E i \in DOMAIN scan : /\ scan[i].scale = bestScale /\ scan[i].cap = bestCap
                                    /\ scan[i].miss = best /\ Clears(bestScale, bestCap)
                                    /\ \A j \in DOMAIN scan : scan[i].miss <= scan[j].miss
  <2>1. PICK i \in DOMAIN scan : /\ scan[i] = [scale |-> bestScale, miss |-> best, cap |-> bestCap]
                                 /\ Clears(bestScale, bestCap)
    BY <1>1, <1>2 DEF Calibrated, BestOK
  <2>2. \A j \in DOMAIN scan : best <= scan[j].miss
    BY <1>1, <1>2 DEF Calibrated, BestOK
  <2>3. scan[i].scale = bestScale /\ scan[i].cap = bestCap /\ scan[i].miss = best
    BY <2>1
  <2> QED BY <2>1, <2>2, <2>3
<1>3. EmitsTheBestPair
  BY <1>2 DEF EmitsTheBestPair, LeastMiss
<1>4. RefinesOneWinner
  <2>1. SUFFICES ASSUME Coarsely # {}
                 PROVE  \E k \in Coarsely :
                           /\ LeastMiss(Coarsely, k)
                           /\ \A i \in DOMAIN scan : i > Len(grid) =>
                                 scan[i].scale = (scan[k].scale * Factors[i - Len(grid)]) \div 20
    BY DEF RefinesOneWinner
  <2>2. CASE Len(scan) > Len(grid)
    <3>1. RoundOK
      BY <1>1, <2>1 DEF Calibrated
    <3>2. PICK k \in DOMAIN scan :
             /\ k <= Len(grid) /\ scan[k].scale = winner /\ scan[k].miss # Never
             /\ \A j \in DOMAIN scan : j <= Len(grid) => scan[k].miss <= scan[j].miss
      BY <2>2, <3>1 DEF RoundOK
    <3>3. \A i \in DOMAIN scan : i > Len(grid) =>
             scan[i].scale = (scan[k].scale * Factors[i - Len(grid)]) \div 20
      BY <2>2, <3>1, <3>2 DEF RoundOK, RefinedScale, Around
    <3>4. k \in Coarsely /\ LeastMiss(Coarsely, k)
      BY <1>1, <2>1, <3>2 DEF Coarsely, LeastMiss
    <3> QED BY <3>3, <3>4
  <2>3. CASE ~(Len(scan) > Len(grid))
    <3>1. PICK k \in DOMAIN scan :
             scan[k].miss = best /\ \A j \in DOMAIN scan : scan[k].miss <= scan[j].miss
      BY <1>2, <2>1
    <3>2. \A i \in DOMAIN scan : i <= Len(grid) /\ ~(i > Len(grid))
      BY <1>1, <2>1, <2>3
    <3>3. k \in Coarsely /\ LeastMiss(Coarsely, k)
      BY <1>1, <2>1, <3>1, <3>2 DEF Coarsely, LeastMiss
    <3> QED BY <3>2, <3>3
  <2> QED BY <2>2, <2>3
<1>5. SmallestCap
  <2>1. SUFFICES ASSUME ~holdCap, ~fellBack, NEW s \in DOMAIN capByScale
                 PROVE  /\ Clears(s, capByScale[s])
                        /\ \/ capByScale[s] = CapFloor
                           \/ ~Clears(s, capByScale[s] - (capByScale[s] \div PrecisionDen) - 1)
    BY DEF SmallestCap
  <2>2. bundle \in Bundles /\ CapsOK
    BY <2>1 DEF CalibrationInv, Calibrated, GivenOK
  <2>3. PICK cap \in Nat : cap = capByScale[s] /\ Suffices(cap, Needs(bundle, s)) /\ s \in Scales
    BY <2>1, <2>2 DEF CapsOK
  <2>4. PICK need \in Nat : need = Needs(bundle, s)
    BY <2>2, <2>3, SimulatorAnswers
  <2>5. PICK part \in Nat : part = cap \div PrecisionDen
    BY <2>3, FactorsAreWhole, WholePart
  <2>6. cap >= need /\ (cap = CapFloor \/ ~(cap - part - 1 >= need))
    BY <2>3, <2>4, <2>5 DEF Suffices
  <2> QED BY <2>3, <2>4, <2>5, <2>6 DEF Clears
<1> QED BY <1>3, <1>4, <1>5 DEF EmitsOnePair, CalibrationInv

\* calibrate.ts calibrate: for every bundle, grid and pair of options, of every simulator: no
\* bundle its own check refuses is emitted; the scale and the factor that are belong to one point
\* of the scan, which no other beats and which clears; the refinement goes round one winner of the
\* coarse grid; and no factor that was solved could be smaller by more than the precision.
THEOREM CalibrationEmitsOnePair ==
    ASSUME TurnsSuffice, Powers(2)
    PROVE  CalibrationGiven /\ CalibrationInit /\ [][CalibrationNext]_calibration => []EmitsOnePair
<1>1. CalibrationGiven /\ CalibrationInit => CalibrationInv
  BY CalibrationStarts
<1>2. CalibrationInv /\ [CalibrationNext]_calibration => CalibrationInv'
  BY CalibrationSteps
<1>3. CalibrationInv => EmitsOnePair
  BY CalibrationKnows
<1> QED BY <1>1, <1>2, <1>3, PTL
=============================================================================
