------------------------------ MODULE Clearing ------------------------------
(***************************************************************************)
(* apps/sim/src/calibrate.ts: smallestClearing, one test at a time, as a   *)
(* record like the one of Bisection. Values are whole units, of which      *)
(* Whole make one.                                                         *)
(***************************************************************************)
EXTENDS Integers

CONSTANTS
    Whole,
    CapFloor,          \* floor, in units
    CapCeiling,        \* MAX_CAP_PER_TIER, in units
    MaxTurns,          \* maxExpansions and maxIterations
    PrecisionDen       \* precision = 1 / PrecisionDen

ASSUME FactorsAreWhole ==
    /\ Whole \in Nat /\ CapFloor \in Nat \ {0} /\ CapCeiling \in Nat
    /\ MaxTurns \in Nat /\ PrecisionDen \in Nat \ {0}

Opened(seed) ==
    [at |-> "seed", good |-> 0, bad |-> CapFloor, turns |-> 0, cleared |-> FALSE,
     value |-> IF seed > CapFloor THEN seed ELSE CapFloor]

Closed(c, value, cleared) == [c EXCEPT !.at = "done", !.value = value, !.cleared = cleared]

Close(c) == (c.good - c.bad) * PrecisionDen <= c.good

Narrow(c) ==
    IF c.turns = MaxTurns \/ Close(c) THEN Closed(c, c.good, TRUE) ELSE [c EXCEPT !.at = "narrow"]

Halved(c) == IF c.good \div 2 > CapFloor THEN c.good \div 2 ELSE CapFloor

Halve(c) ==
    IF c.turns = MaxTurns \/ Halved(c) = c.good THEN Narrow([c EXCEPT !.turns = 0])
    ELSE [c EXCEPT !.at = "halve"]

Double(c) ==
    IF c.turns = MaxTurns \/ c.bad * 2 > CapCeiling THEN Closed(c, c.bad, FALSE)
    ELSE [c EXCEPT !.at = "double"]

TestAt(c) ==
    CASE c.at = "seed"   -> c.value
      [] c.at = "halve"  -> Halved(c)
      [] c.at = "double" -> c.bad * 2
      [] c.at = "narrow" -> (c.good + c.bad) \div 2

AfterTest(c, x, cleared) ==
    CASE c.at \in {"seed", "halve"} /\ cleared ->
            IF x <= CapFloor THEN Closed(c, CapFloor, TRUE)
            ELSE Halve([c EXCEPT !.good = x, !.turns = IF c.at = "seed" THEN 0 ELSE @ + 1])
      [] c.at = "seed" /\ ~cleared -> Double([c EXCEPT !.bad = x])
      [] c.at = "halve" /\ ~cleared -> Narrow([c EXCEPT !.bad = x, !.turns = 0])
      [] c.at = "double" /\ cleared -> Narrow([c EXCEPT !.good = x, !.turns = 0])
      [] c.at = "double" /\ ~cleared -> Double([c EXCEPT !.bad = x, !.turns = @ + 1])
      [] c.at = "narrow" ->
            Narrow([c EXCEPT !.good = IF cleared THEN x ELSE @, !.bad = IF cleared THEN @ ELSE x,
                             !.turns = @ + 1])

Tested(c, cleared) == AfterTest(c, TestAt(c), cleared)
=============================================================================
