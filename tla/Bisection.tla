----------------------------- MODULE Bisection -----------------------------
(***************************************************************************)
(* apps/sim/src/calibrate.ts: bisectMonotone and refine, one evaluation at *)
(* a time. A search is a record; ProbeAt is the input it evaluates next    *)
(* and Learned the search once that input measured y. Inputs are whole     *)
(* multiples of a unit small enough that every quarter and every half the  *)
(* search takes is whole. A run that never got there measures Infinity.    *)
(***************************************************************************)
EXTENDS Integers

CONSTANTS
    SeedAt,            \* seed 1, in units
    MaxExpansions,
    MaxIterations,
    BracketDen,        \* minBracketRatio = 1 / BracketDen
    TolNum, TolDen     \* tolerance = TolNum / TolDen

\* calibrate.ts:58-70, 82-86: the options; minBracketRatio and tolerance are fractions.
ASSUME Options ==
    /\ SeedAt \in Nat \ {0} /\ MaxExpansions \in Nat /\ MaxIterations \in Nat
    /\ BracketDen \in Nat /\ TolNum \in Nat /\ TolDen \in Nat \ {0}

Infinity == 100000

Distance(y, target) == IF y > target THEN y - target ELSE target - y

IsHit(y, target) == y < Infinity /\ Distance(y, target) * TolDen <= TolNum * target

Started(target, floor) ==
    [at |-> "seed", target |-> target, floor |-> floor, x |-> SeedAt, y |-> Infinity,
     lo |-> 0, hi |-> 0, best |-> Infinity, turns |-> 0, evaluations |-> 0, converged |-> FALSE]

Ended(s, x, y, hit) == [s EXCEPT !.at = "done", !.x = x, !.y = y, !.converged = hit]

\* The loops end without an answer of their own: x and y are the best so far.
GaveUp(s) == Ended(s, s.x, s.y, FALSE)

\* A bracket that has collapsed, or the last split.
Split(s) ==
    IF s.turns = MaxIterations \/ (s.hi - s.lo) * BracketDen <= s.hi THEN GaveUp(s)
    ELSE [s EXCEPT !.at = "split"]

Expand(s, at) == IF s.turns = MaxExpansions THEN GaveUp(s) ELSE [s EXCEPT !.at = at]

\* The floor is not probed from at or below it.
Down(s) == IF s.x <= s.floor THEN GaveUp(s) ELSE [s EXCEPT !.at = "floor", !.turns = 0]

ProbeAt(s) ==
    CASE s.at = "seed"  -> s.x
      [] s.at = "up"    -> s.x * 4
      [] s.at = "floor" -> s.floor
      [] s.at = "down"  -> s.x \div 4
      [] s.at = "split" -> (s.lo + s.hi) \div 2

\* refine's bracket; its fallback is the last input outside it that was tried.
Bracketed(s, x) ==
    [s EXCEPT !.lo = IF x < s.x THEN x ELSE s.x, !.hi = IF x < s.x THEN s.x ELSE x, !.turns = 0]

\* Mutant of FloorEnds: a hit at the floor ends the walk before it starts.
FloorEndsOnHit(s, y) == y >= s.target \/ IsHit(y, s.target)

FloorEnds(s, y) == ~IsHit(y, s.target) /\ y > s.target

Nearer(s, y) == y < Infinity /\ Distance(y, s.target) < s.best

Refined(s, x, y) ==
    Split([s EXCEPT !.x = IF Nearer(s, y) THEN x ELSE s.x,
                    !.y = IF Nearer(s, y) THEN y ELSE s.y,
                    !.best = IF Nearer(s, y) THEN Distance(y, s.target) ELSE s.best,
                    !.lo = IF y < s.target THEN x ELSE s.lo,
                    !.hi = IF y < s.target THEN s.hi ELSE x,
                    !.turns = @ + 1])

Judged(s, x, y) ==
    CASE s.at = "floor" /\ FloorEnds(s, y) -> Ended(s, x, y, FALSE)
      [] s.at = "floor" /\ ~FloorEnds(s, y) -> Expand(s, "down")
      [] s.at # "floor" /\ IsHit(y, s.target) -> Ended(s, x, y, TRUE)
      [] s.at = "split" /\ ~IsHit(y, s.target) -> Refined(s, x, y)
      [] s.at = "seed" /\ ~IsHit(y, s.target) ->
            IF y < s.target THEN Expand([s EXCEPT !.y = y], "up") ELSE Down([s EXCEPT !.y = y])
      [] s.at = "up" /\ ~IsHit(y, s.target) ->
            IF y > s.target THEN Split(Bracketed(s, x))
            ELSE Expand([s EXCEPT !.x = x, !.y = y, !.turns = @ + 1], "up")
      [] s.at = "down" /\ ~IsHit(y, s.target) ->
            IF y < s.target THEN Split(Bracketed(s, x))
            ELSE Expand([s EXCEPT !.x = x, !.y = y, !.turns = @ + 1], "down")

\* evaluate counts, and then the search decides.
Learned(s, y) == Judged([s EXCEPT !.evaluations = @ + 1], ProbeAt(s), y)
=============================================================================
