----------------------------- MODULE Staircase -----------------------------
(***************************************************************************)
(* bisectMonotone on what it is made for: a non-decreasing measure of a    *)
(* whole-unit amount, asked for through a factor.                          *)
(***************************************************************************)
EXTENDS Bisection, Sequences

CONSTANTS
    Top,               \* amounts above it never get there
    Readings,          \* what a run may measure
    Bases              \* amounts at factor 1

\* calibrate.ts:58-70: inputs and measurements are amounts and times, never negative.
ASSUME StairsAreWhole == Top \in Nat /\ Readings \subseteq Nat /\ Bases \subseteq Nat \ {0}

VARIABLES
    stair,             \* amount -> reading
    atOne,             \* the amount at factor 1
    seek,              \* the record of Bisection
    tried              \* <<input, reading>> of every evaluation

staircase == <<stair, atOne, seek, tried>>

Rises(f) == \A a \in 2..Top : f[a - 1] <= f[a]

StaircaseInit(wanted) ==
    /\ stair \in {f \in [1..Top -> Readings] : Rises(f)}
    /\ atOne \in Bases
    /\ \E t \in wanted : seek = Started(t, SeedAt \div atOne)
    /\ tried = {}

Amount(x) ==
    LET whole == (2 * atOne * x + SeedAt) \div (2 * SeedAt) IN IF whole < 1 THEN 1 ELSE whole

Reading(x) == IF Amount(x) > Top THEN Infinity ELSE stair[Amount(x)]

StaircaseNext ==
    /\ seek.at # "done"
    /\ seek' = Learned(seek, Reading(ProbeAt(seek)))
    /\ tried' = tried \cup {<<ProbeAt(seek), Reading(ProbeAt(seek))>>}
    /\ UNCHANGED <<stair, atOne>>

----------------------------------------------------------------------------

\* calibrate.ts:72-82: the search converges exactly when some whole amount lands within the
\* tolerance, wherever the seed lies, however the bracket was found, through the floor's probe
\* and readings that never got there.
NoHitMissed ==
    seek.at = "done" => (seek.converged <=> \E a \in 1..Top : IsHit(stair[a], seek.target))

\* What is reported of an input is what that input measured, and a hit when it says so.
AnswerMeasured ==
    seek.at = "done" => seek.y = Reading(seek.x) /\ (seek.converged => IsHit(seek.y, seek.target))

\* The loop invariant of refine: its ends were tried, the lower measured below the target and
\* the upper above it, and every amount that would be an answer lies strictly between them.
BracketHolds ==
    seek.at = "split" =>
       /\ <<seek.lo, Reading(seek.lo)>> \in tried /\ Reading(seek.lo) < seek.target
       /\ <<seek.hi, Reading(seek.hi)>> \in tried /\ Reading(seek.hi) > seek.target
       /\ \A a \in 1..Top : IsHit(stair[a], seek.target) => Amount(seek.lo) < a /\ a < Amount(seek.hi)

\* calibrate.ts:79-81, "report the closest step and say it did not converge".
\* The code does not hold it; no run checks it.
ClosestStep ==
    (seek.at = "done" /\ ~seek.converged) =>
       \A p \in tried : Distance(seek.y, seek.target) <= Distance(p[2], seek.target)

\* calibrate.ts:85-87, 1110, 1246: turns, splits and a smallest bracket large enough for the
\* amounts there are, in units fine enough for them.
BoundsSuffice ==
    /\ Top <= 4 ^ MaxExpansions /\ 4 * Top + 5 <= BracketDen
    /\ \A b \in Bases : /\ b <= 4 ^ MaxExpansions /\ 4 * b <= SeedAt
                        /\ (3 * Top + 2) * SeedAt <= 2 ^ MaxIterations * (SeedAt - b)

\* calibrate.ts refine: the search never brackets an answer away.
SearchFinds == NoHitMissed /\ AnswerMeasured /\ BracketHolds
=============================================================================
