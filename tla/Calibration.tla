---------------------------- MODULE Calibration ----------------------------
(***************************************************************************)
(* apps/sim/src/calibrate.ts: calibrate, the scan of r_eff scales with a   *)
(* storage factor solved for each, a run of the game at a time             *)
(* (smallestClearing, module Clearing).                                    *)
(* What the simulator says of a bundle is given by three functions of the  *)
(* scale: the smallest factor that clears every target, the miss of the    *)
(* curve once its amounts are fitted, and whether the content check calls  *)
(* it runaway. Scales are whole, of which One is the bundle as authored.   *)
(***************************************************************************)
EXTENDS Clearing, Sequences, SequencesExt

CONSTANTS
    One,
    Grids,             \* rEffScales: sequences of scales
    Bundles,
    Needs(_, _),       \* bundle, scale -> the smallest factor that clears, in units
    Miss(_, _),        \* bundle, scale -> whole
    Runaway(_, _),     \* bundle, scale -> BOOLEAN
    AuthoredCaps       \* storage.capPerTier as authored, in units

VARIABLES
    bundle, authoredCap, grid,
    solveREff, holdCap, refine,            \* options (authorsREff is solveREff's)
    phase, place,                          \* where calibrate stands, and which point is next
    scan,                                  \* the points tried: [scale, miss, cap]
    best, bestScale, bestCap,
    capByScale, shortfalls, warmSeed,
    winner,                                \* coarseWinner
    fellBack,                              \* nothing cleared, and the closest was forced
    clearing                               \* smallestClearing, while one runs

calibration == <<bundle, authoredCap, grid, solveREff, holdCap, refine, phase, place, scan, best,
                 bestScale, bestCap, capByScale, shortfalls, warmSeed, winner, fellBack, clearing>>
given == <<bundle, authoredCap, grid, solveREff, holdCap, refine>>
choice == <<best, bestScale, bestCap>>

Never == 100000
NoCap == -1
Unasked == [at |-> "idle", good |-> 0, bad |-> 0, turns |-> 0, cleared |-> FALSE, value |-> 0]

\* REFINEMENT_FACTORS: 0.6, 0.8, 1.25, 1.6
Factors == <<12, 16, 25, 32>>

\* The scales that are ever tried.
Authored == {One} \cup UNION {ToSet(g) : g \in Grids}
Scales == Authored \cup {(s * Factors[i]) \div 20 : s \in Authored, i \in 1..4}

ASSUME GridsHoldScales == One \in Nat /\ Grids \subseteq Seq(Nat) \ {<<>>} /\ AuthoredCaps \subseteq Nat
ASSUME SimulatorAnswers ==
    \A b \in Bundles, s \in Scales :
       Needs(b, s) \in Nat /\ Miss(b, s) \in 0..Never /\ Runaway(b, s) \in BOOLEAN

CalibrationGiven ==
    /\ bundle \in Bundles /\ authoredCap \in AuthoredCaps /\ grid \in Grids
    /\ solveREff \in BOOLEAN /\ holdCap \in BOOLEAN /\ refine \in BOOLEAN

CalibrationInit ==
    /\ phase = "start" /\ place = 1 /\ scan = <<>>
    /\ best = Never /\ bestScale = One /\ bestCap = authoredCap
    /\ capByScale = <<>> /\ shortfalls = <<>>
    /\ warmSeed = IF authoredCap > 2 * Whole THEN authoredCap ELSE 2 * Whole
    /\ winner = One /\ fellBack = FALSE /\ clearing = Unasked

\* checkRunawayGrowth on the bundle at that scale
Refused(scale) == Runaway(bundle, scale)

Clears(scale, cap) == cap >= Needs(bundle, scale)

\* How far a report falls short, summed.
Shortfall(scale, cap) == Needs(bundle, scale) - cap

Around == winner

RefinedScale(i) == (Around * Factors[i]) \div 20

\* The scale whose factor is being asked for: requiredCap's parameter.
ScaleAt ==
    CASE phase = "storage" -> One
      [] phase = "single"  -> grid[1]
      [] phase = "grid"    -> grid[place]
      [] phase = "refine"  -> RefinedScale(place)

\* requiredCap's answer, with what it leaves behind; the answer NoCap is null.
Required(scale) ==
    IF holdCap
    THEN [cap |-> IF Clears(scale, authoredCap) THEN authoredCap ELSE NoCap, tried |-> authoredCap]
    ELSE [cap |-> IF clearing.cleared THEN clearing.value ELSE NoCap, tried |-> clearing.value]

\* A factor that is held is tried at once; one that is solved is there when the search ends.
Answered == holdCap \/ clearing.at = "done"

Put(f, scale, v) == [s \in DOMAIN f \cup {scale} |-> IF s = scale THEN v ELSE f[s]]

\* A point whose cap was solved, or was not.
Solves(scale, answer) ==
    /\ warmSeed' = IF holdCap \/ answer.cap = NoCap THEN warmSeed ELSE answer.cap
    /\ shortfalls' = IF answer.cap = NoCap
                     THEN Put(shortfalls, scale, Shortfall(scale, answer.tried)) ELSE shortfalls
    /\ capByScale' = IF answer.cap = NoCap THEN capByScale ELSE Put(capByScale, scale, answer.cap)

Point(scale, miss, cap) == scan' = Append(scan, [scale |-> scale, miss |-> miss, cap |-> cap])

\* Mutant of Kept: the cap of the winner is whichever was solved last.
KeptScale(scale, cap) == best' = Miss(bundle, scale) /\ bestScale' = scale /\ bestCap' = warmSeed

Kept(scale, cap) == best' = Miss(bundle, scale) /\ bestScale' = scale /\ bestCap' = cap

Better(miss) == miss < best

Scored(scale, cap) ==
    /\ Point(scale, Miss(bundle, scale), cap)
    /\ IF Better(Miss(bundle, scale)) THEN Kept(scale, cap) ELSE UNCHANGED choice

\* consider
Consider(scale) ==
    IF Refused(scale)
    THEN Point(scale, Never, NoCap) /\ UNCHANGED <<choice, capByScale, shortfalls, warmSeed>>
    ELSE /\ Answered /\ Solves(scale, Required(scale))
         /\ IF Required(scale).cap = NoCap THEN Point(scale, Never, NoCap) /\ UNCHANGED choice
            ELSE Scored(scale, Required(scale).cap)

Goes(where) == phase' = where /\ place' = 1

\* A scale the content check refuses is not asked about; storage on its own is not checked.
Asking ==
    /\ phase \in {"storage", "single", "grid", "refine"} /\ ~holdCap
    /\ phase # "storage" => ~Refused(ScaleAt)

Open ==
    /\ Asking /\ clearing = Unasked
    /\ clearing' = Opened(warmSeed)
    /\ UNCHANGED <<given, phase, place, scan, choice, capByScale, shortfalls, warmSeed, winner, fellBack>>

\* One run of the game up to its ceilings.
Probe ==
    /\ clearing.at \notin {"idle", "done"}
    /\ clearing' = Tested(clearing, Clears(ScaleAt, TestAt(clearing)))
    /\ UNCHANGED <<given, phase, place, scan, choice, capByScale, shortfalls, warmSeed, winner, fellBack>>

Begin ==
    /\ phase = "start"
    /\ Goes(IF ~solveREff THEN IF holdCap THEN "emit" ELSE "storage"
            ELSE IF Len(grid) = 1 THEN "single" ELSE "grid")
    /\ UNCHANGED <<given, scan, choice, capByScale, shortfalls, warmSeed, winner, fellBack, clearing>>

\* No scan: storage is solved on its own.
Storage ==
    /\ phase = "storage" /\ Answered
    /\ Solves(One, Required(One))
    /\ bestCap' = IF Required(One).cap = NoCap THEN bestCap ELSE Required(One).cap
    /\ Goes("emit")
    /\ clearing' = Unasked
    /\ UNCHANGED <<given, scan, best, bestScale, winner, fellBack>>

\* One scale: nothing to rank, and no point in the scan.
Single ==
    /\ phase = "single"
    /\ IF Refused(grid[1]) THEN UNCHANGED <<choice, capByScale, shortfalls, warmSeed>>
       ELSE /\ Answered /\ Solves(grid[1], Required(grid[1]))
            /\ IF Required(grid[1]).cap = NoCap THEN UNCHANGED choice
               ELSE best' = 0 /\ bestScale' = grid[1] /\ bestCap' = Required(grid[1]).cap
    /\ Goes("ranked") /\ clearing' = Unasked
    /\ UNCHANGED <<given, scan, winner, fellBack>>

Coarse ==
    /\ phase = "grid"
    /\ Consider(grid[place])
    /\ IF place = Len(grid) THEN Goes("ranked") ELSE place' = place + 1 /\ phase' = phase
    /\ clearing' = Unasked
    /\ UNCHANGED <<given, winner, fellBack>>

Ranked ==
    /\ phase = "ranked"
    /\ winner' = bestScale
    /\ Goes(IF best = Never THEN "closest"
            ELSE IF refine /\ Len(grid) > 1 THEN "refine" ELSE "emit")
    /\ UNCHANGED <<given, scan, choice, capByScale, shortfalls, warmSeed, fellBack, clearing>>

Refine ==
    /\ phase = "refine"
    /\ Consider(RefinedScale(place))
    /\ IF place = Len(Factors) THEN Goes("emit") ELSE place' = place + 1 /\ phase' = phase
    /\ clearing' = Unasked
    /\ UNCHANGED <<given, winner, fellBack>>

\* The first of the least shortfalls, in the order they were recorded.
Closest ==
    LET short == SelectSeq(grid, LAMBDA s : s \in DOMAIN shortfalls)
    IN  IF short = <<>> THEN bestScale
        ELSE FoldLeft(LAMBDA c, s : IF shortfalls[s] < shortfalls[c] THEN s ELSE c, short[1], short)

FallbackCap == IF Closest \in DOMAIN capByScale THEN capByScale[Closest] ELSE warmSeed

\* Nothing cleared: fit the scale that came closest, forced.
Fallback ==
    /\ phase = "closest"
    /\ capByScale' = Put(capByScale, Closest, FallbackCap)
    /\ bestCap' = FallbackCap /\ bestScale' = Closest
    /\ IF Refused(Closest) THEN Point(Closest, Never, NoCap) /\ best' = best
       ELSE Point(Closest, Miss(bundle, Closest), FallbackCap) /\ best' = Miss(bundle, Closest)
    /\ fellBack' = TRUE /\ Goes("emit")
    /\ UNCHANGED <<given, shortfalls, warmSeed, winner, clearing>>

\* score(bestScale, scaled, false): a refused scale is an error, and nothing is written.
Emit ==
    /\ phase = "emit"
    /\ Goes(IF Refused(bestScale) THEN "error" ELSE "emitted")
    /\ UNCHANGED <<given, scan, choice, capByScale, shortfalls, warmSeed, winner, fellBack, clearing>>

CalibrationNext ==
    \/ Begin \/ Open \/ Probe \/ Storage \/ Single \/ Coarse
    \/ Ranked \/ Refine \/ Fallback \/ Emit

----------------------------------------------------------------------------

\* calibrate.ts:778-782: "a calibrator that emits content its own validator rejects is worse
\* than one that fails outright": whatever the grid, the refinement and the fallback chose.
EmitsNoRunaway == phase = "emitted" => ~Runaway(bundle, bestScale)

Coarsely == {i \in DOMAIN scan : ~fellBack /\ i <= Len(grid) /\ scan[i].miss # Never}
LeastMiss(points, i) == \A j \in points : scan[j].miss # Never => scan[i].miss <= scan[j].miss

\* calibrate.ts:816-828: every scale gets its own factor. What is emitted is the pair of one
\* point of the scan that no other point beats, and its factor clears at that scale.
EmitsTheBestPair ==
    (phase = "emitted" /\ Coarsely # {}) =>
       \E i \in DOMAIN scan :
          /\ scan[i].scale = bestScale /\ scan[i].cap = bestCap
          /\ LeastMiss(DOMAIN scan, i) /\ Clears(bestScale, bestCap)

\* calibrate.ts:988-994: the refinement goes round the winner of the coarse grid; it does not
\* walk as its own points win.
RefinesOneWinner ==
    Coarsely # {} =>
       \E w \in Coarsely :
          /\ LeastMiss(Coarsely, w)
          /\ \A i \in DOMAIN scan :
                i > Len(grid) => scan[i].scale = (scan[w].scale * Factors[i - Len(grid)]) \div 20

\* calibrate.ts:505-515: a solved factor clears, and one smaller by the precision does not,
\* whichever answer of another scale the search started from.
SmallestCap ==
    (~holdCap /\ ~fellBack) =>
       \A s \in DOMAIN capByScale :
          /\ Clears(s, capByScale[s])
          /\ \/ capByScale[s] = CapFloor
             \/ ~Clears(s, capByScale[s] - (capByScale[s] \div PrecisionDen) - 1)

\* calibrate.ts:527-528: turns enough to halve any factor the search may start from, or reach,
\* down to the floor.
TurnsSuffice ==
    /\ 2 * Whole < 2 ^ MaxTurns /\ CapCeiling < 2 ^ MaxTurns /\ CapFloor < 2 ^ MaxTurns
    /\ \A cap \in AuthoredCaps : cap < 2 ^ MaxTurns

\* calibrate.ts:683: "Set false to hold the storage tier factor where the bundle authored it."
\* The code does not hold it; no run checks it.
CapHeld == (holdCap /\ phase = "emitted") => bestCap = authoredCap

\* calibrate.ts:907: "no capPerTier up to ${MAX_CAP_PER_TIER} clears"
\* The code does not hold it; no run checks it.
NoneUpToTheCeiling == \A s \in DOMAIN shortfalls : holdCap \/ ~Clears(s, CapCeiling)

\* calibrate.ts calibrate: the scale and the factor that are emitted belong together, beat every
\* other point, clear, and pass the bundle's own validation.
EmitsOnePair == EmitsNoRunaway /\ EmitsTheBestPair /\ RefinesOneWinner /\ SmallestCap
=============================================================================
