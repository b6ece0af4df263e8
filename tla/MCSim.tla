------------------------------- MODULE MCSim -------------------------------
(***************************************************************************)
(* The simulator's tools, side by side: a behaviour is one of them, chosen *)
(* at the start, while the others keep one initial state.                  *)
(***************************************************************************)
EXTENDS Staircase, Amounts, Calibration, Gate, Policies, TLC

VARIABLE part

vars == <<part, staircase, amounts, calibration, pool, policies>>

\* A warehouse that grows with the tier; machines that get dearer.
MCCapAt(t) == 9 + 4 * t
MCCostOf(m) == 2 * m * m

\* How much a factor must be at scale One, where it never clears, the scale of the least
\* miss, and the scale at or below which the content check calls the bundle runaway.
MCBundles == [hard : {25, 70, 130, 420, 900}, cut : {1, 30}, ideal : {13, 33, 60},
              floor : {0, 10, 20, 200}]
MCNeeds(b, s) == IF s < b.cut THEN Never ELSE (b.hard * One) \div s
MCMiss(b, s) == IF s > b.ideal THEN s - b.ideal ELSE b.ideal - s
MCRunaway(b, s) == s <= b.floor
MCGrids == {<<10, 20, 40>>, <<20>>, <<40, 80>>, <<10>>}

MCGates == << [policy |-> "greedy", untilTier |-> 2, reachesTier |-> 0, pins |-> (2 :> 16)],
              [policy |-> "casual", untilTier |-> 2, reachesTier |-> 1, pins |-> (1 :> 14)] >>
MCTargets == <<10, 12>>
MCReports ==
    [reached : {0}, times : {<<>>}, stalled : {TRUE}, dead : {3}, runaway : {FALSE}]
    \cup [reached : {1}, times : {<<10>>, <<14>>, <<11>>}, stalled : BOOLEAN, dead : {1, 3},
          runaway : {FALSE}]
    \cup [reached : {2}, times : {<<10, 16>>, <<14, 17>>, <<10, 13>>}, stalled : {FALSE}, dead : {1, 3},
          runaway : {FALSE}]
    \cup [reached : {2}, times : {<<10, 16>>}, stalled : {FALSE}, dead : {1}, runaway : {TRUE}]

\* Recipe c is live from the tier whose milestone asks for it twice.
MCLiveFrom == "a" :> 0 @@ "b" :> 0 @@ "c" :> 1
MCRequires == << <<"b">>, <<"c", "a", "c">> >>
MCOrder == <<"a", "b", "c">>
MCMachinePrice(n) == 1 + n \div 2
MCLevelPrice(n) == 2 + n

ASSUME TurnsAreEnough == BoundsSuffice /\ TurnsSuffice

StaircaseOff == stair = [a \in 1..Top |-> 1] /\ atOne = 1 /\ seek = Started(1, 1) /\ tried = {}
AmountsOff == authored = [t \in 1..Tiers |-> 1] /\ targets = [t \in 1..Tiers |-> 4 * t]
AmountsOn ==
    /\ authored \in [1..Tiers -> {1, 3, 6, 9}]
    /\ \E a \in {4, 6, 9, 14}, d \in {0, 3, 8}, e \in {3, 8} : targets = <<a, a + d, a + d + e>>
CalibrationOff ==
    /\ bundle = [hard |-> 25, cut |-> 1, ideal |-> 13, floor |-> 0] /\ authoredCap = Whole
    /\ grid = <<20>> /\ solveREff = FALSE /\ holdCap = FALSE /\ refine = FALSE

Init ==
    /\ part \in {"staircase", "amounts", "calibration", "gate", "policies"}
    /\ IF part = "staircase" THEN StaircaseInit({6}) ELSE StaircaseOff
    /\ (IF part = "amounts" THEN AmountsOn ELSE AmountsOff) /\ AmountsInit
    /\ IF part = "calibration" THEN CalibrationGiven ELSE CalibrationOff
    /\ CalibrationInit
    /\ IF part = "gate" THEN says \in [Jobs -> Reports] ELSE says = [j \in Jobs |-> NoReport]
    /\ GateInit(IF part = "gate" THEN "running" ELSE "off")
    /\ policy \in (IF part = "policies" THEN Names ELSE {"greedy"}) /\ PoliciesInit

StaircaseSteps ==
    part = "staircase" /\ StaircaseNext /\ UNCHANGED <<part, amounts, calibration, pool, policies>>
AmountsSteps ==
    part = "amounts" /\ AmountsNext /\ UNCHANGED <<part, staircase, calibration, pool, policies>>
CalibrationSteps ==
    part = "calibration" /\ CalibrationNext /\ UNCHANGED <<part, staircase, amounts, pool, policies>>
GateSteps ==
    part = "gate" /\ GateNext /\ UNCHANGED <<part, staircase, amounts, calibration, policies>>
PoliciesSteps ==
    part = "policies" /\ PoliciesNext /\ UNCHANGED <<part, staircase, amounts, calibration, pool>>

Next == StaircaseSteps \/ AmountsSteps \/ CalibrationSteps \/ GateSteps \/ PoliciesSteps

Spec == Init /\ [][Next]_vars /\ GateFairness
=============================================================================
