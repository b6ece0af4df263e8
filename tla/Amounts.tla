------------------------------ MODULE Amounts ------------------------------
(***************************************************************************)
(* apps/sim/src/calibrate.ts: calibrateAmounts and tierCeilings over the   *)
(* simulator of Playthrough. Tier by tier, the amount of the tier's        *)
(* milestone is searched by Bisection, each try a run from the checkpoint  *)
(* of the tier before. One action is one try of the search, or the         *)
(* confirming run that ends a tier.                                        *)
(***************************************************************************)
EXTENDS Bisection, Playthrough

CONSTANTS
    Tiers,             \* 1..Tiers have a target and a milestone
    Overrun            \* overrunBudget

VARIABLES
    authored,          \* tier -> amount in the bundle as authored
    targets,           \* tier -> ticks
    working,           \* tier -> amount, with every tier so far at its solved value
    tier,              \* the one being solved
    checkpoint,        \* where its runs start
    search,            \* the record of Bisection
    measured,          \* amount -> what its run measured
    report             \* the tiers done: [tier, target, observed, converged, evaluations]

amounts == <<authored, targets, working, tier, checkpoint, search, measured, report>>

AtStart == [tier |-> 0, world |-> NewWorld, now |-> 0]

\* Math.max(1, Math.round(amount * factor))
Rounded(amount, factor) == Most(1, (2 * amount * factor + SeedAt) \div (2 * SeedAt))

\* amountsFloor, in units: the largest at which no amount rounds to more than 1.
AmountsFloor(amount) == SeedAt \div amount

SearchFor(t, requires) == Started(targets[t], AmountsFloor(requires[t]))

AmountsInit ==
    /\ working = authored
    /\ tier = 1 /\ checkpoint = AtStart
    /\ search = SearchFor(1, authored)
    /\ measured = <<>> /\ report = <<>>

PreviousTarget == IF tier = 1 THEN 0 ELSE targets[tier - 1]

Deadline == checkpoint.now + (targets[tier] - PreviousTarget) * Overrun

\* withMilestonesUpTo
UpTo(requires, t) == [k \in (DOMAIN requires) \cap (1..t) |-> requires[k]]

RunAt(requires, t) ==
    Simulated(checkpoint.world, checkpoint.now, UpTo(requires, t), t, Deadline, 0)

\* At the tier below: the player banks toward tier t while on t - 1.
Unsatisfiable(amount, t) == amount > CapAt(t - 1)

Measure(run, t) == IF TimeOf(run, t) < 0 THEN Infinity ELSE TimeOf(run, t)

Try(amount) ==
    LET y == IF amount \in DOMAIN measured THEN measured[amount]
             ELSE IF Unsatisfiable(amount, tier) THEN Infinity
             ELSE Measure(RunAt([working EXCEPT ![tier] = amount], tier), tier)
    IN  /\ search' = Learned(search, y)
        /\ measured' = IF amount \in DOMAIN measured \/ Unsatisfiable(amount, tier) THEN measured
                       ELSE [a \in DOMAIN measured \cup {amount} |->
                                IF a = amount THEN y ELSE measured[a]]
        /\ UNCHANGED <<authored, targets, working, tier, checkpoint, report>>

Searching ==
    /\ tier <= Tiers /\ search.at # "done"
    /\ Try(Rounded(working[tier], ProbeAt(search)))

Solved == [working EXCEPT ![tier] = Rounded(@, search.x)]

Row(observed) ==
    [tier |-> tier, target |-> targets[tier], observed |-> observed,
     converged |-> search.converged, evaluations |-> search.evaluations + 1]

\* The run at the settled amounts gives the figure that is reported and the next checkpoint.
Confirming(confirmed) ==
    /\ working' = Solved
    /\ report' = Append(report, Row(Measure(confirmed, tier)))
    /\ IF CheckpointOf(confirmed, tier) = <<>>
       THEN tier' = Tiers + 1 /\ UNCHANGED <<checkpoint, search>>
       ELSE /\ tier' = tier + 1
            /\ checkpoint' = CheckpointOf(confirmed, tier)[1]
            /\ search' = IF tier = Tiers THEN search ELSE SearchFor(tier + 1, Solved)
    /\ measured' = <<>>
    /\ UNCHANGED <<authored, targets>>

Confirm ==
    /\ tier <= Tiers /\ search.at = "done"
    /\ Confirming(RunAt(Solved, tier))

AmountsNext == Searching \/ Confirm

\* A plain run of the bundle that is written.
Plain(requires, deadline) == Simulated(NewWorld, 0, requires, Tiers, deadline, 0)

----------------------------------------------------------------------------
\* The pre-filter: every requirement as large as a player could hold.

AtCap == [t \in 1..Tiers |-> Most(1, (CapAt(t - 1) * 98) \div 100)]

Unlanded == [t \in 1..Tiers |-> -1]

RECURSIVE CeilingsFrom(_, _, _)
\* Tier by tier, abandoned at the first that tops out short or never lands: -1 from there on.
CeilingsFrom(t, from, found) ==
    IF t > Tiers THEN found
    ELSE LET run == Simulated(from.world, from.now, UpTo(AtCap, t), t, targets[Tiers], 0)
             at == TimeOf(run, t)
         IN  IF at < 0 THEN found
             ELSE IF at < targets[t] THEN [found EXCEPT ![t] = at]
             ELSE CeilingsFrom(t + 1, CheckpointOf(run, t)[1], [found EXCEPT ![t] = at])

TierCeilings == CeilingsFrom(1, AtStart, Unlanded)

\* clearsTargets, without headroom: never inside the budget is later than the target.
ClearsTargets(ceilings) == \A t \in 1..Tiers : ceilings[t] < 0 \/ ceilings[t] >= targets[t]

----------------------------------------------------------------------------

Done == tier > Tiers

\* One step of the plain run unlocks two tiers: both checkpoints have the same clock.
RodeAlong(run, t) ==
    \E k \in 1..Tiers :
       /\ k # t /\ CheckpointOf(run, k) # <<>> /\ CheckpointOf(run, t) # <<>>
       /\ CheckpointOf(run, k)[1].now = CheckpointOf(run, t)[1].now

\* calibrate.ts:3-11: a calibrated number cannot disagree with a measured one. A plain run of
\* the bundle that is written lands every tier when the report says, through as many
\* checkpoints as there are tiers before it, until one step of it unlocks two tiers.
PlayedAsReported ==
    Done => LET run == Plain(working, IF report = <<>> THEN 1 ELSE checkpoint.now + 1)
            IN  \A i \in DOMAIN report :
                   \/ report[i].observed = Infinity
                   \/ \E t \in 1..report[i].tier : RodeAlong(run, t)
                   \/ TimeOf(run, report[i].tier) = report[i].observed

\* The same without the exception.
\* The code does not hold it; no run checks it.
PlayedExactlyAsReported ==
    Done => LET run == Plain(working, IF report = <<>> THEN 1 ELSE checkpoint.now + 1)
            IN  \A i \in DOMAIN report :
                   report[i].observed # Infinity => TimeOf(run, report[i].tier) = report[i].observed

\* calibrate.ts:1238: the confirming run measures what is written out, and agrees with the
\* search: "ok" is never printed of a tier that lands off its target.
OkIsOnTarget ==
    \A i \in DOMAIN report :
       report[i].converged <=> (/\ report[i].observed < Infinity
                               /\ IsHit(report[i].observed, report[i].target))

\* calibrate.ts:387-398: the pre-filter, abandoned at the first short tier and resumed from
\* checkpoints, rejects a bundle exactly when one run at the caps lands a tier too early.
FilterAgrees ==
    Done => (ClearsTargets(TierCeilings) <=>
       LET run == Plain(AtCap, targets[Tiers])
       IN  \A t \in 1..Tiers : TimeOf(run, t) < 0 \/ TimeOf(run, t) >= targets[t])

\* calibrate.ts solveAmounts: what is written, what is reported, what is checked beforehand and
\* what a plain run of the result does are one and the same.
ReportsPlay == PlayedAsReported /\ OkIsOnTarget /\ FilterAgrees
=============================================================================
