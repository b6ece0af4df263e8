---------------------------- MODULE Playthrough ----------------------------
(***************************************************************************)
(* apps/sim/src/run.ts runSimulation under greedy's cadence (policies.ts): *)
(* solve, buy, choose an interval, resolve it, keep the tiers it unlocked. *)
(* The game under it is one item that is made, capped by a storage that    *)
(* grows with the tier, spent on machines and delivered to milestones.     *)
(* Time is in ticks. `requires` gives a tier's amount; its domain is the   *)
(* milestones the bundle has.                                              *)
(***************************************************************************)
EXTENDS Integers, Sequences, SequencesExt

CONSTANTS
    CapAt(_),          \* tier -> the most a player there can hold
    CostOf(_),         \* machines owned -> price of one more
    Early, Late        \* purchase interval at tier start and at tier end, in ticks

Least(a, b) == IF a < b THEN a ELSE b
Most(a, b) == IF a > b THEN a ELSE b

NewWorld == [tier |-> 0, stock |-> 0, machines |-> 1]

\* A run under way: the world, its clock and what the report collects.
Fresh(world, now) ==
    [world |-> world, now |-> now, times |-> <<>>, checkpoints |-> <<>>, purchases |-> 0,
     lastEvent |-> now, dead |-> 0, stalled |-> FALSE]

Next1(world) == world.tier + 1

\* Late - Early at full progress; an amount above the cap is no progress at any fill.
Interval(world, requires) ==
    IF Next1(world) \notin DOMAIN requires THEN Late
    ELSE IF CapAt(world.tier) < requires[Next1(world)] THEN Early
    ELSE Early + ((Late - Early) * Least(world.stock, requires[Next1(world)]))
                 \div Most(1, requires[Next1(world)])

RECURSIVE Delivered(_, _)
\* Milestones in tier order, as many as the stock pays for.
Delivered(world, requires) ==
    IF Next1(world) \in DOMAIN requires /\ world.stock >= requires[Next1(world)]
    THEN Delivered([world EXCEPT !.tier = @ + 1, !.stock = @ - requires[Next1(world)]], requires)
    ELSE world

Made(world) == [world EXCEPT !.stock = Least(CapAt(world.tier), @ + world.machines)]

Landed(old, new, at) == [i \in 1..(new.tier - old.tier) |-> [tier |-> old.tier + i, at |-> at]]

RECURSIVE Resolved(_, _, _, _)
\* Ticks after `now` to `end`: the world, and the tiers with the instant each was unlocked.
Resolved(r, requires, now, end) ==
    IF now = end THEN r
    ELSE Resolved([world |-> Delivered(Made(r.world), requires),
                   landed |-> r.landed
                              \o Landed(r.world, Delivered(Made(r.world), requires), now + 1)],
                  requires, now + 1, end)

\* markEvent.
Marked(run, at) == [run EXCEPT !.dead = Most(@, at - run.lastEvent), !.lastEvent = at]

\* The cheapest offer, if it can be paid.
Bought(run) ==
    IF run.world.stock < CostOf(run.world.machines) THEN run
    ELSE Marked([run EXCEPT !.world.stock = @ - CostOf(run.world.machines),
                            !.world.machines = @ + 1, !.purchases = @ + 1], run.now)

Step(run, requires, maxSim) == Least(Most(1, Interval(run.world, requires)), maxSim - run.now)

\* Mutant of Checkpointed: the checkpoint keeps the instant of the unlock for its clock.
CheckpointedAtUnlock(run, after, end) ==
    [i \in 1..Len(after.landed) |->
        [tier |-> after.landed[i].tier, world |-> after.world, now |-> after.landed[i].at]]

\* One per tier unlocked, all with the state and the clock after the resolve.
Checkpointed(run, after, end) ==
    [i \in 1..Len(after.landed) |->
        [tier |-> after.landed[i].tier, world |-> after.world, now |-> end]]

\* The whole loop body after the purchase: `after` is the world resolved to `end`.
Collected(run, after, end) ==
    FoldLeft(LAMBDA r, mark : Marked([r EXCEPT !.times = Append(@, mark)], mark.at),
             [run EXCEPT !.world = after.world, !.now = end,
                         !.checkpoints = @ \o Checkpointed(run, after, end)],
             after.landed)

Advanced(run, requires, maxSim) ==
    Collected(run,
        Resolved([world |-> run.world, landed |-> <<>>], requires, run.now,
                 run.now + Step(run, requires, maxSim)),
        run.now + Step(run, requires, maxSim))

RECURSIVE Played(_, _, _, _, _)
\* stopAfter 0 is no stopWhenDeadMs.
Played(run, requires, until, maxSim, stopAfter) ==
    IF run.now >= maxSim \/ run.world.tier >= until \/ run.stalled THEN run
    ELSE Played(LET ahead == Advanced(Bought(run), requires, maxSim)
                IN  [ahead EXCEPT !.stalled = stopAfter > 0 /\ ahead.now - ahead.lastEvent > stopAfter],
                requires, until, maxSim, stopAfter)

Simulated(world, now, requires, until, maxSim, stopAfter) ==
    LET run == Played(Fresh(world, now), requires, until, maxSim, stopAfter)
    IN  Marked(run, run.now)

\* tierTimes.find, checkpoints.find
FoundIn(marks, tier) == SelectSeq(marks, LAMBDA m : m.tier = tier)
TimeOf(run, tier) == IF FoundIn(run.times, tier) = <<>> THEN -1 ELSE FoundIn(run.times, tier)[1].at
CheckpointOf(run, tier) == FoundIn(run.checkpoints, tier)
=============================================================================
