------------------------------ MODULE Resolve ------------------------------
(***************************************************************************)
(* packages/engine/src/resolve: the loop that takes a world to a time, one *)
(* discontinuity after the other, with the prefix that api/src/worlds.ts   *)
(* keeps of a long one and the schedule that the page draws lines from.    *)
(* What the solver answers is a law: any function of the items' states,    *)
(* the tier and the tap stacks. Rates are a unit per tick or none, so      *)
(* every event falls on a tick, and EPSILON_MS is one tick.                *)
(***************************************************************************)
EXTENDS Integers, SequencesExt

CONSTANTS
    Stocked,                   \* the stock items in authored order
    StoredCap(_, _), PooledCap(_, _), \* item, tier -> storageCap, quantumCap
    Asks,                      \* tier -> [item -> amount]
    Laws, NoLaw,               \* what a pinned content makes the solver answer; no world is open
    RateOf(_, _, _, _),         \* law, item states, tier, tapped -> [item -> rate]
    Starts,                    \* worlds to start from
    MaxFineSteps,              \* MAX_EVENTS
    CoarseStep, OfflineMs,     \* COARSE_STEP_MS, offlineCapMs
    TapMs,                     \* tapDurationMs
    Windows, MaxNow            \* bounds: windows resolved, latest time stored

Wares == Range(Stocked)
Unset == -1
Eternity == 1000000
EpsilonTicks == 1
HardStop == MaxFineSteps + (OfflineMs + CoarseStep - 1) \div CoarseStep + 2
NoPrefix == [sizes |-> <<>>]

VARIABLES
    law,       \* the content the world is pinned to
    factory,   \* the world as stored: stored, quantum, bound, tier, stacks, expiry, at
    kept,      \* resolvePrefixes: the prefix kept for this world
    origin, span \* history: the world after the last batch that did something, and how long ago

resolving == <<law, factory, kept, origin, span>>

Liquid(s, i) == s.stored[i] + s.quantum[i]
LiquidCap(s, i) == StoredCap(i, s.tier) + PooledCap(i, s.tier)

\* itemStateTag.
StateTag(s, i) == IF Liquid(s, i) <= 0 THEN "EMPTY" ELSE IF Liquid(s, i) >= LiquidCap(s, i) THEN "FULL" ELSE "FLOWING"

\* What a step reads from the solver, and all that the solver reads of what a resolve changes.
Answer(l, s) == RateOf(l, [i \in Wares |-> StateTag(s, i)], s.tier, s.stacks > 0)

----------------------------------------------------------------------------
(* settle: bound stock moves down, then every milestone that can be paid.  *)

Upto(n, room) == IF room <= 0 THEN 0 ELSE Min({n, room})

SettleBound(s) ==
    LET move == [i \in Wares |-> Upto(s.bound[i], PooledCap(i, s.tier) - s.quantum[i])]
    IN  [s EXCEPT !.quantum = [i \in Wares |-> @[i] + move[i]], !.bound = [i \in Wares |-> @[i] - move[i]]]

Due(s) == s.tier + 1 \in DOMAIN Asks
Payable(s) == Due(s) /\ \A i \in Wares : Liquid(s, i) >= Asks[s.tier + 1][i]

Deliver(s) ==
    LET first == [i \in Wares |-> Min({Asks[s.tier + 1][i], s.stored[i]})]
        spent == [s EXCEPT !.stored = [i \in Wares |-> @[i] - first[i]],
                           !.quantum = [i \in Wares |-> @[i] - (Asks[s.tier + 1][i] - first[i])]]
    IN  [SettleBound(spent) EXCEPT !.tier = @ + 1]

RECURSIVE Delivered(_)
Delivered(s) == IF Payable(s) THEN Delivered(Deliver(s)) ELSE s

Settle(s) == Delivered(SettleBound(s))

Slack(s) == \E i \in Wares : s.bound[i] > 0 /\ s.quantum[i] < PooledCap(i, s.tier)

FireDueTimers(s, cursor) ==
    IF s.expiry # Unset /\ s.expiry <= cursor THEN [s EXCEPT !.stacks = 0, !.expiry = Unset] ELSE s

----------------------------------------------------------------------------
(* One step of the loop.                                                   *)

Wait(dt, kind) == [dt |-> dt, kind |-> kind]

\* Mutant of OfItem: leaving zero is no event.
OfItemPinned(s, net, i) ==
    IF net[i] > 0 THEN Wait(LiquidCap(s, i) - Liquid(s, i), "fill")
    ELSE IF net[i] < 0 THEN Wait(Liquid(s, i), "drain") ELSE Wait(0, "none")

\* When an item leaves zero, fills or drains; an item at its cap or at zero does neither.
OfItem(s, net, i) ==
    IF net[i] > 0 /\ Liquid(s, i) <= 0 THEN Wait(EpsilonTicks, "unpin")
    ELSE IF net[i] > 0 THEN Wait((LiquidCap(s, i) - Liquid(s, i)) \div net[i], "fill")
    ELSE IF net[i] < 0 THEN Wait(Liquid(s, i) \div (-net[i]), "drain") ELSE Wait(0, "none")

\* When the milestone is banked: at its slowest item, and never while one it lacks does not rise.
OfMilestone(s, net) ==
    LET short == {i \in Wares : Due(s) /\ Liquid(s, i) < Asks[s.tier + 1][i]}
    IN  IF short = {} \/ \E i \in short : net[i] <= 0 THEN Wait(0, "none")
        ELSE Wait(Max({(Asks[s.tier + 1][i] - Liquid(s, i)) \div net[i] : i \in short}), "milestone")

NextDiscontinuity(s, net, cursor) ==
    LET considered == [k \in DOMAIN Stocked |-> OfItem(s, net, Stocked[k])]
                      \o <<Wait(IF s.expiry = Unset THEN 0 ELSE s.expiry - cursor, "timer"), OfMilestone(s, net)>>
    IN  FoldLeft(LAMBDA best, x : IF x.dt > 0 /\ x.dt < best.dt THEN x ELSE best,
                 Wait(Eternity, "none"), considered)

\* Production fills stored, then quantum, and is lost beyond; consumption drains them in that order.
Integrate(s, net, dt) ==
    LET made(i) == IF net[i] > 0 THEN net[i] * dt ELSE 0
        used(i) == IF net[i] < 0 THEN -net[i] * dt ELSE 0
        in1 == [i \in Wares |-> Upto(made(i), StoredCap(i, s.tier) - s.stored[i])]
        in2 == [i \in Wares |-> Upto(made(i) - in1[i], PooledCap(i, s.tier) - s.quantum[i])]
        out1 == [i \in Wares |-> Min({used(i), s.stored[i]})]
        out2 == [i \in Wares |-> Min({used(i) - out1[i], s.quantum[i]})]
    IN  [s EXCEPT !.stored = [i \in Wares |-> @[i] + in1[i] - out1[i]],
                  !.quantum = [i \in Wares |-> @[i] + in2[i] - out2[i]]]

\* How long a step is: the guard's steps are coarse, the others end at the next event.
StepSize(r, s, next) ==
    IF r.steps >= MaxFineSteps THEN Min({r.left, CoarseStep})
    ELSE Min({r.left, Max({Min({r.left, next.dt}), EpsilonTicks})})

\* A run of the loop is [s, cursor, left, steps, sizes, saved] and, for the properties, unmarked:
\* a full item drained, or bound stock waited beside room for it, neither of which is an event.
Stepped(r, s, net, dt) ==
    [r EXCEPT !.s = FireDueTimers(Integrate(s, net, dt), r.cursor + dt),
              !.cursor = @ + dt, !.left = @ - dt, !.steps = @ + 1,
              !.sizes = IF r.steps < MaxFineSteps /\ r.saved = NoPrefix THEN Append(@, dt) ELSE @,
              !.unmarked = @ \/ Slack(s) \/ \E i \in Wares : StateTag(s, i) = "FULL" /\ net[i] < 0]

\* The prefix is kept after the last step that is not coarse, if there is more to come.
Keeping(l, from, r) ==
    IF r.steps = MaxFineSteps /\ r.saved = NoPrefix /\ r.left > 0
    THEN [r EXCEPT !.saved = [sizes |-> r.sizes, law |-> l, start |-> from.start, startCursor |-> from.cursor,
                              s |-> r.s, cursor |-> r.cursor]]
    ELSE r

OneStep(r, s, net) == Stepped(r, s, net, StepSize(r, s, NextDiscontinuity(s, net, r.cursor)))

RECURSIVE Loop(_, _, _)
Loop(l, from, r) ==
    LET s == Settle(r.s)
    IN  IF r.left <= 0 \/ r.steps >= HardStop THEN [r EXCEPT !.s = s, !.unmarked = @ \/ Slack(s)]
        ELSE Loop(l, from, Keeping(l, from, OneStep(r, s, Answer(l, s))))

\* What a cold resolve has left after these steps, or Unset if it would not take them all whole.
ReplayStepSizes(sizes, simulated) ==
    FoldLeft(LAMBDA left, dt : IF left <= 0 \/ left < dt THEN Unset ELSE left - dt, simulated, sizes)

\* resolve, of a world `s` on law `l` over a window, with the prefix the cache has for it.
ResolveWith(l, s, elapsed, p) ==
    LET simulated == Min({elapsed, OfflineMs})
        from == [start |-> s, cursor |-> s.at + elapsed - simulated]
        held == p # NoPrefix /\ p.law = l /\ p.start = s /\ p.startCursor = from.cursor
        resumed == IF held THEN ReplayStepSizes(p.sizes, simulated) ELSE Unset
        out == IF resumed # Unset
               THEN Loop(l, from, [s |-> p.s, cursor |-> p.cursor, left |-> resumed, steps |-> MaxFineSteps,
                                   sizes |-> p.sizes, saved |-> p, unmarked |-> Slack(s)])
               ELSE Loop(l, from, [s |-> FireDueTimers(s, from.cursor), cursor |-> from.cursor, left |-> simulated,
                                   steps |-> 0, sizes |-> <<>>, saved |-> NoPrefix, unmarked |-> Slack(s)])
    IN  [out EXCEPT !.s = [@ EXCEPT !.at = s.at + elapsed]]

ResolveCold(s, elapsed) == ResolveWith(law, s, elapsed, NoPrefix)
Saved(out, p) == IF out.saved = NoPrefix THEN p ELSE out.saved

----------------------------------------------------------------------------
(* scheduleDetail: past the internal unpins, then a straight line each.    *)

Upcoming(s) == NextDiscontinuity(s, Answer(law, s), s.at)

RECURSIVE Unpinned(_, _)
Unpinned(s, turns) ==
    IF turns > 0 /\ Upcoming(s).kind = "unpin" THEN Unpinned(ResolveCold(s, EpsilonTicks).s, turns - 1) ELSE s

LineFrom(d) == [at |-> d.at, stock |-> [i \in Wares |-> Liquid(d, i)], net |-> Answer(law, d),
                boundary |-> d.at + Upcoming(d).dt]

Schedule(s) == LineFrom(Unpinned(s, Len(Stocked)))

\* shownStock of sync/interpolate.ts, of a snapshot persisted at `since`.
ShownStock(s, line, i, t, since) ==
    LET elapsed == Max({0, Min({t, since + OfflineMs}) - line.at})
    IN  Max({0, Min({LiquidCap(s, i), line.stock[i] + line.net[i] * elapsed})})

----------------------------------------------------------------------------

ResolveInit(open) ==
    /\ law \in (IF open THEN Laws ELSE {NoLaw})
    /\ factory \in {Settle(s) : s \in Starts} /\ origin = factory /\ span = 0
    /\ kept = NoPrefix

\* A GET resolves what is stored and stores nothing.
View(t) ==
    /\ kept' = Saved(ResolveWith(law, factory, t, kept), kept)
    /\ UNCHANGED <<law, factory, origin, span>>

\* A batch that leaves stock and rates alone stores the world at its time.
Persist(t) ==
    /\ factory.at + t <= MaxNow
    /\ \E out \in {ResolveWith(law, factory, t, kept)} : factory' = out.s /\ kept' = Saved(out, kept)
    /\ span' = span + t
    /\ UNCHANGED <<law, origin>>

\* A batch of one TAP.
Crank(t) ==
    /\ factory.at + t <= MaxNow
    /\ \E out \in {ResolveWith(law, factory, t, kept)} :
          /\ factory' = [out.s EXCEPT !.stacks = 1, !.expiry = out.s.at + TapMs]
          /\ kept' = Saved(out, kept)
    /\ origin' = factory' /\ span' = 0
    /\ UNCHANGED law

\* migrateWorld: the state is resolved to now on the other content, past the cache, and stored.
Repin(l, t) ==
    /\ factory.at + t <= MaxNow
    /\ law' = l /\ factory' = ResolveWith(l, factory, t, NoPrefix).s
    /\ origin' = factory' /\ span' = 0
    /\ UNCHANGED kept

ResolveNext ==
    \E t \in Windows : View(t) \/ Persist(t) \/ Crank(t) \/ \E l \in Laws : Repin(l, t)

----------------------------------------------------------------------------

\* index.ts:3-22, spec E.6: resolve(s, t + u) = resolve(resolve(s, t), u) within the offline cap,
\* so it does not matter when, or how often, a world is stored on the way. Two things that the
\* code's own list leaves out are left out here too: a full item that drains leaves its cap
\* without an event, so its rates outlast the state they were solved for; and a delivery that
\* makes room for bound stock does so after the settling.
OnlineIsOffline ==
    span <= OfflineMs =>
       \A whole \in {ResolveCold(origin, span)} : whole.unmarked \/ factory = whole.s

\* index.ts:11 "settle() is idempotent", 130. Not so in the code: bound stock is settled before
\* the milestones, so what a delivery makes room for moves at the next settling only. No run checks it.
SettleIsIdempotent == span = 0 => factory = Settle(factory)

\* index.ts:361-371 (PL-2), worlds.ts:139-148: a resolve that resumes from whatever prefix is kept
\* under the world's id, of an earlier state or other content too, ends where a cold one does;
\* and the guard ends no window early.
PrefixResumes ==
    \A t \in Windows : \A cold \in {ResolveCold(factory, t)} :
       cold.left = 0 /\ (kept # NoPrefix => ResolveWith(law, factory, t, kept).s = cold.s)

\* index.ts:263-277, interpolate.ts: until the boundary the page's lines are what the server
\* would answer at that moment, past the plateau too. Stock with bound stock beside it is not on
\* its line: what drains is refilled at every settling.
StraightLines ==
    \A line \in {Schedule(factory)}, t \in Windows :
       factory.at + t >= line.at /\ factory.at + t < line.boundary =>
          \A now \in {ResolveCold(factory, t).s}, i \in Wares :
             factory.bound[i] > 0 \/ Liquid(now, i) = ShownStock(factory, line, i, factory.at + t, factory.at)

\* resolve/index.ts: what a world is at a time does not depend on who asked for it before, how
\* often, or from which cache.
ResolveAgrees == law # NoLaw => OnlineIsOffline /\ PrefixResumes /\ StraightLines
=============================================================================
