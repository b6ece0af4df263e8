-------------------------------- MODULE Gate --------------------------------
(***************************************************************************)
(* apps/sim/src: the pacing gate. runPool (pool.ts) runs one worker per    *)
(* policy and one more for the determinism rerun (gate-cli.ts), and        *)
(* evaluateGate and compareRuns (gate.ts) judge what came back. A worker   *)
(* posts its report, fails, exits badly, or is terminated.                 *)
(***************************************************************************)
EXTENDS Integers, Sequences, FiniteSets

CONSTANTS
    Gates,             \* sequence of [policy, untilTier, reachesTier (0: none), pins: tier -> time]
    TierTargets,       \* tier -> time
    Reports,           \* [reached, times: tier -> time, stalled, dead, runaway]
    Limit,             \* availableParallelism
    MaxDead,           \* maxDeadTimeCollections
    TierBand, DriftBand,   \* tolerances, as absolute bands
    NoReport

\* gate-cli.ts:50-260, run.ts:168-174: a gate per policy, a target for every tier it asks for,
\* and in every report a time for each tier it reached.
ASSUME GatesAndReports ==
    /\ Len(Gates) \in Nat /\ DOMAIN Gates = 1..Len(Gates) /\ Limit \in Nat
    /\ \A i, j \in DOMAIN Gates : Gates[i].policy = Gates[j].policy => i = j
    /\ \A j \in DOMAIN Gates :
          /\ Gates[j].untilTier \in Nat /\ Gates[j].reachesTier \in Nat
          /\ 1..Gates[j].untilTier \cup 1..Gates[j].reachesTier \subseteq DOMAIN TierTargets
          /\ \A t \in DOMAIN Gates[j].pins : Gates[j].pins[t] \in Nat
    /\ \A r \in Reports :
          /\ r.reached \in Nat /\ 1..r.reached \subseteq DOMAIN r.times /\ r.runaway \in BOOLEAN
          /\ \A t \in DOMAIN r.times : r.times[t] \in Nat
    /\ \A t \in DOMAIN TierTargets : TierTargets[t] \in Nat
    /\ TierBand \in Nat /\ DriftBand \in Nat

VARIABLES
    worker,            \* job -> "waiting", "running", "reported", "failed" or "stopped"
    says,              \* job -> the report its run comes to
    flying, nextJob, doneJobs, results,    \* runPool: inFlight, next, done, results
    gate               \* "running", "green", "red" or "rejected"

pool == <<worker, says, flying, nextJob, doneJobs, results, gate>>

\* The gates' policies in order, and greedy again.
Jobs == 1..(Len(Gates) + 1)
Rerun == Len(Gates) + 1
PolicyOf(j) == IF j = Rerun THEN "greedy" ELSE Gates[j].policy

\* `says` is given: what each job's run comes to.
GateInit(start) ==
    /\ worker = [j \in Jobs |-> IF j <= Limit THEN "running" ELSE "waiting"]
    /\ flying = {j \in Jobs : j <= Limit}
    /\ nextJob = (IF Limit < Len(Gates) + 1 THEN Limit ELSE Len(Gates) + 1) + 1
    /\ doneJobs = 0 /\ results = [j \in Jobs |-> NoReport] /\ gate = start

----------------------------------------------------------------------------
\* gate.ts

Off(a, b) == IF a > b THEN a - b ELSE b - a
OnTarget(tier, time) == Off(time, TierTargets[tier]) <= TierBand

Highest(g) == IF g.reachesTier > 0 THEN g.reachesTier ELSE g.untilTier

\* 1. Did it get there at all, and no further than its pin says?
ReachFinding(g, r) ==
    IF g.reachesTier > 0 THEN r.reached # g.reachesTier ELSE r.reached < g.untilTier

\* 2. Off the target without a pin, on it with one, or drifted off the pin.
TimeFinding(g, tier, time) ==
    IF tier \notin DOMAIN g.pins THEN ~OnTarget(tier, time)
    ELSE OnTarget(tier, time) \/ Off(time, g.pins[tier]) > DriftBand

\* 3. A stall anywhere but at its pin, or too long without an event.
DeadFinding(g, r) ==
    IF r.stalled THEN g.reachesTier = 0 \/ r.reached # g.reachesTier ELSE r.dead > MaxDead

\* 4. A class bought often enough to tell whose r_eff is at the runaway floor or below.
EfficiencyFinding(r) == r.runaway

Findings(g, r) ==
    \/ ReachFinding(g, r) \/ DeadFinding(g, r) \/ EfficiencyFinding(r)
    \/ \E tier \in DOMAIN r.times :
          tier <= Highest(g) /\ tier \in DOMAIN TierTargets /\ TimeFinding(g, tier, r.times[tier])

\* compareRuns: equal in everything a report says.
Diverges(a, b) == a # b

\* reports.find: the first of that policy.
ReportFor(policy, all) ==
    all[CHOOSE j \in Jobs : Gates[j].policy = policy /\ \A k \in 1..(j - 1) : Gates[k].policy # policy]

Verdict(all) ==
    IF \/ Diverges(ReportFor("greedy", all), all[Rerun])
       \/ \E j \in DOMAIN Gates : Findings(Gates[j], ReportFor(Gates[j].policy, all))
    THEN "red" ELSE "green"

----------------------------------------------------------------------------
\* pool.ts

\* Mutant of Filed: results in the order they arrive.
FiledOnArrival(j) == [results EXCEPT ![doneJobs + 1] = says[j]]

Filed(j) == [results EXCEPT ![j] = says[j]]

\* launch: the next job, if there is one.
Relaunched(j) == {nextJob} \cap Jobs

\* The worker's message. What it posts after the pool has failed is dropped.
Message(j) ==
    /\ worker[j] = "running" /\ gate = "running"
    /\ flying' = (flying \ {j}) \cup Relaunched(j)
    /\ worker' = [k \in Jobs |-> IF k = j THEN "reported"
                                 ELSE IF k \in Relaunched(j) THEN "running" ELSE worker[k]]
    /\ nextJob' = nextJob + Cardinality(Relaunched(j))
    /\ results' = Filed(j)
    /\ doneJobs' = doneJobs + 1
    /\ gate' = IF doneJobs + 1 = Cardinality(Jobs) THEN Verdict(results') ELSE gate
    /\ UNCHANGED says

\* stop() of all in flight: worker.terminate
Stopped(j) == flying \ {j}

\* error, or an exit with another code than 0: the first failure is the pool's.
Failure(j) ==
    /\ worker[j] = "running" /\ gate = "running"
    /\ worker' = [k \in Jobs |-> IF k = j THEN "failed"
                                 ELSE IF k \in Stopped(j) THEN "stopped" ELSE worker[k]]
    /\ flying' = {} /\ gate' = "rejected"
    /\ UNCHANGED <<says, nextJob, doneJobs, results>>

GateNext == \E j \in Jobs : Message(j) \/ Failure(j)

\* Every worker's run ends (stopWhenDeadMs and maxSimMs bound it) and is heard of.
GateFairness == \A j \in Jobs : WF_pool(Message(j) \/ Failure(j))

----------------------------------------------------------------------------

\* pool.ts:10-15 with gate.ts:36-49: a green gate means that every policy's own run, in
\* whatever order the workers ended, reached its tier and landed every tier up to it on its
\* target or on its pin while off the target with no class at the runaway floor, and that
\* greedy's two runs agreed.
GreenIsMeasured ==
    gate = "green" =>
       /\ \A j \in DOMAIN Gates :
             LET g == Gates[j] r == says[j]
             IN  /\ r.reached >= Highest(g) /\ ~r.runaway
                 /\ \A tier \in 1..Highest(g) :
                       IF tier \in DOMAIN g.pins
                       THEN ~OnTarget(tier, r.times[tier]) /\ Off(r.times[tier], g.pins[tier]) <= DriftBand
                       ELSE OnTarget(tier, r.times[tier])
       /\ \A j \in DOMAIN Gates : Gates[j].policy = "greedy" => says[j] = says[Rerun]

\* pool.ts:10-15: never more than the limit at once, and once a job has failed nothing runs on.
FailureStopsThePool ==
    /\ Cardinality({j \in Jobs : worker[j] = "running"}) <= Limit
    /\ gate = "rejected" => \A j \in Jobs : worker[j] # "running"

\* The gate answers, however many workers there are to a processor.
GateAnswers == gate = "running" ~> gate # "running"

\* pool.ts, gate.ts: the gate answers, and answers what the workers measured.
GateTells == GateAnswers /\ [](GreenIsMeasured /\ FailureStopsThePool)
=============================================================================
