------------------------------- MODULE Worlds -------------------------------
(***************************************************************************)
(* The server's world store: apps/api/src/worlds.ts and the two retention  *)
(* steps of apps/api/src/cleanup.ts that touch a world (log compaction and *)
(* idempotency pruning), for one world of one player.                      *)
(*                                                                         *)
(* A request reads the clock before it takes the world's row lock, so      *)
(* stamps are committed out of order.  From the lock on, a transaction is  *)
(* one atomic step: every transaction on this world takes the same row     *)
(* lock first, and pruning only deletes rows of the idempotency table.     *)
(*                                                                         *)
(* The engine is deterministic, so a world state is represented by the     *)
(* term that produces it: the sequence of steps (resolve to a time on a    *)
(* content version, then apply a batch) run since initialWorld.  Equal     *)
(* terms are equal states.                                                 *)
(***************************************************************************)
EXTENDS Integers, Sequences

CONSTANTS
    Slots,          \* requests the API can have in progress at once
    Keys,           \* idempotency keys a client uses
    Ops,            \* what a batch does besides its TAPs
    Bodies,         \* the batch bodies clients send
    Published,      \* rows of content_versions
    Versions,       \* version names an admin may ask for
    InitialVersion, \* the bundle the world was created on
    Label,          \* Label[v]: the authored label inside bundle v
    Rejects(_, _),  \* engine: does applyBatch reject this step on this state?
    Misfits(_, _),  \* contentMisfit, or a resolve that throws on the target
    LogRetention,   \* LOG_RETENTION_MS
    IdemRetention,  \* IDEMPOTENCY_RETENTION_MS
    MaxClock,       \* bound: the latest time a run reaches
    MaxBack,        \* bound: how often the wall clock steps back
    MaxRequests     \* bound: requests received in a run

Time == 0 .. MaxClock   \* counted from the world's created_at, which is 0
NoTime == -1            \* SQL null in a timestamp column
NoKey == "no key"       \* SQL null in action_log.idempotency_key
NoOps == "no ops"
\* A body's TAPs are carried as the sum of their clientElapsedMs.
Body == [ops : Ops \cup {NoOps}, taps : Nat, hasTap : BOOLEAN]
NoBody == [ops |-> NoOps, taps |-> 0, hasTap |-> FALSE]  \* actions = []

ASSUME BoundsAssumption ==
    /\ MaxClock \in Nat /\ MaxBack \in Nat /\ MaxRequests \in Nat
    /\ LogRetention \in Nat /\ IdemRetention \in Nat
ASSUME ContentAssumption ==
    /\ Published \subseteq Versions
    /\ InitialVersion \in Published
    /\ DOMAIN Label = Versions
ASSUME KeyAssumption == NoKey \notin Keys
ASSUME BodyAssumption ==
    /\ Bodies \subseteq Body
    /\ \A b \in Bodies : ~b.hasTap => b.taps = 0

VARIABLES
    clock,          \* Date.now()
    high,           \* history: the latest clock value so far
    backs,          \* how often the clock stepped back
    state,          \* player_worlds.state: [steps, label]
    contentVersion, \* player_worlds.content_version
    stateVersion,   \* player_worlds.state_version
    lastTapFlush,   \* player_worlds.last_tap_flush_at
    base,           \* player_worlds.replay_base_state
    baseAt,         \* player_worlds.replay_base_at
    log,            \* action_log rows of this world, in id order
    idem,           \* idempotency rows of this player, by key
    lastSeen,       \* players.last_seen_at
    req,            \* what each slot is doing
    received,       \* requests received so far
    job,            \* the retention job: idle, or its now and next step
    granted,        \* history: TAP milliseconds applied so far
    pruned          \* history: keys whose stored response was pruned

worldVars == <<state, contentVersion, stateVersion, lastTapFlush, granted>>
baseVars == <<base, baseAt>>
clockVars == <<clock, high, backs>>
reqVars == <<req, received>>
vars == <<clockVars, worldVars, baseVars, log, idem, lastSeen, reqVars, job, pruned>>

-----------------------------------------------------------------------------
Larger(a, b) == IF a >= b THEN a ELSE b
Smaller(a, b) == IF a <= b THEN a ELSE b

\* A row of action_log, which is also a step of a state's history.
Step(at, ver, body, key) == [at |-> at, ver |-> ver, body |-> body, key |-> key]

Start == [steps |-> <<>>, label |-> Label[InitialVersion]]
Run(s, step) == [s EXCEPT !.steps = Append(@, step)]
NoBase == [steps |-> <<>>, label |-> "null"]

\* capTaps: TAPs are capped in order, so together they spend at most the budget.
CapTaps(body, budget) == [body EXCEPT !.taps = Smaller(@, Larger(0, budget))]

\* coalesce(last_tap_flush_at, created_at)
TapClock == IF lastTapFlush = NoTime THEN 0 ELSE lastTapFlush

\* last_tap_flush_at after a batch stamped `at`: greatest() skips a null.
FlushStamp(body, at) == IF body.hasTap THEN at ELSE lastTapFlush
FlushAfter(body, at) == IF body.hasTap THEN Larger(lastTapFlush, at) ELSE lastTapFlush

\* replayWorld over log rows: each row runs on its own version and labels it.
ReplayBase == IF base = NoBase THEN Start ELSE base
Replay(from, rows) ==
    [steps |-> from.steps \o rows,
     label |-> IF rows = <<>> THEN from.label ELSE Label[rows[Len(rows)].ver]]

Idle == [phase |-> "idle"]
Stamped(key, body, at) == [phase |-> "stamped", key |-> key, body |-> body, at |-> at]
Answered(key, status, n) == [phase |-> "answered", key |-> key, status |-> status, n |-> n]
Migrating(to, at) == [phase |-> "migrating", to |-> to, at |-> at]

\* A stored response.  n stands for the body: the version of the world it is about.
NoRow == [status |-> 0, n |-> 0, at |-> NoTime]
Stored(status, n, at) == [status |-> status, n |-> n, at |-> at]

NoJob == [step |-> "idle", now |-> NoTime]

Init ==
    /\ clock = 0 /\ high = 0 /\ backs = 0
    /\ state = Start
    /\ contentVersion = InitialVersion
    /\ stateVersion = 0
    /\ lastTapFlush = NoTime
    /\ base = NoBase /\ baseAt = NoTime
    /\ log = <<>>
    /\ idem = [k \in Keys |-> NoRow]
    /\ lastSeen = 0
    /\ req = [r \in Slots |-> Idle] /\ received = 0
    /\ job = NoJob
    /\ granted = 0
    /\ pruned = {}

-----------------------------------------------------------------------------
(***************************************************************************)
(* The wall clock.  It may step back, but never to before the world was    *)
(* created.                                                                *)
(***************************************************************************)
Tick ==
    /\ clock < MaxClock
    /\ clock' = clock + 1
    /\ high' = Larger(high, clock + 1)
    /\ UNCHANGED <<backs, worldVars, baseVars, log, idem, lastSeen, reqVars, job, pruned>>

StepBack ==
    /\ backs < MaxBack /\ clock > 0
    /\ clock' = clock - 1
    /\ backs' = backs + 1
    /\ UNCHANGED <<high, worldVars, baseVars, log, idem, lastSeen, reqVars, job, pruned>>

-----------------------------------------------------------------------------
(***************************************************************************)
(* POST /api/actions.                                                      *)
(***************************************************************************)
\* The handler reads the clock and only then waits for the row lock.
Receive(r, k, b) ==
    /\ req[r].phase \in {"idle", "answered"}
    /\ received < MaxRequests
    /\ req' = [req EXCEPT ![r] = Stamped(k, b, clock)]
    /\ received' = received + 1
    /\ UNCHANGED <<clockVars, worldVars, baseVars, log, idem, lastSeen, job, pruned>>

\* The transaction fails, times out, or the process dies: nothing is written.
Abort(r) ==
    /\ req[r].phase \in {"stamped", "migrating"}
    /\ req' = [req EXCEPT ![r] = Idle]
    /\ UNCHANGED <<clockVars, worldVars, baseVars, log, idem, lastSeen, received, job, pruned>>

\* select ... from idempotency, under the row lock
SeenNever(q) == FALSE
Seen(q) == idem[q.key] # NoRow

\* The key was seen: the stored response, whatever the body is now.
Repeat(r) ==
    LET q == req[r] IN
    /\ q.phase = "stamped"
    /\ Seen(q)
    /\ req' = [req EXCEPT ![r] = Answered(q.key, idem[q.key].status, idem[q.key].n)]
    /\ UNCHANGED <<clockVars, worldVars, baseVars, log, idem, lastSeen, received, job, pruned>>

\* The step a stamped request would apply to the locked row.
StepOf(q) == Step(q.at, contentVersion, CapTaps(q.body, q.at - TapClock), q.key)

\* The row it logs: the capped batch, under the request's time.
LogRequested(q) == Step(q.at, contentVersion, q.body, q.key)
LogRow(q) == StepOf(q)

\* state_version + 1
SameVersion == stateVersion
NextVersion == stateVersion + 1

\* store: insert the response, then answer with what was stored.
RespondStoringSuccess(r, status, n) ==
    LET q == req[r] IN
    /\ idem' = IF status = 200 THEN [idem EXCEPT ![q.key] = Stored(status, n, q.at)] ELSE idem
    /\ req' = [req EXCEPT ![r] = Answered(q.key, status, n)]
Respond(r, status, n) ==
    LET q == req[r] IN
    /\ idem' = [idem EXCEPT ![q.key] = Stored(status, n, q.at)]
    /\ req' = [req EXCEPT ![r] = Answered(q.key, status, n)]

\* A rejection commits only its 409.
Reject(r) ==
    LET q == req[r] IN
    /\ q.phase = "stamped"
    /\ ~Seen(q)
    /\ Rejects(state.steps, StepOf(q))
    /\ Respond(r, 409, stateVersion)
    /\ UNCHANGED <<clockVars, worldVars, baseVars, log, lastSeen, received, job, pruned>>

Apply(r) ==
    LET q == req[r]
        step == StepOf(q) IN
    /\ q.phase = "stamped"
    /\ ~Seen(q)
    /\ ~Rejects(state.steps, step)
    /\ state' = Run(state, step)
    /\ stateVersion' = NextVersion
    /\ lastTapFlush' = FlushAfter(q.body, q.at)
    /\ log' = Append(log, LogRow(q))
    /\ lastSeen' = q.at
    /\ granted' = granted + step.body.taps
    /\ Respond(r, 200, NextVersion)
    /\ UNCHANGED <<clockVars, contentVersion, baseVars, received, job, pruned>>

-----------------------------------------------------------------------------
(***************************************************************************)
(* POST /api/admin/migrate-world: re-pin the world to another version.     *)
(***************************************************************************)
ReceiveMigrate(r, v) ==
    /\ req[r].phase \in {"idle", "answered"}
    /\ received < MaxRequests
    /\ req' = [req EXCEPT ![r] = Migrating(v, clock)]
    /\ received' = received + 1
    /\ UNCHANGED <<clockVars, worldVars, baseVars, log, idem, lastSeen, job, pruned>>

LabelClash(v) == state.label = Label[v] /\ contentVersion # v

Compatible(q) ==
    /\ q.to \in Published
    /\ ~LabelClash(q.to)
    /\ ~Misfits(state.steps, q.to)
    /\ ~Rejects(state.steps, Step(q.at, q.to, NoBody, NoKey))

RefuseMigrate(r) ==
    /\ req[r].phase = "migrating"
    /\ ~Compatible(req[r])
    /\ req' = [req EXCEPT ![r] = Idle]
    /\ UNCHANGED <<clockVars, worldVars, baseVars, log, idem, lastSeen, received, job, pruned>>

Migrate(r) ==
    LET q == req[r]
        step == Step(q.at, q.to, NoBody, NoKey) IN
    /\ q.phase = "migrating"
    /\ Compatible(q)
    /\ state' = [Run(state, step) EXCEPT !.label = Label[q.to]]
    /\ contentVersion' = q.to
    /\ stateVersion' = NextVersion
    /\ log' = Append(log, step)
    /\ req' = [req EXCEPT ![r] = Idle]
    /\ UNCHANGED <<clockVars, lastTapFlush, granted, baseVars, idem, lastSeen, received, job, pruned>>

-----------------------------------------------------------------------------
(***************************************************************************)
(* runCleanup, the steps that touch this world.  The job reads the clock   *)
(* once; requests run between its steps.                                   *)
(***************************************************************************)
StartCleanup ==
    /\ job = NoJob
    /\ job' = [step |-> "compact", now |-> clock]
    /\ UNCHANGED <<clockVars, worldVars, baseVars, log, idem, lastSeen, reqVars, pruned>>

\* The job's process dies between two of its steps.
StopCleanup ==
    /\ job # NoJob
    /\ job' = NoJob
    /\ UNCHANGED <<clockVars, worldVars, baseVars, log, idem, lastSeen, reqVars, pruned>>

\* Rows 1 .. edge are the longest prefix of the log, in id order, whose rows are all old.
IsEdge(edge, cutoff) ==
    /\ \A i \in 1 .. edge : log[i].at < cutoff
    /\ edge < Len(log) => log[edge + 1].at >= cutoff

\* Replay the old prefix onto the base, store it as the new base, delete the rows.
CompactLog ==
    /\ job.step = "compact"
    /\ job' = [job EXCEPT !.step = "prune"]
    /\ \E edge \in 0 .. Len(log) :
        /\ IsEdge(edge, job.now - LogRetention)
        /\ IF edge = 0
           THEN UNCHANGED <<baseVars, log>>
           ELSE /\ base' = Replay(ReplayBase, SubSeq(log, 1, edge))
                /\ baseAt' = log[edge].at
                /\ log' = SubSeq(log, edge + 1, Len(log))
    /\ UNCHANGED <<clockVars, worldVars, idem, lastSeen, reqVars, pruned>>

\* The world's compaction throws: rolled back and reported, the job goes on.
CompactFails ==
    /\ job.step = "compact"
    /\ job' = [job EXCEPT !.step = "prune"]
    /\ UNCHANGED <<clockVars, worldVars, baseVars, log, idem, lastSeen, reqVars, pruned>>

PruneIdempotency ==
    LET old == {k \in Keys : idem[k] # NoRow /\ idem[k].at < job.now - IdemRetention} IN
    /\ job.step = "prune"
    /\ idem' = [k \in Keys |-> IF k \in old THEN NoRow ELSE idem[k]]
    /\ pruned' = pruned \cup old
    /\ job' = NoJob
    /\ UNCHANGED <<clockVars, worldVars, baseVars, log, lastSeen, reqVars>>

-----------------------------------------------------------------------------
Next ==
    \/ Tick \/ StepBack
    \/ \E r \in Slots :
        \/ \E k \in Keys, b \in Bodies : Receive(r, k, b)
        \/ Abort(r) \/ Repeat(r) \/ Reject(r) \/ Apply(r)
        \/ \E v \in Versions : ReceiveMigrate(r, v)
        \/ RefuseMigrate(r) \/ Migrate(r)
    \/ StartCleanup \/ StopCleanup
    \/ CompactLog \/ CompactFails \/ PruneIdempotency

Spec == Init /\ [][Next]_vars

-----------------------------------------------------------------------------
(***************************************************************************)
(* Correctness.                                                            *)
(***************************************************************************)
Steps == [at : 0 .. MaxClock, ver : Versions, body : Body, key : Keys \cup {NoKey}]
States == [steps : Seq(Steps), label : {Label[v] : v \in Versions}]
Requests ==
    {Idle}
    \cup [phase : {"stamped"}, key : Keys, body : Bodies, at : 0 .. MaxClock]
    \cup [phase : {"answered"}, key : Keys, status : {200, 409}, n : Nat]
    \cup [phase : {"migrating"}, to : Versions, at : 0 .. MaxClock]

TypeOK ==
    /\ clock \in 0 .. MaxClock /\ high \in 0 .. MaxClock /\ backs \in 0 .. MaxBack
    /\ state \in States
    /\ contentVersion \in Published
    /\ stateVersion \in Nat
    /\ lastTapFlush \in {NoTime} \cup 0 .. MaxClock
    /\ base \in {NoBase} \cup States
    /\ baseAt \in {NoTime} \cup 0 .. MaxClock
    /\ log \in Seq(Steps)
    /\ idem \in [Keys -> {NoRow} \cup [status : {200, 409}, n : Nat, at : 0 .. MaxClock]]
    /\ lastSeen \in 0 .. MaxClock
    /\ req \in [Slots -> Requests] /\ received \in 0 .. MaxRequests
    /\ job \in {NoJob} \cup [step : {"compact", "prune"}, now : 0 .. MaxClock]
    /\ granted \in Nat
    /\ pruned \subseteq Keys

\* No row of the sequence is rejected on the state the rows before it produce.
Accepted(steps) ==
    \A i \in DOMAIN steps : ~Rejects(SubSeq(steps, 1, i - 1), steps[i])

\* Base plus the remaining log replays the world exactly, and nothing in that replay is
\* rejected: whatever was capped, re-pinned, compacted or left half done by a failed job.
ReplayExact ==
    /\ Replay(ReplayBase, log) = state
    /\ Accepted(ReplayBase.steps \o log)

\* A key's batch reaches the world twice only if its stored response had outlived its
\* retention in between: no retry inside 24 h applies a batch again.
OnceWithinRetention ==
    \A i, j \in DOMAIN state.steps :
        /\ i < j
        /\ state.steps[i].key = state.steps[j].key
        /\ state.steps[i].key # NoKey
        => high - state.steps[i].at > IdemRetention

\* Two requests with one key are told the same, however much later the second is handled
\* and whatever its body, unless the stored response was pruned.
AnswersAgree ==
    \A r, u \in Slots :
        /\ req[r].phase = "answered" /\ req[u].phase = "answered"
        /\ req[r].key = req[u].key
        /\ req[r].key \notin pruned
        => req[r] = req[u]

\* What a client is told is what happened: a 200 names the state its batch produced, and
\* after a 409 no request with that key has changed the world.
AnswersTrue ==
    \A r \in Slots : req[r].phase = "answered" =>
        LET q == req[r]
            at == {i \in DOMAIN state.steps : state.steps[i].key = q.key} IN
        /\ q.status = 200 => q.n \in at
        /\ q.status = 409 /\ q.key \notin pruned => at = {}

\* R-19: all the TAP time a world was ever granted fits between its creation and its last
\* TAP batch, however the batches' stamps are ordered.
TapCeiling == granted <= TapClock

\* Compaction only ever folds away rows older than the retention.
CompactedIsOld ==
    \A i \in DOMAIN ReplayBase.steps : high - ReplayBase.steps[i].at > LogRetention

\* A state_version names one state: no step changes the state under an unchanged version,
\* and a version is never reused.
VersionNamesState == [][state' # state => stateVersion' > stateVersion]_vars

\* worlds.ts handleBatch, cleanup.ts: through repeats, rejections, re-pins, failed jobs and
\* stamps out of order, answers agree with each other and with the log, the base holds only
\* what is past its retention, and every variable has its type.
AnswersSound == TypeOK /\ AnswersAgree /\ AnswersTrue /\ CompactedIsOld
=============================================================================
