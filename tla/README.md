# A formal model of Manufactory Idle

This directory specifies and checks the parts of Manufactory Idle whose correctness is hardest to
establish by tests: what the server promises about a player's world and account under concurrent
requests; what one browser page may do to a world while requests are lost, repeated, delayed and
answered out of order; what every order of actions and resolves does to a world's stock; what the
solver, the resolve loop and the advice answer; which content is let through; and what the
calibrator and its gate conclude. Module names, definitions and actions keep the source's names;
`PROJECT.json` maps every definition to the lines it stands for.

## The system

The game is server-authoritative. A world is a JSON state plus an append-only log; a deterministic
engine resolves it to "now" and applies batches of actions to it. The page never simulates: it sends
batches, adopts snapshots and interpolates them. The content (items, recipes, costs) is authored as
YAML, validated and calibrated offline, and published into the database, where worlds are pinned to a
version of it.

| Component | State | Operations | Talks to |
|---|---|---|---|
| World store (`apps/api/src/worlds.ts`, log compaction and pruning in `cleanup.ts`) | `player_worlds` row, `action_log`, `idempotency` | `applyActions`, `migrateWorld`, `replayWorld`, `compactActionLog`, `pruneIdempotency` | engine, Postgres |
| Identity and accounts (`identity.ts`, `worlds.ts` claim/create, `cleanup.ts` guests) | `players` rows: guest token, SuperTokens user, claimed token | `identityAuth`, `createPlayerWithWorld`, `createGuest`, `claimGuest`, `deleteStaleGuests` | Postgres locks, SuperTokens |
| Outbox and snapshots (`apps/web/src/sync/outbox.ts`, `store.ts`, `snapshot.ts`, `errors.ts`) | head, queue, timers, snapshot, pause, deferred GET | `enqueue`, `pump`, `send`, `settle`, `#handle`, `#adopt`, `#runGet`, keepalive flush | the API over HTTP |
| Identity of the page (`store.ts`, `sync/identity.ts`) | identity, auth phase, epoch, guest token, parked token, claim, wall | boot, guest creation, sign-in callback, claim, park/unpark, sign-out, expiry, new factory | browser storage, SuperTokens, the API |
| Polling and taps (`store.ts`, `refetch.ts`, `taps.ts`) | boundary and deferred timers; hold, accumulator, flush timer | arm, defer, fire, pause, hide, show; press, repeat, flush, leave | outbox, the browser's timers |
| User interface (`ui/PriorityList.tsx`, `priority-model.ts`, `use-pending.ts`) | pending values, drag, open warning | move, drag, warn, pause, mode | outbox, snapshots |
| Engine: economy and actions (`packages/engine/src/economy`, `actions`) | stored, quantum, bound, overflow per item; machines and assignments | BUY, DISMANTLE, ASSIGN, UPGRADE_MARK, SELECT_RECIPE, storage, priorities, TAP | solver |
| Engine: resolve (`resolve/`, with `resolvePrefixes` of `worlds.ts`) | the world at a time; the kept prefix | resolve to a time, discontinuity by discontinuity; schedule | solver, economy |
| Engine: solver (`solve/`) | none (pure) | requirement vectors, waterfall, sweeps, reconciliation, power loop | resolve, advice |
| Engine: advice (`solve/bottleneck.ts`) | none (pure) | the one purchase that would help | solver's report |
| Content (`packages/content`, `engine/src/graph/index-content.ts`) | none (pure) | load, overlay of solved numbers, checks 1 to 12, index | everything |
| Server plumbing (`http/token-bucket.ts`, `db/migrate.ts`, `content.ts`, `main.ts`) | token buckets, advisory lock, bundle cache, loads in flight | take; boot, migrate, publish; get | Postgres, the routes |
| Simulation and calibration (`apps/sim/src`) | a run's world; a search's bracket; the scan; the pool | run to a checkpoint, decide, search, emit, gate | engine, content |
| Rational numbers, accounts backend, deployment | see `PROJECT.json` | arithmetic, configuration, scripts | |

What is hard here, and where it is looked at:

* **Order.** A request's time is read before its row lock, so log rows are stamped out of order
  (Worlds). A page's GET and POST answers, and the content they load, arrive in any order (Sync).
  Workers end in any order (Gate).
* **Repetition and loss.** Every batch may be sent again while its first copy is still running or
  its answer is lost (Worlds, Sync); so may a claim (Accounts, GameStore). A COMMIT may take effect
  and its answer be lost (Boot).
* **Interleaved transactions.** Lazy account creation, claims, batches and guest deletion meet on
  the same rows, statement by statement (Accounts). Instances boot, migrate and publish at once (Boot).
* **State used after an await.** Nearly every store method awaits; identity, epoch, tokens and wall
  may have changed in between (GameStore). Controls show values whose requests are unsettled while
  snapshots move the rows under them (PriorityList).
* **Waiting that nobody ends.** A load shared between a transaction and the root waits for itself on
  a single connection (ContentStore); a page polls only as long as every answer leaves a timer behind
  (Polling); taps wait for a timer that a hidden page may never run (Taps).
* **Long legal sequences.** Purchases, refunds, upgrades, deliveries and settling share three stores
  per item, with caps that change under them (Economy).
* **Agreement of two ways.** A world resolved in one go, in several, from a kept prefix, and drawn by
  the page must come out the same (Resolve); a run resumed from a checkpoint must be the plain run
  (Amounts).
* **Corrections on corrections.** The solver's sweeps, its reconciliation, its reserves and its pins
  each mend what an earlier step left, over shared recipes, and the next solve starts from what
  this one let happen (Solver). The advice walks the result and may come back where it was (Advice).
* **Searches over steps.** Amounts are whole, factors are not, and a run may never get there
  (Bisection, Clearing, Calibration).
* **Interruption.** The page is closed at any point of a sign-in (GameStore); the clean-up job dies
  between its statements (Worlds); an instance is stopped while it migrates (Boot).

## Modules

| Module | Stands for | Kind |
|---|---|---|
| `Worlds`, `WorldsProofs` | one world's row, log and idempotency table under concurrent requests and the clean-up job | component, proofs |
| `Accounts` | players, accounts and guests under READ COMMITTED transactions | component |
| `Intents` | what the outbox promises: one verdict per batch, in the order of submission | abstract specification |
| `Sync`, `SyncProofs` | the page's outbox, GET loop, keepalive flush and snapshot adoption; implements `Intents` | component, proofs |
| `GameStore`, `GameStoreProofs` | which world a page plays: boot, guests, sign-in, claim, park, sign-out, expiry | component, proofs |
| `Economy`, `EconomyProofs` | one world's stock, machines, levels, tier and taps under every reducer and the resolve loop | component, proofs |
| `Ratios`, `Solver` | exact rationals; `solve`: requirement vectors, waterfall, sweeps, reconciliation, power loop | operators, component |
| `Resolve` | `resolve` as a function of a stored world and a window; the kept prefix; the schedule | component |
| `Advice` | the bottleneck report | component |
| `Components`, `Ordering` | Tarjan's walk over the recipes, Kahn's over the items | components |
| `Bundles`, `Content` | checks 1 to 12 on a bundle; loading, validating and indexing one | operators, component |
| `ContentProofs` | what is proved of `Components`, `Ordering` and `Content` | proofs |
| `Limits`, `Boot`, `ContentStore` | token buckets; booting instances; cached and shared bundle loads | components |
| `ServerProofs` | what is proved of `Accounts`, `Limits`, `ContentStore` and `Boot` | proofs |
| `Bisection`, `Clearing`, `Playthrough` | the calibrator's two searches; a simulated run | operators |
| `Staircase`, `Amounts`, `Calibration`, `Gate`, `Policies` | the search on a step function; fitting amounts; the scan of scales; the worker pool and verdict; the four policies | components |
| `ReportProofs` | what is proved of `Advice`, `Staircase`, `Calibration` and `Gate` | proofs |
| `Polling`, `Taps` | who asks for the world next; the crank | components |
| `Pending`, `PriorityList` | the registry of pending values; the priority list over it | operators, component |
| `UiProofs` | what is proved of `Polling`, `Taps` and `PriorityList` | proofs |
| `MC*` | constants and symmetry for TLC; `MCEngine`, `MCServer`, `MCSim` and `MCUi` run parts side by side | instances |

*Side by side*: components that share no state in the code are checked in one run. A behaviour is one
of them, chosen at the start, while the others keep their initial state; so the run's states are the
sum of the parts' and not their product.

### Worlds

A world state is the *term* that produces it: the sequence of steps (resolve to a time on a content
version, then apply a batch) since the initial world. The engine is deterministic, so equal terms are
equal states, and replay is exact exactly when base plus log give the same term. `Receive` reads the
clock, `Apply`, `Reject` and `Repeat` are the locked transaction's three outcomes, `Migrate` the admin
re-pin; `StartCleanup`, `CompactLog`, `CompactFails`, `PruneIdempotency`, `StopCleanup` are one run of
the job, with requests between its steps. `Rejects` and `Misfits` are arbitrary predicates of the
engine and the content, so the theorems hold for every engine.

### Accounts

A transaction `t` moves through the statements of `identityAuth` + `applyActions`, `claimGuest` or
`deleteStaleGuests`, taking row locks and unique-key entries as Postgres does; a blocked statement
waits, re-evaluates its `where` clause on the committed row, and a cycle of waits is broken by
aborting one transaction (the definitions marked external in the map).

### Intents and Sync

`Intents` says that a batch submitted by the page is decided at most once by the server, that its
promise is settled with the true verdict (or "dropped" on stop), and that batches take effect in
order; a keepalive flush is free of the order. `Sync` is the page: the outbox's head, its request and
timer, the 429/503 pause, the deferred GET, bodies whose content still loads, the snapshot. The
refinement mapping reads `submitted`, `verdict` and `told` off that state.

### GameStore

The client is one record `c` (page, stored and parked tokens, session cookie), and the store's methods
are operators on it, composed as the code composes them. A request carries the credential the browser
holds when it is sent, the identity it was sent under and whether the world epoch is still the same.
What was sent stays in `wire` and may be processed at any later time, any number of times.

Whom a page takes itself for (`identity`) and what its requests carry (`cookie`) are two things.
`BootSession` may read a refresh that fails for a moment as no session (`store.ts:1100-1106`), and
`SignInFails` covers whatever throws after the sign-in's POST, whose cookie may be stored by then
(`store.ts:754-767`). Both go on as a guest, unpark included, with the session's cookie in the browser;
requests then carry the cookie, which wins over the guest token (R-13). Such a page is `misread`.

History variables: `made` (the world on screen when a batch was made), and `carried`, `hurried` and
`astray`, the batches and guests of findings 1, 2 and 13 below, which the other properties exempt. A page is
`raced` once it has left one session twice or started a new factory beside an armed retry, and the
guests it makes from then on are `hurried`; the batches made on a `misread` page are `astray`.

### Economy

One world of the game. Every action of a batch is an action of the module (`BuyMachine`, `Dismantle`,
`UpgradeMark`, `AssignMachines`, `SelectRecipe`, `ReorderPriority`, `SetPaused`, `BuyStorage`, `BuyQs`,
`Tap`); a reducer that rejects changes nothing, so a rejection is no step. A resolve is several steps,
in the code's order: `StartResolve` picks the window and caps it, `Settle` moves bound stock down,
`Deliver` pays for one milestone at a time, `Integrate` advances one segment and fires the timers it
passed, `EndResolve` stamps the world. What the solver answers is an input: any net rate per item, any
set of recipes at nameplate. So what holds here holds whatever `solve` answers, and reserve
percentages and the mode, share and target of a priority entry, which only the solver reads, are no
state here. Amounts are naturals: the tolerances of the decimal arithmetic have nothing to forgive.
Cost and cap curves are constants with the monotonicity the content schema gives them; the one
addition is that `capPerTier` is at least 1 (the schema admits numbers in (0, 1), the content uses
none). `banked` is a history variable: what recipes put into an item's stock, less what they took.

### Solver

`solve` is pure; its world `w` (machine-units of each recipe, the state of each item, the priority
list, the reserves, the grid) is chosen at the start. The passes of the power loop are the steps:
`SizeReserves` is the pass without reserves that sizes them, `SolveAtRatio` one item solve at the
current grid ratio, `Balance` the comparison of draw and supply that ends the loop or sets the next
ratio and the power entry's target. `Elapse` is the next discontinuity: an item leaves zero, drains
or fills, and the changed world is solved afresh; timers and milestones, which change a world in
other ways, are not part of it. An item solve is a chain of operators named after the code's
functions: `RequirementVector`, `EffectivePriority`, `Ceiling` and `ServeFrom` (one pass down the
list), `RunPasses` (the floor, then the leftovers), `Disqualified` (ruling R32), `FullSweep`,
`EmptySweep`, `Reconcile`, `SolveItems`. A clock is told as machine-units in use, so scaling it back
by the ratio (`absoluteClocks`) has no counterpart.

Numbers are the exact rationals of `Ratios`, where the code has doubles and tolerances; what is
shown is the algorithm's arithmetic, not its rounding. The capacity table is data.

### Resolve

`Economy` takes a resolve apart, so that reducers and any rates come between its steps. `Resolve` puts
it together: `ResolveWith` is the whole loop (settle, deliver, fire timers, find the next
discontinuity, integrate, with the offline cap, the guard of `MAX_EVENTS` and the coarse steps after
it), over rates that are a *law*: any function of what the solver's cache is keyed by (the items'
states, the tier, the tap stacks). `View` is a GET, which resolves and stores nothing but may keep a
prefix; `Persist` a batch that changes nothing else; `Crank` one that taps; `Repin` a batch on another
content version. Rates are a unit per tick or none, so every event falls on a tick and the code's
`EPSILON_MS` is one. `origin` and `span` remember the world after the last batch that did something,
against which the stored world is compared. `Schedule` and `ShownStock` are what the page draws.

### Content

A directory of files becomes a bundle (`Load`: merge, schema, defaults, overlay of the calibrated
numbers), its recipe graph is walked (`FindComponents`, one turn of Tarjan's loop
at a time, which may look at a node's successors in any order), the checks
are judged (`Validate`) and the engine indexes what passed (`IndexContent`, then `OrderItem` and
`EndOrder`, Kahn's walk, with the engine's own item, power, as its last). A rate is whether an item is listed. The properties compare the verdicts with
references about a player (`Played`: what machines that stand in lanes come to make; `Climbs`: whether some
order of purchases leads up both ladders) and with reachability for the walks. The bootstrap of check 7 and
its reference run until a turn adds nothing; each is the least of the states a turn leaves alone.

### Limits, Boot and ContentStore

`Limits` is one `TokenBucket`, on a clock that does not step back (where it does, the code takes no time to
have passed: `Elapsed`): `Take` is the whole call, with the sweep it may trigger and the eviction of
the coldest key; `fair` is, as history, a table that never forgets. `Boot` is the instances of one
database: `Lock`, `Check`, `Skip` or `CommitFile` per migration file, then the clash check and the insert of
a bundle; `CommitLost` applies a transaction whose answer is lost, `Stop` kills an instance anywhere,
`Redeploy` starts it with any bundle. A transaction's writes show when it commits, and READ COMMITTED
reads what was committed then. `ContentStore` is `get`: a hit, a miss that shares a load in flight, a
load that ends (`Settle`) or fails, by requests inside and outside a transaction (`BeginTx`, `EndTx`), with
one connection (PGlite) or two (pg).

### Advice

A report `w` of a solve goes in, the advice comes out. `AdvisePower`, `AdviseMilestone` and `AdvisePriority`
are the three stages; `Drain` is a step of the walk along full outputs, `Walk` the search for who makes a
missing payer, `Pay` one redirect from a price nobody can pay. The reports are built as a solve could
give them (`MCEngine`): a machine runs that is built, fed and not held, and stock and net rates agree.

### Bisection to Policies

`Bisection` and `Clearing` are searches as records: what they try next and what they learn from its
answer. `Staircase` asks one of a non-decreasing step function; `Amounts` asks it of `Playthrough`, whose
`Simulated` is `runSimulation` with greedy's cadence over one item, from a checkpoint or from the start;
`Calibration` scans scales, solves a storage factor for each with `Clearing`, refines the winner and
emits: `Open` sets a search up, each `Probe` is one run of the game it asks for, and `Storage`, `Single` and
`Refine` take the factor it ends with. `Gate` is the pool: `Message` and `Failure` are a worker's last words, each starting the next
job, and the last one judges. `Policies` has a decision of each policy as one action (its actions applied
one at a time, as `run.ts` does) and `Elapse` between them, with everything the solver says left free.

### Polling and Taps

`Polling` has the timers (boundary, deferred), the GET and the POST in flight, and every way an answer
ends: adopted, failed, paused by 429 or 503, a client bug; `silence` records the two ways a page may
stop asking. `Taps` counts time in repeats: `Press`, `RepeatFires`, `FlushFires`, `Release`, and what ends a
hold from outside (`Leave`, `SignIn`, `Halt`). Timers fire late but never early.

### Pending and PriorityList

`Pending` is `use-pending.ts`: the value a control shows carries the token of the request that asked for
it. `PriorityList` has the rows moved by step and by drag (`StartDrag`, `Drop`, `CancelDrag`), the warning
that guards the power row (`AnswerMove`, `AnswerCancel`), one row's settings, the line of batches the outbox
would send (`Serve`, `Refuse`, `Land`, `Settle`), and what changes the list from outside (`Foreign`,
`TierUp`, `Refresh`). The reducers' clean-up of an order is part of `Serve`.

## Runs

Most properties are conjunctions of named parts, which the definitions above them state one by one:

| Property | Parts |
|---|---|
| `Worlds.AnswersSound` | TypeOK, AnswersAgree, AnswersTrue, CompactedIsOld |
| `Accounts.OwnersRight`, `OnlyStaleGuestsDeleted` | TypeOK, OneWorldPerAccount, ClaimAnswersTrue; AccountsKept, FreshGuestsKept |
| `Sync.SpendsCounted` | TypeOK, ListedOrCounted, NotCountedTwice |
| `GameStore.GuestSafe` | TypeOK, WorldNeverLost, OneToken, GuestOnItsWay |
| `Economy.PoolsFit`, `StockLegal` | TypeOK, AssignedWithinPool; StockWithinCaps, StacksHaveTimer |
| `Solver.FlowsHold` | TypeOK, EmptyNotOverdrawn, GridBalanced, FullGrowsForLack |
| `Resolve.ResolveAgrees` | OnlineIsOffline, PrefixResumes, StraightLines |
| `Content.GraphRead`, `ChecksTellTheTruth` | ComponentsAreCycles, ItemsOrdered; MarksBuyable, NoFalseAlarm |
| `Limits.RatesHold`, `Boot.BootsAgree`, `ContentStore.GetsAnswered` | RateBound, WaitIsEnough; EachMigrationOnce, LabelsPartInARace; EveryGetAnswered, FailureForgotten |
| `Advice.AdviceHelps` | NeverGivesUp, JamIsSeen, Unblocked, DeadEndsAreWalked |
| `Staircase.SearchFinds`, `Amounts.ReportsPlay` | NoHitMissed, AnswerMeasured, BracketHolds; PlayedAsReported, OkIsOnTarget, FilterAgrees |
| `Calibration.EmitsOnePair` | EmitsNoRunaway, EmitsTheBestPair, RefinesOneWinner, SmallestCap |
| `Gate.GateTells`, `Policies.DecisionsSettle` | GateAnswers, GreenIsMeasured, FailureStopsThePool; NothingRefused, GivenOnce, ReorderSettles |
| `Taps.CrankHolds`, `PriorityList.AskedHolds` | TapsKept (EveryTapCounts, FlushOnItsWay, NothingDiscarded), FlushesApart; HeldIsNewest, AskedLands |

| Run | Question | Bounds, and why they are enough |
|---|---|---|
| `worlds` | replay, idempotency, answers, TAP budget, compaction | two requests at once, two keys, one buying and one tapping body, three versions with a shared label, clock up to 3 with one step back, retention 1, three requests: stamps cross, keys repeat while running and after pruning, a re-pin falls between logged rows, compaction cuts in the middle |
| `accounts` | one world per account, claims, deletion | two accounts, two guests, two concurrent transactions and the cleaner: every pair of operations, each waiting for each other |
| `sync` | the outbox implements `Intents`; the view is exact and monotone; every batch settles | two ordered batches, one keepalive flush, two reads in flight, two disturbances (failures, pauses, stops): the second batch queues behind the first, and a late answer can overtake |
| `store` | whose world a batch reaches, tokens, guests | one account, two guests, one batch: a second guest exists beside the first for every path that makes one; any number of reloads and sign-ins, refreshes that fail for a moment. Until an account has a part (`MCGameStore.Bound`), three guests and two batches, so that a retry can outlive two new factories. Beside an account, four different requests on the way, and one kind of exception at a time (carried, hurried, astray): 3.0 million states; each exception, left out, is violated within these bounds. The proofs need no bound |
| `replaced` | a promise of `store.ts` | as `store` (violated, see Findings) |
| `economy` | conservation, caps, assignments, tap stacks, what binds stock, what gates a tier | two items, one pool of two marks with two machines each, three recipes of which two compete for an item, one level of each kind, two tiers, windows of 3 with an offline cap of 2, clock up to 4, net rates -1..1: every reducer follows every other, both deliveries can fall in one window, a timer falls before, on and after the cap |
| `solver` | empty items, the grid, banking off zero, full items, what priority costs | a factory of five items with a byproduct and fuel, one recipe each; four priority lists (power first or last, an intermediate first, a share group), three layouts of machines, a reserve or none, 108 states of the items, a poor and a rich grid: 5,184 worlds, and the next discontinuity of each. Floor 1/4 for the code's 0.02, so that what it takes is seen; four power passes for the code's eight, since fractions outgrow TLC's integers beyond |
| `engine` | *advice*: does it end, and help. *resolve*: does it matter when and how often a world is resolved | Advice: some 200,000 reports of four items and six recipes (a byproduct, a two-input press, an alternate, a locked one), three levels of storage, two milestones. Resolve: two items, three laws, three starting worlds of which two have bound stock, two milestones, windows of 0 to 7 ticks against an offline cap of 5, four events before the guard and coarse steps of 3 after it: a window holds a delivery, a fill, a drain and a timer, is cut by the cap, and passes the guard |
| `content` | cycles, item order, checks 7 and 12 | 4,198 directories: four or five recipes with any of five inputs; shops of two machine classes over costs, lanes, tiers and starts; economies of two curves over solved numbers; a few malformed ones. Components of every size up to four, marks that pay for each other, ladders that outgrow their cap by one |
| `server` | rates, migrations, shared loads | three keys in a table of two, two tokens each of three units, a sweep every third tick or second insert; two instances, two files, three bundles of which two share a label, two stops; three requests, a cache of one, three versions of which one does not exist, one failed load |
| `sim` | the searches, the amounts, the pair that is emitted, the gate, the policies | every non-decreasing function on seven amounts with six readings, four seeds; three milestones over four authored amounts each and twenty-four target curves; four grids, 120 bundles, all options; two gates and the rerun on a pool of two, every combination of nineteen reports; three recipes and two tiers, money up to 5 |
| `ui` | polling, the crank, the priority list | three versions, five answers; seven ticks, of which a flush waits four; three rows and a newcomer, two requests unsettled and a foreign change: a drag, a landing snapshot, a refusal and a tier fall in every order |

Every bound is a named constant of its module or an operator of its `MC` module. Deadlock checking is
off where the bounded events run out (`sync`, `solver`, `engine`, `server`, `ui`), the guests do
(`store`), or a computation ends (`content`, `engine`, `sim`).

### Fairness

`accounts`: weak fairness of every statement and of the cleaner: Postgres runs what it has accepted
and wakes waiters; nothing is assumed about clients. `sync`: timers fire and pauses end, a request
sent again and again is processed once, and an existing answer gets through one of the times it is
asked for (strong fairness: the network may lose any given answer). `server` (`StoreFairness`): a
request that began its transaction goes on to its read and ends it; a load that is again and again
able to run ends, well or not (strong: on one connection it must wait its turn). `sim` (`GateFairness`): every worker ends and is
heard of, which `stopWhenDeadMs` and `maxSimMs` bound. Nothing is assumed fair in `ui`: `PollsOn` is the
safety half, that somebody is going to ask.

## Findings

One is kept as a run that TLC violates; the others name the definition that states what the code or a
document says. TLC finds each of them violated under its module's bounds when it is put into the
configuration; the properties that are checked say what holds instead, with the exception spelt out.

1. **Bug** (run `replaced`, `TokenNotReplaced`): while `signOut` holds, a GET's 401 can end the session
   first and make a guest. If that creation fails, its retry timer outlives the sign-out's own end, which
   makes another guest; the timer's guest then replaces the stored token. That world is lost, and a batch
   made on it is applied to the other. `newFactory` clears the timer as little: beside an armed retry it
   starts a creation of its own, and both guests are kept. (A retry is armed behind the wall when the
   batch of finding 2 is resent before the new guest exists, and its 401 raises the wall again.)
2. **Bug** (`GameStore.BatchReachesItsWorld`): a batch in flight when the guest-expired wall comes up
   survives `#outbox.clear`, and `newFactory` does not clear it: after a failed attempt it is resent with
   the new guest's token and applied to the new world, which the comment in `#expire` excludes.
3. `Accounts.RepeatedClaimSucceeds`: a claim repeated while its first request commits gets 404, where the
   README promises 200.
4. **Bug** (`Polling.KeepsPolling`): an answer to a POST that is older than the snapshot clears the
   deferred GET in `#adopt` and arms nothing; if that GET was the retry of a failed one, the page stops
   asking until it is shown, focused or online again.
5. **Bug** (`Solver.AllocationsFit`): when the FULL sweep stops a higher entry, the reconciliation hands its
   share of an upstream recipe the sweep did not touch to a lower entry, whose own recipe runs on the
   reserve floor's leftover: the entry is told a rate its recipe does not run at (3 times it at the model's
   floor of 1/4; 49 times at 0.02 by the same arithmetic). Ruling R31 and its property test exclude it.
6. `Solver.ReserveBanks`: a reserve on an item that is made only while it is empty flickers: the item rises
   off zero, the pass that sizes the reserve then finds it unmade, the reserve is void, its consumers drain
   it to zero, and it starts again. The comment in `effectivePriority` promises that a drained item banks.
7. `Economy.BoundSettled`, `Resolve.SettleIsIdempotent`: `settle` moves bound stock down before it delivers
   milestones, and a delivery raises the caps. If it is the window's last, the world returned has bound
   stock beside room in Quantum Storage, which the property tests and `index.ts:130` exclude. The next
   settle moves it, so a world stored in between differs by that from one resolved in one go. Two more
   ways a world's history shows, beside those `index.ts` lists: an item that is FULL and drains leaves its
   cap without an event, so its rates outlast the state they were solved for; and bound stock beside
   draining quantum moves in at the next settle, off the line the page draws. `OnlineIsOffline` and
   `StraightLines` exempt exactly these.
8. `Boot.OneLabelOneChecksum`: `openContentStore` looks for a clash and inserts in one transaction without a
   lock, so two instances that boot at once with different bundles under one label publish both. The
   engine's expansion cache is keyed by the label.
9. `Advice.NoMachineIntoAJam`: a requirement that fills its cap below the milestone's amount while its
   machines stand elsewhere is answered with a machine that the FULL sweep holds.
10. `Content.BootstrapIsReal`: check 7 asks which classes are owned and not in which lane they stand, so
    what it calls makeable may need a machine in a lane that has none. `Content.LaddersClimbable`: check 12 prices each of the two ladders with the other
    at its top, so they may wait for each other and check 9's premise does not follow.
11. Calibration: the warm seed is emitted for a factor that was to be held as authored, once the fallback
    is taken (`Calibration.CapHeld`, `calibrate.ts:683`); "no capPerTier up to" the ceiling "clears" is also
    reported where the ceiling would, untried (`Calibration.NoneUpToTheCeiling`); a search that runs out of turns reports its last try and not the
    closest (`Staircase.ClosestStep`); a milestone that rode along with another is not played as it is
    reported (`Amounts.PlayedExactlyAsReported`).
12. `PriorityList.WarningIsCurrent`: the warning sends the order computed when the move was asked for, with
    whatever changed under it undone.
13. **Bug** (`GameStore.BatchReachesItsWorld`, and `NothingStranded` without its last disjunct): on a
    `misread` page the guest's GET carries the session's cookie, so it makes the account's empty world before
    any claim, which the comment at `store.ts:1135-1136` excludes ("a GET first would ... strand the guest's");
    the guest is parked at the next sign-in. And the page shows the account's world: a batch made on it that is
    sent again after the session has died carries the guest's token and is applied to the guest's
    world, though "the account's batches never reach the guest's world" (`#leaveSession`). No token is
    lost: `GuestSafe` has no exception for it.

The solver's properties also have edges worth knowing. A FULL item does grow, where the EMPTY sweep
takes back a consumer the FULL sweep had counted on (`FullGrowsForLack` names the one way; a property
test of the engine says never). `LiftedStays`, what ruling R32 is for, holds only where neither sweep
throttles and no reserve is set: `PROJECT.json` lists the hazard. With no base grid and no supply the
ratio goes 0, 1, 0, ... and ends where the parity of `POWER_PASSES` leaves it.

Smaller divergences the models allow, which no run demonstrates:

* `replay_base_at` is not the base state's `lastResolvedAt` when stamps cross (nothing reads it); a stale
  guest who acts during the deletion can be the deadlock's victim and be deleted; a deferred GET is
  cleared by an answer older than the batch it was to fetch (`ListedOrCounted` exempts that batch).
* Past the offline cap the server skips the head of the window: a tap timer that falls in it never counts.
* Check 10 counts generators on a cycle, which no player can select (`scc.ts:110-113`); the schema's default fills `capPerTier`
  into a partial overlay of storage; nothing checks that a milestone's item can be made below its tier.
* The gate never judges a pin above `reachesTier` nor a tier without a target, and a worker that exits with
  0 and no message hangs it. A grid whose every scale is refused emits scale 1 with the warm seed.
* `clampAssignments` takes the whole excess from the biggest; UPGRADE_MARK floors its equivalent.
* A weak deferred GET after a client bug fires and asks nothing of a young snapshot; `flushTaps()` without
  keepalive is never called; a refused setting stays shown, and is sent again by a later one, while
  another is pending.

## Proofs

`WorldsProofs` proves, for all constants satisfying the named assumptions of `Worlds`:

* `TypeCorrect`: by one lemma per action on the records it builds.
* `TapCeilingHolds`: inductive as it stands with `TypeOK`; the cap is taken against the flush the
  same transaction moves, so a negative budget neither grants nor winds back.
* `ReplayExactHolds`: strengthened by `ReplayInv`, which adds that the base's label is its version's
  and that every prefix of the log is accepted; compaction splits one concatenation (`ReplayFold`),
  an append extends it (`ReplayAppend`).
* `OnceWithinRetentionHolds`: strengthened by relating every step of the state that carries a key to
  the stored response or to a pruning after the retention.
* `VersionNamesStateHolds`: the action property, from `TypeOK`.
* `AnswersSoundHolds`: strengthened by `AnswersInv`: a stored row names the response of a step that is in
  the state (or a rejection), and an answer that a request holds is the row's, until the row is pruned.

`EconomyProofs` proves, for every content that satisfies the assumptions of `Economy` and whatever the
solver answers:

* `TypesHold` and `StockStaysWithinCaps`: each needs the other, since a store never goes negative
  because spends and drains are bounded by what is there, and a deposit stays within its cap because
  the cap never falls while a level or tier rises. The invariant is `StockInv`, proved once for each
  operation on a stock (settle, refund, build, delivery, flow) and then for each action.
* `TapStacksHaveTimer`: strengthened by `TapsInv`, which says what a timer may be while the loop is
  inside a window: after the cursor, and after the clock once the window is used up.
* `BoundStockIsRefund` and `CapsGateTiers`: action properties, from the same invariant.

* `StockLegalAlways`: the two together, the property of the run.
* `PoolsAlwaysFit`: no pool's recipes hold more machines than it has, through purchases, dismantling,
  `clampAssignments`, upgrades and recipe switches. Its invariant is `PoolInv`.
* `MaterialIsConserved`: what an item's stock holds is what recipes put in, less what was paid. Its
  invariant, `MaterialInv`, adds that the tier never falls below the start's.

The last two are about sums over sets of machines and items, which the module writes with `FoldFunction`.
The fold's definition chooses a function on the subsets that unfolds one element at a time; that there is
one, that it gives the sum and that the order does not matter is proved by minimal counterexamples among
finite sets (`TotalIsSum`, `SumTakes`), and with it what a sum does when one term changes. They assume
that the sets are finite and (`StartFits`) that the authored start assigns no more machines than it gives.
`load.ts:250-262` does not check that; every shipped `start.yaml` satisfies it.

`ContentProofs` proves of Kahn's walk, for every finite item graph (self-loops, dead ends and unknown
inputs included):

* `PlacedInOrder`: no item is placed before one it is made from. The strengthening `CountInv` says that
  `remaining` is the number of an item's inputs still to be placed, which needs the cardinality of a set
  less one element, and that `ready` holds exactly the unplaced items whose count is zero.
* `LeftoverIsCyclic`: when the walk ends, each item it left is made from another it left, so the tail that
  the code appends in authored order is only ever cycles and what hangs on them.

Of loading, validating and indexing it proves `GraphAlwaysRead` (`GraphRead`), for every directory of
files. Of the engine's index it says more than `LeftoverIsCyclic`: in a bundle that was accepted nothing is left,
so every item stands after all it is made from. The engine's power is one of the items that are ordered: no
recipe of a bundle names it, since references are checked against the items and none of them has its name.

* Tarjan's walk: `WalkInv`. The stack and the open visits are in the order in which nodes were found
  (`ListsOK`); a visit reaches everything above it on the stack (`ReachesUp`); `low` is the number of
  a node on the stack that its node reaches, and is less than the node's own number once its visit is over
  (`LowReached`); of each successor that was looked at, `low` knows (`LookedAt`), and of each visit
  that ended in between, the open visit below it knows (`Enclosed`); and what has left the stack leads
  nowhere else (`SettledClosed`), with its cycles found (`CyclesFound`). When `low` and number agree,
  what lies above on the stack leads only to itself and to what is settled, and reaches back: it is the group.
* `ReachesUp` and `SettledClosed` are about paths, and `Reached` is the least set closed under the edges, so
  each is used by exhibiting a closed set; no induction over paths is needed.
* `ContentInv` carries this from phase to phase: a bundle that loads has its graph of recipes (`Loaded`), one
  that passes has no id twice and no reference astray (`Checked`), and one that is ordered keeps the
  invariant of Kahn's walk. If Kahn's walk ended with an item left, each left item would be made, by a recipe on
  no cycle, from another one left. Of the recipes that make a left item, take one that reaches the fewest: what
  it is made from is left too, so another such recipe makes that, and reaches strictly less, since the
  first is on no cycle (`NothingLeft`).

It assumes nothing of the files but what `BundleOK` admits: lists may be of any length, ids any values.

Of the checks it proves `ChecksAlwaysTellTheTruth` (`ChecksTellTheTruth`), for every directory of files:

* `VerdictInv`: what was loaded is whole where checks 7 and 12 reckon with it (`Measured`: the overlay of
  solved numbers obeys the schema of the fields it replaces, and the deepest tier is one of finitely many),
  and the verdict that stands is the one the checks give of the bundle that stands.
* Check 7: each way, a state the one account leaves alone is turned into one the other leaves alone
  (`PlayedIsProducible`, `ProducibleIsPlayed`): of owned classes, those that stand in every lane that has a
  recipe for them; of classes, the machines of those classes in every lane. Since each account is the least
  of its states, what it makes is in the other.
* Check 12: below a level that costs more than can be held with the other ladder at its top, the levels up to it
  are closed under every purchase (`LadderStops`), because a curve's capacity grows with its level
  (`CapGrows`). That powers follow their law (`Powers`) is a hypothesis: the provers know nothing of `^`.

`ReportProofs` proves `AdviceAlwaysHelps`: `AdviceHelps`, all four parts, for every bundle and every report. The
bundle is indexed (`Indexed`: what recipes, prices and requirements name exists). The report
satisfies `ReportOK`: its selections and levels are of the bundle, and the recipe that limits an entry is
live, since `expand.ts` admits no other; the reports of the run are held to the same. The invariant `AdviceInv`
says what each stage may rely on: which requirements the walk along full outputs has passed (`WalksOK`);
that each redirect has visited one item more (`PassesOK`), which bounds the loop by the number of items;
and what holds of an answer before it is final (`AnswerOK`: its recipe is live, what it starves for was
visited, its jams are the target or behind it).

Of the calibrator it proves `NothingIsBracketedAway`, for every staircase, tolerance, seed, floor and bound on the
turns: `BracketHolds` and `AnswerMeasured`. `SearchInv` says, for each stage of the search, on which side of the
target each end it carries was measured, that it was tried, and that an end which is no hit is one below or
above. That a bracket excludes no answer then needs the stairs to rise over any distance and not only from step
to step; no induction is at hand, so `Climbs` takes the least amount at which they have fallen. The assumptions
are `Options` and `StairsAreWhole`: amounts, times and bounds are naturals, the factor's base is not 0.

`SearchAlwaysFinds` (`SearchFinds`) adds `NoHitMissed`: where some amount lands within the tolerance the search
converges. `FindsInv` measures the bracket against the turns that are left: the steps out reach the ends of
the amounts in four-fold strides, each split halves what lies between, and a bracket too small to split holds
no amount untried. It assumes `BoundsSuffice`, which says of the bounds what the code leaves to its numbers:
that strides, splits and smallest bracket are enough for the amounts there are. With the code's 12 splits and
a smallest bracket of 1e-4 they are for amounts up to about 1,000, with the 6 splits of the coarse scan for
about 15; beyond, the code promises no hit. The law of powers of 2 and 4 is a hypothesis.

`CalibrationEmitsOnePair` (`EmitsOnePair`) is the scan's: for every bundle, grid and pair of options, and
whatever the simulator answers. `CalibrationInv` says, until the fallback is taken, that each factor that was
solved is one its search ended with, that the best of the points is the first that none beats, that the
refinement keeps the coarse winner it goes round (`RoundOK`), and how wide the search under way still is for the turns
it has left (`SearchOK`). After the fallback only `EmitsNoRunaway` is kept, and all that is said of an
emitted pair has that exception, as in the code. `TurnsSuffice` asks for turns enough to halve any factor to the floor: the code's 24
do for factors below 2^24 units. The run satisfies both assumptions on the bounds (`MCSim`'s
`TurnsAreEnough`).

Of the gate it proves `GreenIsAlwaysMeasured` (`GreenIsMeasured` and `FailureStopsThePool`), for any number of
gates and processors and any reports. `PoolInv` adds what the code's counters stand for (`Counted`): jobs are
started in order, those in flight are the ones that run, what is filed under a job is what that job said, and
`doneJobs` is how many are filed, so the verdict is passed exactly when all are. `GatesAndReports` asks for
a gate per policy, a target for every tier a gate asks for, and a time for every tier a report reached.
Green also means that no report has a class whose effective growth ran to the floor.

`ServerProofs` proves `RatesAlwaysHold` (`RatesHold`) for any capacity, refill, table size and sweep. The
order of use that JavaScript's `Map` keeps is a relation in `Limits`, not a sequence, because filtering a
sequence is a fold. `LimitsInv` adds that a key has no more in the table than in one that never forgets
(`NoBetter`: an evicted or swept key restarts full, and was full), and that what a key was told to wait
suffices from its present entry (`Suffices`). Of `ContentStore` it proves the safety of shared loads, for
any number of requests, versions and connections: `FailuresStayForgotten` (`FailureForgotten`) and
`TransactionsNeverWaitForThemselves` (a transaction only ever waits for a load on a transaction's own
client, so holding every connection blocks nobody: what `EveryGetAnswered` needs besides fairness).

It proves `BootsAlwaysAgree`: `BootsAgree` for any number of instances, migrations, bundles and
stops, given that `NoOne` is no instance. `BootsAgree` does not say why it stays true, so `BootInv` adds it:
`LockGuards` (what an instance read of `schema_migrations` under the lock holds until it lets go, because
only the holder commits), `BehindIsApplied` (every file before the one an instance is at is recorded,
whoever applied it), `RanAsRecorded` (the SQL and its row commit together) and `NoClashSeen` (a publisher
saw no clash when it looked, whatever was published since).

Of any number of accounts, guests and transactions it proves `OwnersAlwaysRight`,
`BatchAlwaysReachesOwner` and `CleanupSpares` from one invariant, `AccountsInv`: a row is a guest's, a redeemed
guest's or an account's own, and no account has two (`RowsFit`); locks are exclusive; a claim's answer agrees
with the rows (`AnswerTrue`); and, per transaction and point of its code, `Knows` says what it has read and which
lock or unique key keeps it so. That a step of one transaction leaves the others' knowledge alone is proved
once, in `StepKeeps`, from what a step may do to a row.

`SyncProofs` proves of any number of batches, flushes, reads and failures `OutboxImplementsIntents` (every
step of `Sync` is one of `Intents` or a stutter), `SpendsAlwaysCounted` and `PageNeverGoesBack`, from one
invariant, `SyncInv`:

* `Ordered`: the settled keys, the head and the queue are, end to end, the submitted keys. With `SentInTurn`
  (what was sent has gone around the queue or has left it) a key that the server decides comes after keys
  that are decided or given up, which is what `Intents` asks of `Decide`.
* `ToldTrue` and `HeadTrue`: what was told, or is being adopted, is what the server answered, and it is
  shown (or its adoption failed) before it is told: so no batch is in no place.
* `FromOnce`: a key whose response is the snapshot is the settling one or has left the outbox, so no batch
  is in two places; `Around` adds that a flush under way is not queued yet, for `FlushRetried`.

The steps fall into seven families by what they do to the outbox (`ServerSteps`, `GetSteps`, `PhaseSteps`,
`PumpSteps`, `Joins`, `Bypasses`, `Settles`); a lemma on each operator (`PumpIs`, `EnqueueIs`, `SettleIs`)
says what it does to the order, for any outbox.

`UiProofs` proves `PageAlwaysPolls`: `PollsOn` for any number of batches, answers and triggers. With the
types and `ServedIsReal` (an answer carries a world, so adopting it never leads back to "no snapshot") it
is inductive. The lemmas follow the helpers (`Arm`, `Defer`, `Heard`, `Adopted`, `WantGet`) field by field,
and `WantKeeps` says once for the seven steps that want a GET why the page is left with a timer. Further:

* `CrankAlwaysHolds` (`CrankHolds`), for any periods, given that the engine grants two taps in the time of a
  repeat (`Pace`). `TapsInv` adds that the taps that wait number at most the instants since the first of
  them (`TapsSpread`), so a batch is always granted whole, and that a flush, whatever set it, is due a period
  after the last one (`DueLater`).
* `AskedAlwaysHolds` (`AskedHolds`), for any entries and any number of requests under way, given that a
  token is no `Nobody` and that the start's list has power first. `PriorityInv` says for the list, the mode
  and the pause separately that the newest request in line, or the server when there is none, has what was
  asked last; that the snapshot lags by the answer on its way only (`SnapshotFollows`); and that no order
  on its way takes power off the top without the warning (`PowerOnTop`).
* `ListNeverJumps` (`NoJump`), for any list of distinct entries. It proves more than the run checks: as long as
  nobody interferes, the list and the settings shown are what was asked for last (`ShownIsTold`), so no answer
  can move them. That an order held is the order shown needs every order to have the entries of the first
  (`Members`, else the page falls back to the server's), hence that a move is a permutation: `PlacesAre` (the
  visible indices are numbered from 1, each once, by counting), `MovedIs` and `ReorderIs`. The rows of
  `PriorityList` are written with that count rather than a filter, which the prover cannot look into.

`GameStoreProofs` proves, of any number of guests and batches and with no bound on what is on the way,
`BatchesStayHome` (`BatchStaysHome`), `GuestsAreSafe` (`GuestSafe`, all four parts) and `NoWorldStranded`
(`NothingStranded`), with the exceptions these definitions state: the batches carried into a new factory and
the guests of a raced page in the first two, a misread page in the first and the last. It assumes of the constants that tokens, batches, the account's world, the session's
credential and `None` differ. The store's methods are operators on the page's record, so the invariant is a
predicate of such a record `x` and of its surroundings `s` (the worlds, the claims that were sent, the
history), and each method has a lemma that says what it changes and that it keeps `Core(x, s)`: also in the
middle of a method that calls others, where `GuestOnItsWay` does not hold yet. `BatchStaysHome` is far from
inductive; `Core` adds what makes it so:

* `Asked`: a request that is not outdated was sent for the page's present identity, with what that identity
  holds; this is why a refusal that is not ignored (`Over`) means the page's own world is gone.
* `Queued`, `FlightHome` and `Posted`: each batch that waits fits the identity's world, except an outdated
  head, which leaves without another request; what was sent can reach no world but its own, forever. On a
  misread page this is not so, and a batch that waits there is `astray`.
* `Making` and `Kept`: nobody makes a guest for a page that has one, and every live guest's token is the
  stored or the parked one. A page on which two creations may race is `Loose`, and exempt.
* `AsSession`, `AsGuest`, `Blank`: which fields a session that is claiming, a guest and a page that is
  still booting may have set; a claiming session is quiet, so its answer finds nothing to misdirect.

`NoWorldStranded` follows from the invariant and, for each method, from where its GET comes from
(`GetFrom`): a request that carries the session was sent by a session's page, by a misread one, or before.

Only model-checked, and why:

* `Solver` (`FlowsHold`, `LiftedStays`, `LowerCostsOnlyTheFloor`) and what it feeds, `Resolve` and `Policies`:
  requirement vectors, sums over recipes and the release of suspects recurse over the graph, and fractions
  are reduced by a recursive `Gcd`, so neither the laws of arithmetic nor an induction along the list is at hand.
* `Playthrough` and `Amounts` (`ReportsPlay`): that a run resumed from a checkpoint is the plain run is an
  induction over the steps of a recursive run.
* All liveness (`EveryGetAnswered`, `GateAnswers`, `Intents`' promises, the claims), which rests on fairness.

## Not modelled

* Of the solver: how the capacity table is computed from machines and multipliers, which recipe
  limits an entry, the expansion cache, tolerances, and `seedPins: false`, which only tests ask for:
  with it on every item without stock is pinned before the loop that pins overdrawn items without
  stock, so that loop never turns.
* Of resolve: rates other than a unit per tick or none, and so the arithmetic of fractional events; the
  summary of what was made. That the solver is a function of what its cache is keyed by is an
  assumption of `Resolve`, not a result.
* That a batch is all or nothing: the server applies its actions to a copy (`Worlds` has the batch as
  one step); lifetime counters.
* Several tabs, storage that falls back to memory, and answers from a proxy (a foreign 401 under a
  live session, a repeated foreign 404): the store has no defence to check; see also "hazards".
* `stop()` in `GameStore` (the app never calls it; `Sync`, `Polling` and `Taps` have it), notices.
* A server with accounts switched off, for which a page is a guest.
* Of the server: a rate limit's clock that steps back; routing, error bodies, admin tokens, logging:
  straight-line code with tests.
* Of the content: an item that has the name of the engine's power (`ItemOK` excludes it), names, icons, the
  parsing of rates, the checksum, check 11 (pacing, which the gate judges).
* Of the advice: how many machines to buy; prices do not grow with the machines owned.
* Of the simulation: the interactive commands, reports and pins as text.
* Of the page: the other controls (they use the same registry), rendering, focus, formatting, the length of
  the repoll gap. The accounts backend is configuration; deployment is scripts.

## Plan

1. Done: every module above, and the proofs above.
2. Proofs: single steps of `Solver`, once its sums and fractions are written without recursive operators: the
   sweep in topological order never undoes an earlier item (`EmptyNotOverdrawn`).
3. `apps/web/src/ui/quote.ts` and `preview.ts` against the reducers: what a button promises and what
   the server charges after other batches.
4. Fractional rates in `Resolve` over `Ratios`.
