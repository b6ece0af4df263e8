-------------------------------- MODULE Boot --------------------------------
(***************************************************************************)
(* apps/api: instances that boot, migrate and publish over one database,   *)
(* and stop: main.ts, db/migrate.ts, content.ts openContentStore, with the *)
(* transactions of db/pg.ts. A transaction's writes show when it commits.  *)
(***************************************************************************)
EXTENDS Naturals, FiniteSets

CONSTANTS
    Instances,
    Files,             \* migrations 1..Files, in name order
    Checksums,         \* bundle checksums
    NoOne,
    MaxStops           \* bound on crashes and lost answers, of all instances

ASSUME BootAssumption == Files \in Nat /\ NoOne \notin Instances

LabelOf(c) == c[1]     \* a checksum is <<label, n>>: bundles of one label may differ

VARIABLES
    stage,             \* instance -> where it stands
    file,              \* instance -> the migration it is at
    bundle,            \* instance -> the checksum of the bundle it was shipped with
    lock,              \* who holds the advisory lock MIGRATE_LOCK_KEY
    schemaMigrations, contentVersions,                \* committed rows
    ran,               \* file -> how often its SQL was committed
    looked,            \* instance -> the versions published when it looked for a clash
    checkedAgainst,    \* checksum -> those its publisher saw
    stops

boot == <<stage, file, bundle, lock, schemaMigrations, contentVersions, ran, looked, checkedAgainst,
          stops>>
database == <<lock, schemaMigrations, contentVersions, ran, looked, checkedAgainst>>

BootInit ==
    /\ stage = [i \in Instances |-> "off"] /\ file = [i \in Instances |-> 0]
    /\ bundle \in [Instances -> Checksums]
    /\ lock = NoOne /\ schemaMigrations = {} /\ contentVersions = {}
    /\ ran = [f \in 1..Files |-> 0]
    /\ looked = [i \in Instances |-> {}]
    /\ checkedAgainst = [c \in Checksums |-> {}]
    /\ stops = 0

Goes(i, where) == stage' = [stage EXCEPT ![i] = where]

\* A bad DATABASE_URL, PORT, TRUST_PROXY or accounts setting ends the process.
Start(i) ==
    /\ stage[i] = "off"
    /\ \E ok \in BOOLEAN : Goes(i, IF ok THEN "waiting" ELSE "exited")
    /\ file' = [file EXCEPT ![i] = 0]
    /\ UNCHANGED <<bundle, database, stops>>

\* The first statement of a migration's transaction (0 creates schema_migrations).
Lock(i) ==
    /\ stage[i] = "waiting" /\ lock = NoOne
    /\ lock' = i /\ Goes(i, "locked")
    /\ UNCHANGED <<file, bundle, schemaMigrations, contentVersions, ran, looked, checkedAgainst, stops>>

\* statement_timeout: 15 s behind the lock, and the boot fails.
LockTimesOut(i) ==
    /\ stage[i] = "waiting" /\ lock # NoOne
    /\ Goes(i, "exited")
    /\ UNCHANGED <<file, bundle, database, stops>>

\* Mutant of Pending: what was recorded is not looked up under the lock.
PendingAlways(f) == TRUE

Pending(f) == f \notin schemaMigrations

Check(i) ==
    /\ stage[i] = "locked"
    /\ Goes(i, IF file[i] > 0 /\ Pending(file[i]) THEN "running" ELSE "skipping")
    /\ UNCHANGED <<file, bundle, database, stops>>

\* The next file in its own transaction, or the content store after the last.
NextFile(i) ==
    /\ file' = [file EXCEPT ![i] = file[i] + 1]
    /\ Goes(i, IF file[i] = Files THEN "publishing" ELSE "waiting")

Skip(i) ==
    /\ stage[i] = "skipping"
    /\ lock' = NoOne /\ NextFile(i)
    /\ UNCHANGED <<bundle, schemaMigrations, contentVersions, ran, looked, checkedAgainst, stops>>

\* The SQL, its row in schema_migrations and the COMMIT.
Committed(i) ==
    /\ schemaMigrations' = schemaMigrations \cup {file[i]}
    /\ ran' = [ran EXCEPT ![file[i]] = @ + 1]
    /\ lock' = NoOne

CommitFile(i) ==
    /\ stage[i] = "running"
    /\ Committed(i) /\ NextFile(i)
    /\ UNCHANGED <<bundle, contentVersions, looked, checkedAgainst, stops>>

\* The COMMIT takes effect and its answer is lost: pg.ts destroys the client, and the boot fails.
CommitLost(i) ==
    /\ stage[i] = "running" /\ stops < MaxStops
    /\ Committed(i) /\ Goes(i, "exited") /\ stops' = stops + 1
    /\ UNCHANGED <<file, bundle, contentVersions, looked, checkedAgainst>>

Clash(c) == {v \in contentVersions : LabelOf(v) = LabelOf(c) /\ v # c}

Refuses(c) == Clash(c) # {}

\* Under READ COMMITTED: another instance's insert is not seen until it commits.
CheckLabel(i) ==
    /\ stage[i] = "publishing"
    /\ Goes(i, IF Refuses(bundle[i]) THEN "exited" ELSE "inserting")
    /\ looked' = [looked EXCEPT ![i] = contentVersions]
    /\ UNCHANGED <<file, bundle, lock, schemaMigrations, contentVersions, ran, checkedAgainst, stops>>

\* insert ... on conflict do nothing, COMMIT, then Fastify listens.
Publish(i) ==
    /\ stage[i] = "inserting"
    /\ contentVersions' = contentVersions \cup {bundle[i]}
    /\ checkedAgainst' = IF bundle[i] \in contentVersions THEN checkedAgainst
                         ELSE [checkedAgainst EXCEPT ![bundle[i]] = looked[i]]
    /\ Goes(i, "serving")
    /\ UNCHANGED <<file, bundle, lock, schemaMigrations, ran, looked, stops>>

\* pg_advisory_xact_lock goes with the transaction, however that ends.
Freed(i) == IF lock = i THEN NoOne ELSE lock

\* SIGTERM once serving, or a crash anywhere: what was not committed is rolled back.
Stop(i) ==
    /\ stage[i] \notin {"off", "exited"} /\ stops < MaxStops
    /\ stops' = stops + 1
    /\ lock' = Freed(i) /\ Goes(i, "exited")
    /\ UNCHANGED <<file, bundle, schemaMigrations, contentVersions, ran, looked, checkedAgainst>>

\* The restart, with the same bundle or with another.
Redeploy(i) ==
    /\ stage[i] = "exited" /\ stops < MaxStops
    /\ stops' = stops + 1
    /\ \E c \in Checksums : bundle' = [bundle EXCEPT ![i] = c]
    /\ Goes(i, "off")
    /\ UNCHANGED <<file, database>>

Booting(i) ==
    \/ Start(i) \/ Lock(i) \/ LockTimesOut(i) \/ Check(i) \/ Skip(i) \/ CommitFile(i)
    \/ CheckLabel(i) \/ Publish(i)

BootNext == \E i \in Instances : Booting(i) \/ CommitLost(i) \/ Stop(i) \/ Redeploy(i)

----------------------------------------------------------------------------

\* db/migrate.ts:10-16: however many instances boot at once, crash or lose the answer of
\* a commit, each file's SQL takes effect once and after all before it, and no instance
\* serves before the last.
EachMigrationOnce ==
    /\ \A f \in 1..Files : ran[f] <= 1 /\ (f \in schemaMigrations <=> ran[f] = 1)
    /\ \A f \in schemaMigrations : \A g \in 1..f : g \in schemaMigrations
    /\ \A i \in Instances : stage[i] = "serving" => schemaMigrations = 1..Files

\* content.ts:26-37: one label means one checksum, unless the two were published by
\* transactions neither of which could see the other.
LabelsPartInARace ==
    \A c, d \in contentVersions :
       (c # d /\ LabelOf(c) = LabelOf(d)) => (c \notin checkedAgainst[d] /\ d \notin checkedAgainst[c])

\* content.ts:26-27: "one label must mean one checksum".
\* The code does not hold it in that race; no run checks it.
OneLabelOneChecksum == \A c, d \in contentVersions : LabelOf(c) = LabelOf(d) => c = d

\* db/migrate.ts, content.ts: instances that boot together agree on the schema and, but for the
\* one race, on what a label means.
BootsAgree == EachMigrationOnce /\ LabelsPartInARace
=============================================================================
