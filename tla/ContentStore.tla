---------------------------- MODULE ContentStore ----------------------------
(***************************************************************************)
(* apps/api/src/content.ts get: bundles through an LRU, with the misses in *)
(* flight shared, over a database of a few connections: PGlite has one, on *)
(* which a query of the root waits for the transaction that holds it.      *)
(***************************************************************************)
EXTENDS Naturals, SequencesExt, FiniteSets

CONSTANTS
    Requests,          \* callers of get, each of which calls it once
    Versions, Current, \* Current: the bundle the server started with
    Unknown,           \* versions without a sound row in content_versions
    CacheCapacity,     \* LRU_CAPACITY
    Root,              \* the pool, as against a transaction's own client
    MaxFailures        \* bound on queries that fail

ASSUME StoreAssumption ==
    /\ CacheCapacity \in Nat \ {0} /\ MaxFailures \in Nat
    /\ Current \in Versions \ Unknown /\ Root \notin Requests

VARIABLES
    connections,       \* 1 on PGlite, more on pg
    call,              \* request -> [at, inTx, load]: where it stands, and the load it awaits
    cache,             \* versions, the least recently used first
    loads,             \* the loads that run: [version, on, id]
    loading,           \* version -> the id of the load a later get may share, or 0
    answered,          \* request -> [version, ok, stale]
    lastLoad, failures, failed \* ids given, failures so far, ids of the loads that failed

store == <<connections, call, cache, loads, loading, answered, lastLoad, failures, failed>>

StoreInit ==
    /\ connections \in {1, 2}
    /\ call = [r \in Requests |-> [at |-> "idle", inTx |-> FALSE, load |-> 0]]
    /\ cache = <<Current>> /\ loads = {} /\ loading = [v \in Versions |-> 0]
    /\ answered = [r \in Requests |-> {}]
    /\ lastLoad = 0 /\ failures = 0 /\ failed = {}

\* Connections held by transactions; a root query holds one while it runs.
Held == {r \in Requests : call[r].inTx}

\* Requests of the world store call get inside their transaction.
BeginTx(r) ==
    /\ call[r].at = "idle" /\ Cardinality(Held) < connections
    /\ call' = [call EXCEPT ![r] = [at |-> "begun", inTx |-> TRUE, load |-> 0]]
    /\ UNCHANGED <<connections, cache, loads, loading, answered, lastLoad, failures, failed>>

\* Map.delete: a key is in the cache once.
Deleted(v) ==
    IF v \in ToSet(cache) THEN RemoveAt(cache, CHOOSE i \in DOMAIN cache : cache[i] = v) ELSE cache

Remembered(v) ==
    LET all == Append(Deleted(v), v)
    IN  IF Len(all) > CacheCapacity THEN Tail(all) ELSE all

LoadOf(id) == CHOOSE l \in loads : l.id = id
Querier(r) == IF call[r].inTx THEN r ELSE Root

\* Mutant of MayShare: every load in flight is shared.
ShareAny(q, l) == TRUE

\* A caller inside a transaction never waits on a load that runs on the root.
MayShare(q, l) == q = Root \/ l.on # Root

Hit(r, v) ==
    /\ v \in ToSet(cache)
    /\ cache' = Remembered(v)
    /\ answered' = [answered EXCEPT ![r] = {[version |-> v, ok |-> TRUE, stale |-> FALSE]}]
    /\ call' = [call EXCEPT ![r].at = "done"]
    /\ UNCHANGED <<loads, loading, lastLoad>>

Awaits(r, id) == call' = [call EXCEPT ![r].at = "waiting", ![r].load = id]

Share(r, v) ==
    /\ v \notin ToSet(cache) /\ loading[v] # 0
    /\ IF loading[v] \in failed
       THEN \* a rejected promise left in the map answers at once
            /\ answered' = [answered EXCEPT ![r] = {[version |-> v, ok |-> FALSE, stale |-> TRUE]}]
            /\ call' = [call EXCEPT ![r].at = "done"]
       ELSE /\ MayShare(Querier(r), LoadOf(loading[v]))
            /\ Awaits(r, loading[v]) /\ UNCHANGED answered
    /\ UNCHANGED <<cache, loads, loading, lastLoad>>

Load(r, v) ==
    /\ v \notin ToSet(cache)
    /\ loading[v] \notin failed
    /\ loading[v] # 0 => ~MayShare(Querier(r), LoadOf(loading[v]))
    /\ lastLoad' = lastLoad + 1
    /\ loads' = loads \cup {[version |-> v, on |-> Querier(r), id |-> lastLoad']}
    /\ loading' = [loading EXCEPT ![v] = lastLoad']
    /\ Awaits(r, lastLoad')
    /\ UNCHANGED <<cache, answered>>

Get(r) ==
    /\ call[r].at \in {"idle", "begun"}
    /\ \E v \in Versions : Hit(r, v) \/ Share(r, v) \/ Load(r, v)
    /\ UNCHANGED <<connections, failures, failed>>

\* A root query needs a connection no transaction holds.
CanRun(l) == l.on = Root => Cardinality(Held) < connections

\* finally: unless a newer load took its place.
Dropped(l, ok) == IF loading[l.version] = l.id THEN 0 ELSE loading[l.version]

\* A load ends: a sound row is indexed and remembered, and everyone who waits is answered.
Settle(l) ==
    \E lost \in BOOLEAN :
       LET ok == ~lost /\ l.version \notin Unknown
       IN  /\ CanRun(l)
           /\ lost => failures < MaxFailures
           /\ failures' = failures + (IF lost THEN 1 ELSE 0)
           /\ failed' = IF ok THEN failed ELSE failed \cup {l.id}
           /\ cache' = IF ok THEN Remembered(l.version) ELSE cache
           /\ loads' = loads \ {l}
           /\ loading' = [loading EXCEPT ![l.version] = Dropped(l, ok)]
           /\ answered' = [r \in Requests |->
                IF call[r].at = "waiting" /\ call[r].load = l.id
                THEN {[version |-> l.version, ok |-> ok, stale |-> FALSE]} ELSE answered[r]]
           /\ call' = [r \in Requests |->
                IF call[r].at = "waiting" /\ call[r].load = l.id
                THEN [call[r] EXCEPT !.at = "done"] ELSE call[r]]
           /\ UNCHANGED <<connections, lastLoad>>

\* The transaction goes on and ends, and its connection is free.
EndTx(r) ==
    /\ call[r].inTx /\ call[r].at = "done"
    /\ call' = [call EXCEPT ![r].inTx = FALSE]
    /\ UNCHANGED <<connections, cache, loads, loading, answered, lastLoad, failures, failed>>

StoreNext == (\E r \in Requests : BeginTx(r) \/ Get(r) \/ EndTx(r)) \/ (\E l \in loads : Settle(l))

StoreFairness ==
    /\ \A r \in Requests : WF_store(EndTx(r)) /\ WF_store(call[r].at = "begun" /\ Get(r))
    /\ \A n \in 1..Cardinality(Requests) : SF_store(\E l \in loads : l.id = n /\ Settle(l))

----------------------------------------------------------------------------

\* content.ts:55-59: every get is answered: on a single connection no transaction waits
\* for a load that is queued behind it.
EveryGetAnswered == \A r \in Requests : (call[r].at = "waiting") ~> (call[r].at = "done")

\* content.ts:56-57: a failure answers only those who waited for it: a later get retries.
\* And no more bundles are held than the cache may hold, one the server began with or not.
FailureForgotten ==
    /\ \A r \in Requests : \A a \in answered[r] : ~a.stale /\ (a.ok => a.version \notin Unknown)
    /\ Len(cache) <= CacheCapacity

\* content.ts:50-110: no get waits for ever, and none is answered by a failure that was not its own.
GetsAnswered == EveryGetAnswered /\ []FailureForgotten
=============================================================================
