------------------------------- MODULE Limits -------------------------------
(***************************************************************************)
(* apps/api/src/http/token-bucket.ts: one bucket table of one instance, in *)
(* memory, keyed by player or by address. Tokens are counted in units, of  *)
(* which a token has `Token` and `Refill` come back per tick of the clock. *)
(***************************************************************************)
EXTENDS Integers, FiniteSets

CONSTANTS
    Keys,
    Capacity, Token, Refill, PerSecond,               \* units, units, units per tick, ticks
    SweepAbove, MaxKeys, SweepEveryMs, SweepEveryInserts,
    MaxClock                                          \* bound on the clock

\* A bucket holds a token, and it comes back.
ASSUME Rates ==
    /\ {Capacity, Token, Refill, PerSecond} \subseteq Nat \ {0} /\ Token <= Capacity
    /\ MaxClock \in Nat

VARIABLES
    entries,           \* key -> [tokens, at], for the keys in the table
    order,             \* the table's order: the pairs of keys, the one inserted first first
    bucketClock, lastSweepAt, insertsSinceSweep,
    answer,            \* [key, ok, due]: the last answer, and whether an earlier one promised it
    promised,          \* key -> when the last refusal said to come back
    fair,              \* key -> [tokens, at]: what a table without limits would hold
    recency            \* pairs of keys, the one used less recently first

bucket == <<entries, order, bucketClock, lastSweepAt, insertsSinceSweep, answer, promised, fair,
            recency>>

Never == MaxClock + 1000
Least(a, b) == IF a < b THEN a ELSE b
Full(now) == [tokens |-> Capacity, at |-> now]

Elapsed(entry, now) == IF now > entry.at THEN now - entry.at ELSE 0

\* What an entry is worth at `now`.
Refilled(entry, now) == Least(Capacity, entry.tokens + Elapsed(entry, now) * Refill)

LimitsInit ==
    /\ entries = [k \in {} |-> Full(0)] /\ order = {}
    /\ bucketClock = 0 /\ lastSweepAt = 0 /\ insertsSinceSweep = 0
    /\ answer = [key |-> "", ok |-> TRUE, due |-> FALSE]
    /\ promised = [k \in Keys |-> Never]
    /\ fair = [k \in Keys |-> Full(0)]
    /\ recency = {}

\* The clock of the model does not step back.
Tick ==
    /\ bucketClock < MaxClock
    /\ bucketClock' = bucketClock + 1
    /\ UNCHANGED <<entries, order, lastSweepAt, insertsSinceSweep, answer, promised, fair, recency>>

SweepDue ==
    /\ Cardinality(DOMAIN entries) > SweepAbove
    /\ \/ bucketClock - lastSweepAt >= SweepEveryMs
       \/ insertsSinceSweep >= SweepEveryInserts

\* Mutant of Swept: a bucket short of one token goes as well.
SweptEarly == {k \in DOMAIN entries : Refilled(entries[k], bucketClock) < Capacity - Token}

\* The keys a sweep keeps: a full bucket is the same as none.
Swept == {k \in DOMAIN entries : Refilled(entries[k], bucketClock) < Capacity}

\* entries.keys().next(), of the keys left.
First(kept) == {x \in kept : \A y \in kept \ {x} : <<x, y>> \in order}

\* Past the cap the least recently used goes, to start full when it comes back.
MakeRoom(kept) == IF Cardinality(kept) >= MaxKeys THEN kept \ First(kept) ELSE kept

\* Whole seconds until there is a token.
WaitFor(tokens) == (Token - tokens + Refill * PerSecond - 1) \div (Refill * PerSecond)

\* Those in the table that were used less recently than all others in it.
Coldest(kept) == {x \in kept : \A y \in kept \ {x} : <<x, y>> \in recency}

Take(k) ==
    LET now == bucketClock
        kept == IF SweepDue THEN Swept ELSE DOMAIN entries
        known == k \in kept
        rest == IF known THEN kept \ {k} ELSE MakeRoom(kept)
        tokens == IF known THEN Refilled(entries[k], now) ELSE Capacity
        ok == tokens >= Token
        left == IF ok THEN tokens - Token ELSE tokens
        \* the coldest key may be reset, no other
        reset == (kept \ (rest \cup {k})) \cap Coldest(kept)
    IN  /\ lastSweepAt' = IF SweepDue THEN now ELSE lastSweepAt
        /\ insertsSinceSweep' = (IF SweepDue THEN 0 ELSE insertsSinceSweep) + (IF known THEN 0 ELSE 1)
        /\ entries' = [x \in rest \cup {k} |->
                         IF x = k THEN [tokens |-> left, at |-> now] ELSE entries[x]]
        /\ order' = (order \cap (rest \X rest)) \cup (rest \X {k})
        /\ answer' = [key |-> k, ok |-> ok, due |-> now >= promised[k]]
        /\ promised' = [promised EXCEPT ![k] = IF ok THEN Never ELSE now + WaitFor(tokens) * PerSecond]
        /\ fair' = [x \in Keys |->
                      IF x = k THEN [tokens |-> Refilled(fair[x], now) - (IF ok THEN Token ELSE 0), at |-> now]
                      ELSE IF x \in reset THEN Full(now) ELSE fair[x]]
        /\ recency' = {p \in recency : p[1] # k} \cup ((Keys \ {k}) \X {k})
        /\ UNCHANGED bucketClock

LimitsNext == Tick \/ \E k \in Keys : Take(k)

----------------------------------------------------------------------------

\* token-bucket.ts:49-89: no key takes more than its capacity and what has come back
\* since, over any stretch of time: neither a sweep nor the order of the table gives a
\* key its tokens back early. Only the coldest key starts anew, when the table is full.
RateBound == \A k \in Keys : fair[k].tokens >= 0

\* token-bucket.ts:78: who comes back when told to gets a token.
WaitIsEnough == answer.due => answer.ok

\* token-bucket.ts: nobody gets more than the rate, and nobody who waits as told gets less.
RatesHold == RateBound /\ WaitIsEnough
=============================================================================
