---------------------------- MODULE ServerProofs ----------------------------
(***************************************************************************)
(* The server's own machines, for all values of their constants: the       *)
(* bucket table keeps to its rates, the content store forgets its failures *)
(* and cannot block itself, boots of any number of instances migrate once  *)
(* and in order, and of accounts, guests and transactions: who owns a      *)
(* world is settled once, a claim's answer stays true, a batch reaches its *)
(* sender's world, and the clean-up deletes stale guests only.             *)
(***************************************************************************)
EXTENDS Limits, Boot, ContentStore, Accounts, FiniteSetTheorems, TLAPS

----------------------------------------------------------------------------
\* The bucket table (Limits).

LimitsSpec == LimitsInit /\ [][LimitsNext]_bucket

Buckets == [tokens : Int, at : Nat]

LimitsTypeOK ==
    /\ bucketClock \in 0..MaxClock
    /\ DOMAIN entries \subseteq Keys /\ entries \in [DOMAIN entries -> Buckets]
    /\ fair \in [Keys -> Buckets]
    /\ promised \in [Keys -> Nat]
    /\ order \subseteq Keys \X Keys
    /\ answer.due \in BOOLEAN /\ answer.ok \in BOOLEAN

\* No clock of an entry is ahead, and none holds more than it may.
EntriesPast ==
    /\ \A k \in DOMAIN entries : entries[k].at <= bucketClock /\ entries[k].tokens <= Capacity
    /\ \A k \in Keys : fair[k].at <= bucketClock

\* A key has no more in the table than without limits, and without an entry it is full there too.
NoBetter ==
    \A k \in Keys :
       Refilled(fair[k], bucketClock) >=
           (IF k \in DOMAIN entries THEN Refilled(entries[k], bucketClock) ELSE Capacity)

\* What a key was told suffices.
Suffices ==
    \A k \in DOMAIN entries :
       promised[k] < Never =>
           entries[k].tokens + (promised[k] - entries[k].at) * Refill >= Token

\* The table is in the order of use.
OrderIsUse == order \subseteq recency

LimitsInv ==
    LimitsTypeOK /\ EntriesPast /\ NoBetter /\ Suffices /\ OrderIsUse /\ RateBound /\ WaitIsEnough

----------------------------------------------------------------------------
\* Tokens and time.

LEMMA RefilledType ==
    ASSUME NEW e \in Buckets, NEW t \in Nat
    PROVE  /\ Refilled(e, t) \in Int /\ Refilled(e, t) <= Capacity
           /\ e.at <= t => \/ Refilled(e, t) = Capacity
                           \/ Refilled(e, t) = e.tokens + (t - e.at) * Refill
<1>1. e.tokens \in Int /\ e.at \in Nat /\ Refill \in Nat \ {0} /\ Capacity \in Nat \ {0}
  BY Rates DEF Buckets
<1>2. PICK s \in Nat : s = Elapsed(e, t) /\ (e.at <= t => s = t - e.at)
  BY <1>1 DEF Elapsed
<1>3. PICK d \in Int : d = s * Refill
  BY <1>1
<1>4. Refilled(e, t) = IF Capacity < e.tokens + d THEN Capacity ELSE e.tokens + d
  BY <1>2, <1>3 DEF Refilled, Least
<1> QED BY <1>1, <1>2, <1>3, <1>4

\* A tick brings everyone as much, up to the capacity.
LEMMA RefilledGrows ==
    ASSUME NEW e \in Buckets, NEW t \in Nat, e.at <= t
    PROVE  Refilled(e, t + 1) = Least(Capacity, Refilled(e, t) + Refill)
<1>1. e.tokens \in Int /\ e.at \in Nat /\ Refill \in Nat \ {0} /\ Capacity \in Nat \ {0}
  BY Rates DEF Buckets
<1>2. PICK d \in Int : d = (t - e.at) * Refill
  BY <1>1
<1>3. ((t + 1) - e.at) * Refill = d + Refill
  <2>1. PICK x \in Int : x = t - e.at
    BY <1>1
  <2>2. (x + 1) * Refill = x * Refill + Refill
    BY <1>1
  <2>3. (t + 1) - e.at = x + 1
    BY <1>1, <2>1
  <2> QED BY <1>2, <2>1, <2>2, <2>3
<1>0. Elapsed(e, t) = t - e.at /\ Elapsed(e, t + 1) = (t + 1) - e.at
  BY <1>1 DEF Elapsed
<1>4. Refilled(e, t) = IF Capacity < e.tokens + d THEN Capacity ELSE e.tokens + d
  BY <1>0, <1>2 DEF Refilled, Least
<1>5. Refilled(e, t + 1) = IF Capacity < e.tokens + (d + Refill)
                           THEN Capacity ELSE e.tokens + (d + Refill)
  BY <1>0, <1>3 DEF Refilled, Least
<1> QED BY <1>1, <1>2, <1>4, <1>5 DEF Least

\* Fresh from a take, an entry is worth what it holds.
LEMMA RefilledNow ==
    ASSUME NEW v \in Int, NEW t \in Nat, v <= Capacity
    PROVE  Refilled([tokens |-> v, at |-> t], t) = v
<1>1. Capacity \in Nat /\ Refill \in Nat
  BY Rates
<1>2. Elapsed([tokens |-> v, at |-> t], t) * Refill = 0
  BY <1>1 DEF Elapsed
<1> QED BY <1>1, <1>2 DEF Refilled, Least

\* Nobody loses by waiting.
LEMMA RefilledStays ==
    ASSUME NEW e \in Buckets, NEW t \in Nat, e.at <= t, 0 <= e.tokens
    PROVE  Refilled(e, t) >= 0
<1>1. e.tokens \in Int /\ e.at \in Nat /\ Refill \in Nat \ {0} /\ Capacity \in Nat \ {0}
  BY Rates DEF Buckets
<1>2. PICK s \in Nat : s = Elapsed(e, t)
  BY <1>1 DEF Elapsed
<1>3. s * Refill \in Nat
  BY <1>1
<1> QED BY <1>1, <1>2, <1>3 DEF Refilled, Least

\* Whole seconds are enough.
LEMMA WaitBrings ==
    ASSUME NEW v \in Int, v < Token
    PROVE  /\ WaitFor(v) \in Nat /\ WaitFor(v) * PerSecond \in Nat
           /\ v + (WaitFor(v) * PerSecond) * Refill >= Token
<1>1. /\ Token \in Nat \ {0} /\ Refill \in Nat \ {0} /\ PerSecond \in Nat \ {0}
  BY Rates
<1>2. PICK q \in Nat \ {0} : q = Refill * PerSecond
  BY <1>1
<1>3. PICK d \in Nat : d = Token - v /\ d > 0
  BY <1>1
<1>4. WaitFor(v) = (d + q - 1) \div q
  BY <1>1, <1>2, <1>3 DEF WaitFor
<1>5. PICK w \in Nat : w = WaitFor(v) /\ w * q >= d
  <2>1. \A x \in Nat : \A y \in Nat \ {0} : x \div y \in Nat /\ (x \div y) * y > x - y
    BY SMTT(30)
  <2>2. d + q - 1 \in Nat
    BY <1>2, <1>3
  <2>3. PICK w \in Nat : w = (d + q - 1) \div q /\ w * q > d + q - 1 - q
    BY <2>1, <2>2
  <2>4. w * q \in Nat
    BY <1>2
  <2> QED BY <1>2, <1>3, <1>4, <2>3, <2>4
<1>6. w * PerSecond \in Nat
  BY <1>1
<1>7. (w * PerSecond) * Refill = w * q
  BY <1>1, <1>2
<1>8. w * q \in Nat
  BY <1>2
<1> QED BY <1>1, <1>3, <1>5, <1>6, <1>7, <1>8

\* The table starts empty.
LEMMA LimitsInitHolds == LimitsInit => LimitsInv
<1> SUFFICES ASSUME LimitsInit PROVE LimitsInv  OBVIOUS
<1>1. bucketClock = 0 /\ order = {} /\ recency = {}
  BY DEF LimitsInit
<1>2. Capacity \in Nat /\ Refill \in Nat /\ MaxClock \in Nat /\ Never \in Nat
  BY Rates DEF Never
<1>3. PICK full \in Buckets :
        full = Full(0) /\ full.at = 0 /\ full.tokens = Capacity /\ Refilled(full, 0) = Capacity
  <2>1. Full(0) = [tokens |-> Capacity, at |-> 0]
    BY DEF Full
  <2>2. [tokens |-> Capacity, at |-> 0] \in Buckets
    BY <1>2 DEF Buckets
  <2>3. Refilled([tokens |-> Capacity, at |-> 0], 0) = Capacity
    BY <1>2, RefilledNow
  <2> QED BY <2>1, <2>2, <2>3
<1>4. DOMAIN entries = {} /\ entries \in [DOMAIN entries -> Buckets]
  BY DEF LimitsInit
<1>5. fair \in [Keys -> Buckets] /\ promised \in [Keys -> Nat] /\ \A k \in Keys : fair[k] = full
  BY <1>2, <1>3 DEF LimitsInit
<1>6. answer.due = FALSE /\ answer.ok = TRUE
  BY DEF LimitsInit
<1>7. LimitsTypeOK
  <2>1. bucketClock \in 0..MaxClock
    BY <1>1, <1>2
  <2>2. DOMAIN entries \subseteq Keys
    BY <1>4
  <2>3. order \subseteq Keys \X Keys
    BY <1>1
  <2> QED BY <1>4, <1>5, <1>6, <2>1, <2>2, <2>3 DEF LimitsTypeOK
<1>8. EntriesPast
  BY <1>1, <1>3, <1>4, <1>5 DEF EntriesPast
<1>9. NoBetter
  BY <1>1, <1>2, <1>3, <1>4, <1>5 DEF NoBetter
<1>10. Suffices /\ OrderIsUse
  BY <1>1, <1>4 DEF Suffices, OrderIsUse
<1>11. RateBound /\ WaitIsEnough
  BY <1>2, <1>3, <1>5, <1>6 DEF RateBound, WaitIsEnough
<1> QED BY <1>7, <1>8, <1>9, <1>10, <1>11 DEF LimitsInv

\* A tick keeps it: it brings every bucket the same.
LEMMA TickKeeps == LimitsInv /\ Tick => LimitsInv'
<1> SUFFICES ASSUME LimitsInv, Tick PROVE LimitsInv'  OBVIOUS
<1>1. /\ bucketClock' = bucketClock + 1 /\ bucketClock < MaxClock
      /\ UNCHANGED <<entries, order, answer, promised, fair, recency>>
  BY DEF Tick
<1>2. MaxClock \in Nat /\ bucketClock \in Nat /\ bucketClock \in 0..MaxClock
      /\ Refill \in Nat /\ Capacity \in Nat
  BY Rates DEF LimitsInv, LimitsTypeOK
<1>3. bucketClock' \in 0..MaxClock
  BY <1>1, <1>2
<1>4. LimitsTypeOK'
  BY <1>1, <1>3 DEF LimitsInv, LimitsTypeOK
<1>5. EntriesPast'
  <2>1. \A e \in Buckets : e.at <= bucketClock => e.at <= bucketClock + 1
    BY <1>2 DEF Buckets
  <2> QED BY <1>1, <2>1 DEF LimitsInv, LimitsTypeOK, EntriesPast
<1>6. NoBetter'
  <2> SUFFICES ASSUME NEW k \in Keys
               PROVE  Refilled(fair[k], bucketClock + 1) >=
                        (IF k \in DOMAIN entries THEN Refilled(entries[k], bucketClock + 1) ELSE Capacity)
    BY <1>1 DEF NoBetter
  <2>1. PICK f \in Buckets : f = fair[k] /\ f.at <= bucketClock
    BY DEF LimitsInv, LimitsTypeOK, EntriesPast
  <2>2. /\ Refilled(f, bucketClock) \in Int
        /\ Refilled(f, bucketClock + 1) = Least(Capacity, Refilled(f, bucketClock) + Refill)
    BY <1>2, <2>1, RefilledType, RefilledGrows
  <2>3. CASE k \in DOMAIN entries
    <3>1. PICK e \in Buckets : e = entries[k] /\ e.at <= bucketClock
      BY <2>3 DEF LimitsInv, LimitsTypeOK, EntriesPast
    <3>2. /\ Refilled(e, bucketClock) \in Int
          /\ Refilled(e, bucketClock + 1) = Least(Capacity, Refilled(e, bucketClock) + Refill)
      BY <1>2, <3>1, RefilledType, RefilledGrows
    <3>3. Refilled(f, bucketClock) >= Refilled(e, bucketClock)
      BY <2>1, <2>3, <3>1 DEF LimitsInv, NoBetter
    <3> QED BY <1>2, <2>1, <2>2, <2>3, <3>1, <3>2, <3>3 DEF Least
  <2>4. CASE k \notin DOMAIN entries
    <3>1. Refilled(f, bucketClock) >= Capacity
      BY <2>1, <2>4 DEF LimitsInv, NoBetter
    <3> QED BY <1>2, <2>1, <2>2, <2>4, <3>1 DEF Least
  <2> QED BY <2>3, <2>4
<1>7. Suffices' /\ OrderIsUse' /\ RateBound' /\ WaitIsEnough'
  BY <1>1 DEF LimitsInv, Suffices, OrderIsUse, RateBound, WaitIsEnough
<1> QED BY <1>4, <1>5, <1>6, <1>7 DEF LimitsInv

\* A take keeps the invariant: `tokens` is what k finds, and nobody but the coldest is reset.
LEMMA TakeKeeps == ASSUME NEW k \in Keys, LimitsInv, Take(k) PROVE LimitsInv'
<1>0. /\ MaxClock \in Nat /\ Capacity \in Nat /\ Token \in Nat \ {0} /\ Token <= Capacity
      /\ Refill \in Nat /\ PerSecond \in Nat /\ Never \in Nat /\ Never > MaxClock
  BY Rates DEF Never
<1>1. PICK now \in Nat : now = bucketClock /\ now <= MaxClock
  BY <1>0 DEF LimitsInv, LimitsTypeOK
<1>2. PICK kept \in SUBSET DOMAIN entries :
         /\ kept = (IF SweepDue THEN Swept ELSE DOMAIN entries)
         /\ \A x \in DOMAIN entries \ kept : ~(Refilled(entries[x], now) < Capacity)
  BY <1>1 DEF Swept
<1>3. PICK rest \in SUBSET kept :
         rest = IF k \in kept THEN kept \ {k} ELSE MakeRoom(kept)
  BY DEF MakeRoom
<1>4. /\ DOMAIN entries \subseteq Keys /\ entries \in [DOMAIN entries -> Buckets]
      /\ fair \in [Keys -> Buckets] /\ promised \in [Keys -> Nat]
      /\ order \subseteq Keys \X Keys
  BY DEF LimitsInv, LimitsTypeOK
<1>5. k \notin rest /\ rest \subseteq DOMAIN entries
  BY <1>3 DEF MakeRoom
<1>6. PICK tokens \in Int :
         /\ tokens = (IF k \in kept THEN Refilled(entries[k], now) ELSE Capacity)
         /\ tokens <= Capacity
  <2>1. CASE k \in kept
    <3>1. entries[k] \in Buckets
      BY <1>4, <2>1
    <3>2. Refilled(entries[k], now) \in Int /\ Refilled(entries[k], now) <= Capacity
      BY <3>1, RefilledType
    <3> QED BY <2>1, <3>2
  <2>2. CASE k \notin kept
    BY <1>0, <2>2
  <2> QED BY <2>1, <2>2
<1>7. PICK reset \in SUBSET Keys : reset = (kept \ (rest \cup {k})) \cap Coldest(kept)
  BY <1>4
<1>8. PICK cost \in Nat : cost = (IF tokens >= Token THEN Token ELSE 0)
  BY <1>0
<1>9. PICK left \in Int : left = tokens - cost /\ left <= Capacity
                          /\ left = (IF tokens >= Token THEN tokens - Token ELSE tokens)
  <2>1. CASE tokens >= Token
    BY <1>0, <1>6, <1>8, <2>1
  <2>2. CASE ~(tokens >= Token)
    BY <1>0, <1>6, <1>8, <2>2
  <2> QED BY <2>1, <2>2
<1>10. /\ entries' = [x \in rest \cup {k} |->
                         IF x = k THEN [tokens |-> left, at |-> now] ELSE entries[x]]
       /\ order' = (order \cap (rest \X rest)) \cup (rest \X {k})
       /\ answer' = [key |-> k, ok |-> tokens >= Token, due |-> now >= promised[k]]
       /\ promised' = [promised EXCEPT ![k] =
                          IF tokens >= Token THEN Never ELSE now + WaitFor(tokens) * PerSecond]
       /\ fair' = [x \in Keys |->
                      IF x = k THEN [tokens |-> Refilled(fair[x], now) - cost, at |-> now]
                      ELSE IF x \in reset THEN Full(now) ELSE fair[x]]
       /\ recency' = {p \in recency : p[1] # k} \cup ((Keys \ {k}) \X {k})
       /\ bucketClock' = now
  BY <1>1, <1>2, <1>3, <1>6, <1>7, <1>8, <1>9 DEF Take
<1> HIDE DEF Take
<1>11. PICK mine \in Buckets : mine.tokens = left /\ mine.at = now
                              /\ mine = [tokens |-> left, at |-> now] /\ Refilled(mine, now) = left
  <2>1. [tokens |-> left, at |-> now] \in Buckets
    BY DEF Buckets
  <2>2. Refilled([tokens |-> left, at |-> now], now) = left
    BY <1>9, RefilledNow
  <2> QED BY <2>1, <2>2
<1>12. PICK worth \in Int : worth = Refilled(fair[k], now) /\ worth <= Capacity
  BY <1>4, RefilledType
<1>13. worth >= tokens
  <2>1. worth >= (IF k \in DOMAIN entries THEN Refilled(entries[k], now) ELSE Capacity)
    BY <1>1, <1>12 DEF LimitsInv, NoBetter
  <2>2. CASE k \in kept
    BY <1>2, <1>6, <2>1, <2>2
  <2>3. CASE k \notin kept /\ k \in DOMAIN entries
    <3>1. ~(Refilled(entries[k], now) < Capacity)
      BY <1>2, <2>3
    <3>2. Refilled(entries[k], now) \in Int
      BY <1>4, <2>3, RefilledType
    <3> QED BY <1>0, <1>6, <1>12, <2>1, <2>3, <3>1, <3>2
  <2>4. CASE k \notin DOMAIN entries
    BY <1>2, <1>6, <2>1, <2>4
  <2> QED BY <2>2, <2>3, <2>4
<1>14. worth >= 0
  BY <1>1, <1>4, <1>12, RefilledStays DEF LimitsInv, EntriesPast, RateBound
<1>15. PICK fairly \in Buckets : /\ fairly.tokens = worth - cost /\ fairly.at = now
                                /\ fairly = [tokens |-> worth - cost, at |-> now]
                                /\ Refilled(fairly, now) = worth - cost
  <2>1. worth - cost \in Int /\ worth - cost <= Capacity
    BY <1>0, <1>12
  <2>2. [tokens |-> worth - cost, at |-> now] \in Buckets
    BY <2>1 DEF Buckets
  <2>3. Refilled([tokens |-> worth - cost, at |-> now], now) = worth - cost
    BY <2>1, RefilledNow
  <2> QED BY <2>2, <2>3
<1>16. PICK full \in Buckets : full = Full(now) /\ full.at = now /\ full.tokens = Capacity
                              /\ Refilled(full, now) = Capacity
  <2>1. Full(now) = [tokens |-> Capacity, at |-> now]
    BY DEF Full
  <2>2. [tokens |-> Capacity, at |-> now] \in Buckets
    BY <1>0 DEF Buckets
  <2>3. Refilled([tokens |-> Capacity, at |-> now], now) = Capacity
    BY <1>0, RefilledNow
  <2> QED BY <2>1, <2>2, <2>3
\* The next state, key by key.
<1>17. /\ DOMAIN entries' = rest \cup {k} /\ entries'[k] = mine
       /\ \A x \in rest : entries'[x] = entries[x]
       /\ entries' \in [rest \cup {k} -> Buckets]
  BY <1>4, <1>5, <1>10, <1>11
<1>18. /\ fair'[k] = fairly
       /\ \A x \in Keys \ {k} : fair'[x] = IF x \in reset THEN full ELSE fair[x]
       /\ fair' \in [Keys -> Buckets]
  BY <1>4, <1>10, <1>12, <1>15, <1>16
<1>19. /\ promised' \in [Keys -> Nat]
       /\ \A x \in Keys \ {k} : promised'[x] = promised[x]
       /\ tokens >= Token => promised'[k] = Never
       /\ ~(tokens >= Token) => promised'[k] = now + WaitFor(tokens) * PerSecond
  <2>1. PICK due \in Nat :
           due = IF tokens >= Token THEN Never ELSE now + WaitFor(tokens) * PerSecond
    BY <1>0, WaitBrings
  <2>2. promised' = [promised EXCEPT ![k] = due]
    BY <1>10, <2>1
  <2> QED BY <1>4, <2>1, <2>2
<1>20. \A x \in Keys \ {k} : x \notin rest /\ x \notin reset => x \notin kept
  <2>1. \A x \in First(kept) : x \in Coldest(kept)
    BY DEF LimitsInv, OrderIsUse, First, Coldest
  <2> QED BY <1>3, <1>7, <2>1 DEF MakeRoom
<1>21. LimitsTypeOK'
  <2>1. bucketClock' \in 0..MaxClock
    BY <1>0, <1>1, <1>10
  <2>2. DOMAIN entries' \subseteq Keys
    BY <1>4, <1>5, <1>17
  <2>3. order' \subseteq Keys \X Keys
    BY <1>4, <1>5, <1>10
  <2>4. answer'.due \in BOOLEAN /\ answer'.ok \in BOOLEAN
    BY <1>10
  <2> QED BY <1>17, <1>18, <1>19, <2>1, <2>2, <2>3, <2>4 DEF LimitsTypeOK
<1>22. EntriesPast'
  <2>1. \A x \in DOMAIN entries' : entries'[x].at <= now /\ entries'[x].tokens <= Capacity
    BY <1>1, <1>5, <1>9, <1>11, <1>17 DEF LimitsInv, EntriesPast
  <2>2. \A x \in Keys : fair'[x].at <= now
    BY <1>1, <1>15, <1>16, <1>18 DEF LimitsInv, EntriesPast
  <2> QED BY <1>10, <2>1, <2>2 DEF EntriesPast
<1>23. NoBetter'
  <2> SUFFICES ASSUME NEW x \in Keys
               PROVE  Refilled(fair'[x], now) >=
                        (IF x \in DOMAIN entries' THEN Refilled(entries'[x], now) ELSE Capacity)
    BY <1>10 DEF NoBetter
  <2>1. CASE x = k
    BY <1>9, <1>11, <1>13, <1>15, <1>17, <1>18, <2>1
  <2>2. CASE x # k /\ x \in reset
    BY <1>0, <1>7, <1>16, <1>17, <1>18, <2>2
  <2>3. CASE x # k /\ x \in rest /\ x \notin reset
    BY <1>1, <1>5, <1>17, <1>18, <2>3 DEF LimitsInv, NoBetter
  <2>4. CASE x # k /\ x \notin rest /\ x \notin reset
    <3>1. x \notin kept
      BY <1>20, <2>4
    <3>2. fair[x] \in Buckets /\ Refilled(fair[x], now) \in Int
      BY <1>4, RefilledType
    <3>3. Refilled(fair[x], now) >=
            (IF x \in DOMAIN entries THEN Refilled(entries[x], now) ELSE Capacity)
      BY <1>1 DEF LimitsInv, NoBetter
    <3>4. Refilled(fair[x], now) >= Capacity
      <4>1. CASE x \in DOMAIN entries
        <5>1. ~(Refilled(entries[x], now) < Capacity)
          BY <1>2, <3>1, <4>1
        <5>2. Refilled(entries[x], now) \in Int
          BY <1>4, <4>1, RefilledType
        <5> QED BY <1>0, <3>2, <3>3, <4>1, <5>1, <5>2
      <4>2. CASE x \notin DOMAIN entries
        BY <3>3, <4>2
      <4> QED BY <4>1, <4>2
    <3> QED BY <1>17, <1>18, <2>4, <3>4
  <2> QED BY <2>1, <2>2, <2>3, <2>4
<1>24. Suffices'
  <2> SUFFICES ASSUME NEW x \in rest \cup {k}, promised'[x] < Never
               PROVE  entries'[x].tokens + (promised'[x] - entries'[x].at) * Refill >= Token
    BY <1>17 DEF Suffices
  <2>1. CASE x = k
    <3>1. ~(tokens >= Token)
      BY <1>0, <1>19, <2>1
    <3>2. tokens < Token /\ left = tokens
      BY <1>0, <1>9, <3>1
    <3>3. PICK wait \in Nat : wait = WaitFor(tokens) * PerSecond /\ tokens + wait * Refill >= Token
      BY <3>2, WaitBrings
    <3>4. promised'[k] = now + wait
      BY <1>19, <3>1, <3>3
    <3>5. promised'[k] - now = wait
      BY <3>4
    <3> QED BY <1>11, <1>17, <2>1, <3>2, <3>3, <3>5
  <2>2. CASE x # k
    BY <1>4, <1>5, <1>17, <1>19, <2>2 DEF LimitsInv, Suffices
  <2> QED BY <2>1, <2>2
<1>25. OrderIsUse'
  BY <1>4, <1>5, <1>10 DEF LimitsInv, OrderIsUse
<1>26. RateBound'
  <2>1. worth - cost >= 0
    BY <1>0, <1>8, <1>13, <1>14
  <2> QED BY <1>0, <1>15, <1>16, <1>18, <2>1 DEF LimitsInv, RateBound
<1>27. WaitIsEnough'
  <2> SUFFICES ASSUME now >= promised[k] PROVE tokens >= Token
    BY <1>10 DEF WaitIsEnough
  <2>1. CASE k \in kept
    <3>1. PICK e \in Buckets : e = entries[k] /\ e.at \in Nat /\ e.tokens \in Int /\ e.at <= now
      BY <1>1, <1>4, <2>1 DEF Buckets, LimitsInv, EntriesPast
    <3>2. PICK due \in Nat : due = promised[k] /\ due <= now /\ due < Never
      BY <1>0, <1>1, <1>4
    <3>3. PICK then \in Int, until \in Int :
             then = (due - e.at) * Refill /\ until = (now - e.at) * Refill
      BY <1>0, <3>1
    <3>4. e.tokens + then >= Token
      BY <2>1, <3>1, <3>2, <3>3 DEF LimitsInv, Suffices
    <3>5. until >= then
      <4>1. PICK gap \in Nat : gap = now - due
        BY <3>2
      <4>2. (now - e.at) * Refill = (due - e.at) * Refill + gap * Refill
        <5>1. PICK a \in Int : a = due - e.at
          BY <3>1
        <5>2. now - e.at = a + gap
          BY <3>1, <4>1, <5>1
        <5>3. (a + gap) * Refill = a * Refill + gap * Refill
          BY <1>0
        <5> QED BY <5>1, <5>2, <5>3
      <4>3. gap * Refill \in Nat
        BY <1>0
      <4> QED BY <3>3, <4>2, <4>3
    <3>6. tokens = Refilled(e, now)
      BY <1>6, <2>1, <3>1
    <3>7. Refilled(e, now) = Capacity \/ Refilled(e, now) = e.tokens + until
      BY <3>1, <3>3, RefilledType
    <3> QED BY <1>0, <3>1, <3>4, <3>5, <3>6, <3>7
  <2>2. CASE k \notin kept
    BY <1>0, <1>6, <2>2
  <2> QED BY <2>1, <2>2
<1> QED BY <1>21, <1>22, <1>23, <1>24, <1>25, <1>26, <1>27 DEF LimitsInv

\* Every step keeps the invariant.
LEMMA LimitsKeepInv == LimitsInv /\ [LimitsNext]_bucket => LimitsInv'
<1> SUFFICES ASSUME LimitsInv, [LimitsNext]_bucket PROVE LimitsInv'  OBVIOUS
<1>1. CASE Tick
  BY <1>1, TickKeeps
<1>2. CASE \E k \in Keys : Take(k)
  BY <1>2, TakeKeeps
<1>3. CASE UNCHANGED bucket
  BY <1>3 DEF bucket, LimitsInv, LimitsTypeOK, EntriesPast, NoBetter, Suffices, OrderIsUse,
              RateBound, WaitIsEnough
<1> QED BY <1>1, <1>2, <1>3 DEF LimitsNext

\* token-bucket.ts:49-89: for every rate, capacity, table size and sweep: no key takes more than
\* its capacity and what came back since, and who waits as told gets a token.
THEOREM RatesAlwaysHold == LimitsSpec => []RatesHold
<1>1. LimitsInv => RatesHold
  BY DEF LimitsInv, RatesHold
<1> QED BY <1>1, LimitsInitHolds, LimitsKeepInv, PTL DEF LimitsSpec

----------------------------------------------------------------------------
\* The content store (ContentStore).

\* Versions with a sound row.
Sound == Versions \ Unknown

Loads == [version : Versions, on : Requests \cup {Root}, id : Nat]
Calls == [at : {"idle", "begun", "waiting", "done"}, inTx : BOOLEAN, load : Nat]
Answers == [version : Versions, ok : BOOLEAN, stale : BOOLEAN]

StoreSpec == StoreInit /\ [][StoreNext]_store

StoreTypeOK ==
    /\ call \in [Requests -> Calls]
    /\ loads \subseteq Loads
    /\ loading \in [Versions -> Nat]
    /\ answered \in [Requests -> SUBSET Answers]
    /\ lastLoad \in Nat /\ failed \subseteq Nat

\* The cache holds sound bundles only, and no more than it may.
CacheIsSound == cache \in Seq(Sound) /\ Len(cache) <= CacheCapacity

\* Ids are given once, and a load that runs has not failed.
IdsAreOne ==
    /\ \A l \in loads : l.id \in 1..lastLoad /\ l.id \notin failed
    /\ \A l, m \in loads : l.id = m.id => l = m
    /\ \A n \in failed : n <= lastLoad

\* A load that may be shared runs.
SharedRuns == \A v \in Versions : loading[v] # 0 => \E l \in loads : l.id = loading[v] /\ l.version = v

\* Who waits waits for a load that runs, in a transaction for one on a transaction's own client.
WaitedForRuns ==
    \A r \in Requests : call[r].at = "waiting" =>
       \E l \in loads : l.id = call[r].load /\ (call[r].inTx => l.on # Root)

AnswersOwn == \A r \in Requests : \A a \in answered[r] : ~a.stale /\ (a.ok => a.version \notin Unknown)

StoreInv == StoreTypeOK /\ CacheIsSound /\ IdsAreOne /\ SharedRuns /\ WaitedForRuns /\ AnswersOwn

----------------------------------------------------------------------------
\* The cache.

\* Without one position a sequence is one shorter.
LEMMA RemoveAtIs ==
    ASSUME NEW S, NEW s \in Seq(S), NEW i \in 1..Len(s)
    PROVE  RemoveAt(s, i) \in Seq(S) /\ Len(RemoveAt(s, i)) = Len(s) - 1
<1> DEFINE a == SubSeq(s, 1, i - 1)
           b == SubSeq(s, i + 1, Len(s))
<1>1. a \in Seq(S) /\ Len(a) = i - 1
  OBVIOUS
<1>2. b \in Seq(S) /\ Len(b) = Len(s) - i
  OBVIOUS
<1>3. RemoveAt(s, i) = a \o b
  BY DEF RemoveAt
<1> HIDE DEF a, b
<1>4. a \o b \in Seq(S) /\ Len(a \o b) = Len(a) + Len(b)
  BY <1>1, <1>2
<1>5. Len(s) \in Nat /\ i \in Nat
  OBVIOUS
<1>6. Len(a) + Len(b) = Len(s) - 1
  BY <1>1, <1>2, <1>5
<1> QED BY <1>3, <1>4, <1>6

\* What is remembered fits.
LEMMA RememberedFits ==
    ASSUME CacheIsSound, NEW v \in Sound
    PROVE  Remembered(v) \in Seq(Sound) /\ Len(Remembered(v)) <= CacheCapacity
<1>1. PICK s \in Seq(Sound) : s = cache /\ Len(s) <= CacheCapacity
  BY DEF CacheIsSound
<1>2. PICK d \in Seq(Sound) : d = Deleted(v) /\ Len(d) <= CacheCapacity
  <2>1. CASE v \in ToSet(s)
    <3>1. PICK i \in 1..Len(s) : i = CHOOSE j \in DOMAIN s : s[j] = v
      BY <2>1 DEF ToSet
    <3>2. Deleted(v) = RemoveAt(s, i)
      BY <1>1, <2>1, <3>1 DEF Deleted
    <3> QED BY <1>1, <3>2, RemoveAtIs, StoreAssumption
  <2>2. CASE v \notin ToSet(s)
    BY <1>1, <2>2 DEF Deleted
  <2> QED BY <2>1, <2>2
<1>3. PICK all \in Seq(Sound) : all = Append(d, v) /\ Len(all) = Len(d) + 1
  <2>1. Append(d, v) \in Seq(Sound) /\ Len(Append(d, v)) = Len(d) + 1
    OBVIOUS
  <2> QED BY <2>1
<1>4. Remembered(v) = IF Len(all) > CacheCapacity THEN Tail(all) ELSE all
  BY <1>2, <1>3 DEF Remembered
<1>5. Tail(all) \in Seq(Sound) /\ Len(Tail(all)) = Len(all) - 1
  BY <1>3
<1> QED BY <1>2, <1>3, <1>4, <1>5, StoreAssumption

\* The cache starts with the current bundle.
LEMMA StoreInitHolds == StoreInit => StoreInv
<1> SUFFICES ASSUME StoreInit PROVE StoreInv  OBVIOUS
<1>1. StoreTypeOK
  BY StoreAssumption DEF StoreInit, StoreTypeOK, Calls, Loads
<1>2. CacheIsSound
  BY StoreAssumption DEF StoreInit, CacheIsSound, Sound
<1>3. IdsAreOne /\ SharedRuns /\ WaitedForRuns /\ AnswersOwn
  BY DEF StoreInit, IdsAreOne, SharedRuns, WaitedForRuns, AnswersOwn
<1> QED BY <1>1, <1>2, <1>3 DEF StoreInv

\* Transactions begin and end around a get.
LEMMA TxKeeps == ASSUME NEW r \in Requests, StoreInv, BeginTx(r) \/ EndTx(r) PROVE StoreInv'
<1>1. PICK c \in Calls : call' = [call EXCEPT ![r] = c] /\ c.at # "waiting"
  <2>1. CASE BeginTx(r)
    <3>1. [at |-> "begun", inTx |-> TRUE, load |-> 0] \in Calls
      BY DEF Calls
    <3> QED BY <2>1, <3>1 DEF BeginTx
  <2>2. CASE EndTx(r)
    <3>1. call[r] \in Calls /\ call[r].at = "done"
      BY <2>2 DEF EndTx, StoreInv, StoreTypeOK
    <3>2. [call[r] EXCEPT !.inTx = FALSE] \in Calls /\ [call[r] EXCEPT !.inTx = FALSE].at = "done"
      BY <3>1 DEF Calls
    <3>3. call' = [call EXCEPT ![r] = [call[r] EXCEPT !.inTx = FALSE]]
      BY <2>2 DEF EndTx
    <3> QED BY <3>2, <3>3
  <2> QED BY <2>1, <2>2
<1>2. UNCHANGED <<cache, loads, loading, answered, lastLoad, failed>>
  BY DEF BeginTx, EndTx
<1>3. StoreTypeOK'
  BY <1>1, <1>2 DEF StoreInv, StoreTypeOK
<1>4. WaitedForRuns'
  BY <1>1, <1>2 DEF StoreInv, StoreTypeOK, WaitedForRuns
<1> QED BY <1>2, <1>3, <1>4 DEF StoreInv, CacheIsSound, IdsAreOne, SharedRuns, AnswersOwn

\* A get that finds its bundle in the cache.
LEMMA HitKeeps ==
    ASSUME NEW r \in Requests, NEW v \in Versions, StoreInv, Get(r), Hit(r, v)
    PROVE  StoreInv'
<1>1. v \in Sound
  <2>1. PICK s \in Seq(Sound) : s = cache
    BY DEF StoreInv, CacheIsSound
  <2>2. PICK i \in 1..Len(s) : s[i] = v
    BY <2>1 DEF Hit, ToSet
  <2> QED BY <2>2
<1>2. UNCHANGED <<loads, loading, lastLoad, failed>>
  BY DEF Hit, Get
<1>3. PICK c \in Calls : call' = [call EXCEPT ![r] = c] /\ c.at = "done"
  <2>1. call[r] \in Calls
    BY DEF StoreInv, StoreTypeOK
  <2>2. [call[r] EXCEPT !.at = "done"] \in Calls /\ [call[r] EXCEPT !.at = "done"].at = "done"
    BY <2>1 DEF Calls
  <2> QED BY <2>2 DEF Hit
<1>4. PICK a \in Answers : /\ answered' = [answered EXCEPT ![r] = {a}]
                           /\ ~a.stale /\ (a.ok => a.version \notin Unknown)
  <2>1. [version |-> v, ok |-> TRUE, stale |-> FALSE] \in Answers
    BY DEF Answers
  <2> QED BY <1>1, <2>1 DEF Hit, Sound
<1>5. StoreTypeOK'
  BY <1>2, <1>3, <1>4 DEF StoreInv, StoreTypeOK
<1>6. CacheIsSound'
  BY <1>1, RememberedFits DEF StoreInv, CacheIsSound, Hit
<1>7. WaitedForRuns'
  BY <1>2, <1>3 DEF StoreInv, StoreTypeOK, WaitedForRuns
<1>8. AnswersOwn'
  BY <1>4 DEF StoreInv, StoreTypeOK, AnswersOwn
<1> QED BY <1>2, <1>5, <1>6, <1>7, <1>8 DEF StoreInv, IdsAreOne, SharedRuns

\* A get that awaits a load in flight: what it finds in the map runs.
LEMMA ShareKeeps ==
    ASSUME NEW r \in Requests, NEW v \in Versions, StoreInv, Get(r), Share(r, v)
    PROVE  StoreInv'
<1>1. PICK l \in loads : l.id = loading[v] /\ l.version = v
  BY DEF StoreInv, SharedRuns, Share
<1>2. LoadOf(loading[v]) = l /\ loading[v] \notin failed /\ l \in Loads /\ l.id \in Nat
  <2>1. \A m \in loads : m.id = loading[v] => m = l
    BY <1>1 DEF StoreInv, IdsAreOne
  <2>2. l \in Loads
    BY DEF StoreInv, StoreTypeOK
  <2> QED BY <1>1, <2>1, <2>2 DEF LoadOf, StoreInv, IdsAreOne, Loads
<1>3. UNCHANGED <<cache, loads, loading, lastLoad, failed, answered>>
  BY <1>2 DEF Share, Get
<1>4. MayShare(Querier(r), l) /\ Awaits(r, l.id)
  BY <1>1, <1>2 DEF Share
<1>5. PICK c \in Calls : /\ call' = [call EXCEPT ![r] = c]
                         /\ c.load = l.id /\ c.inTx = call[r].inTx
  <2>1. call[r] \in Calls
    BY DEF StoreInv, StoreTypeOK
  <2>2. PICK c \in Calls : c = [call[r] EXCEPT !.at = "waiting", !.load = l.id]
                           /\ c.load = l.id /\ c.inTx = call[r].inTx
    <3> DEFINE after == [call[r] EXCEPT !.at = "waiting", !.load = l.id]
    <3>1. after \in Calls
      BY <1>2, <2>1 DEF Calls
    <3>2. after.load = l.id /\ after.inTx = call[r].inTx
      BY <1>2, <2>1 DEF Calls
    <3> QED BY <3>1, <3>2
  <2> QED BY <1>4, <2>2 DEF Awaits
<1>6. StoreTypeOK'
  BY <1>3, <1>5 DEF StoreInv, StoreTypeOK
<1>7. c.inTx => l.on # Root
  BY <1>4, <1>5, StoreAssumption DEF MayShare, Querier
<1>8. WaitedForRuns'
  BY <1>3, <1>5, <1>7 DEF StoreInv, StoreTypeOK, WaitedForRuns
<1> QED BY <1>3, <1>6, <1>8 DEF StoreInv, CacheIsSound, IdsAreOne, SharedRuns, AnswersOwn

\* A get that starts a load of its own, on the transaction's client if it has one.
LEMMA LoadKeeps ==
    ASSUME NEW r \in Requests, NEW v \in Versions, StoreInv, Get(r), Load(r, v)
    PROVE  StoreInv'
<1>1. PICK n \in Nat : n = lastLoad' /\ n = lastLoad + 1 /\ lastLoad \in Nat
  BY DEF Load, StoreInv, StoreTypeOK
<1>2. PICK l \in Loads : /\ l.version = v /\ l.on = Querier(r) /\ l.id = n
                         /\ loads' = loads \cup {l}
  <2>1. [version |-> v, on |-> Querier(r), id |-> n] \in Loads
    BY DEF Loads, Querier
  <2> QED BY <1>1, <2>1 DEF Load
<1>3. loading' = [loading EXCEPT ![v] = n] /\ UNCHANGED <<cache, answered, failed>>
  BY <1>1 DEF Load, Get
<1>4. PICK c \in Calls : /\ call' = [call EXCEPT ![r] = c]
                         /\ c.load = n /\ c.inTx = call[r].inTx
  <2>1. call[r] \in Calls
    BY DEF StoreInv, StoreTypeOK
  <2>2. PICK c \in Calls : c = [call[r] EXCEPT !.at = "waiting", !.load = n]
                           /\ c.load = n /\ c.inTx = call[r].inTx
    <3> DEFINE after == [call[r] EXCEPT !.at = "waiting", !.load = n]
    <3>1. after \in Calls
      BY <2>1 DEF Calls
    <3>2. after.load = n /\ after.inTx = call[r].inTx
      BY <2>1 DEF Calls
    <3> QED BY <3>1, <3>2
  <2> QED BY <1>1, <2>2 DEF Load, Awaits
<1>5. StoreTypeOK'
  BY <1>1, <1>2, <1>3, <1>4 DEF StoreInv, StoreTypeOK
<1>6. IdsAreOne'
  <2>1. \A m \in loads : m.id \in 1..lastLoad /\ m.id \notin failed /\ m.id # n /\ m.id \in 1..n
    BY <1>1 DEF StoreInv, IdsAreOne
  <2>2. n \notin failed /\ \A i \in failed : i <= n
    <3>1. \A i \in failed : i \in Nat /\ i <= lastLoad
      BY DEF StoreInv, IdsAreOne, StoreTypeOK
    <3> QED BY <1>1, <3>1
  <2>3. n \in 1..n
    BY <1>1
  <2>4. \A a, b \in loads : a.id = b.id => a = b
    BY DEF StoreInv, IdsAreOne
  <2> QED BY <1>1, <1>2, <1>3, <2>1, <2>2, <2>3, <2>4 DEF IdsAreOne
<1>7. SharedRuns'
  BY <1>2, <1>3 DEF StoreInv, StoreTypeOK, SharedRuns
<1>8. c.inTx => l.on # Root
  BY <1>2, <1>4, StoreAssumption DEF Querier
<1>9. WaitedForRuns'
  BY <1>2, <1>4, <1>8 DEF StoreInv, StoreTypeOK, WaitedForRuns
<1> QED BY <1>3, <1>5, <1>6, <1>7, <1>9 DEF StoreInv, CacheIsSound, AnswersOwn

\* A load ends: who awaited it is answered, and nobody else awaits it or can come to.
LEMMA SettleKeeps == ASSUME NEW l \in loads, StoreInv, Settle(l) PROVE StoreInv'
<1>1. PICK ok \in BOOLEAN :
         /\ ok => l.version \notin Unknown
         /\ failed' = IF ok THEN failed ELSE failed \cup {l.id}
         /\ cache' = IF ok THEN Remembered(l.version) ELSE cache
         /\ loads' = loads \ {l}
         /\ loading' = [loading EXCEPT ![l.version] = Dropped(l, ok)]
         /\ answered' = [r \in Requests |->
              IF call[r].at = "waiting" /\ call[r].load = l.id
              THEN {[version |-> l.version, ok |-> ok, stale |-> FALSE]} ELSE answered[r]]
         /\ call' = [r \in Requests |->
              IF call[r].at = "waiting" /\ call[r].load = l.id
              THEN [call[r] EXCEPT !.at = "done"] ELSE call[r]]
         /\ UNCHANGED lastLoad
  <2>1. PICK lost \in BOOLEAN :
       LET ok == ~lost /\ l.version \notin Unknown
       IN  /\ failed' = IF ok THEN failed ELSE failed \cup {l.id}
           /\ cache' = IF ok THEN Remembered(l.version) ELSE cache
           /\ loads' = loads \ {l}
           /\ loading' = [loading EXCEPT ![l.version] = Dropped(l, ok)]
           /\ answered' = [r \in Requests |->
                IF call[r].at = "waiting" /\ call[r].load = l.id
                THEN {[version |-> l.version, ok |-> ok, stale |-> FALSE]} ELSE answered[r]]
           /\ call' = [r \in Requests |->
                IF call[r].at = "waiting" /\ call[r].load = l.id
                THEN [call[r] EXCEPT !.at = "done"] ELSE call[r]]
           /\ UNCHANGED <<connections, lastLoad>>
    BY DEF Settle
  <2>2. (~lost /\ l.version \notin Unknown) \in BOOLEAN
    OBVIOUS
  <2> QED BY <2>1, <2>2
<1>2. PICK gone \in Loads : gone = l /\ gone.id \in Nat /\ gone.version \in Versions
  BY DEF StoreInv, StoreTypeOK, Loads
<1>3. PICK next \in Nat :
         /\ loading' = [loading EXCEPT ![gone.version] = next]
         /\ next = IF loading[gone.version] = gone.id THEN 0 ELSE loading[gone.version]
  <2>1. loading[gone.version] \in Nat
    BY <1>2 DEF StoreInv, StoreTypeOK
  <2>2. Dropped(l, ok) = IF loading[gone.version] = gone.id THEN 0 ELSE loading[gone.version]
    BY <1>2 DEF Dropped
  <2> QED BY <1>1, <1>2, <2>1, <2>2
<1>4. \A r \in Requests : call[r] \in Calls
  BY DEF StoreInv, StoreTypeOK
<1>5. /\ call' \in [Requests -> Calls]
      /\ \A r \in Requests : call'[r].at = "waiting" => call'[r] = call[r] /\ call[r].load # gone.id
  <2>1. \A c \in Calls : [c EXCEPT !.at = "done"] \in Calls /\ [c EXCEPT !.at = "done"].at = "done"
    BY DEF Calls
  <2> QED BY <1>1, <1>2, <1>4, <2>1
<1>6. PICK own \in Answers :
         /\ own = [version |-> l.version, ok |-> ok, stale |-> FALSE]
         /\ ~own.stale /\ (own.ok => own.version \notin Unknown)
  <2>1. [version |-> l.version, ok |-> ok, stale |-> FALSE] \in Answers
    BY <1>2 DEF Answers
  <2> QED BY <1>1, <2>1
<1>7. \A r \in Requests : answered'[r] = {own} \/ answered'[r] = answered[r]
  BY <1>1, <1>6
<1>8. answered' \in [Requests -> SUBSET Answers]
  BY <1>1, <1>6 DEF StoreInv, StoreTypeOK
<1>9. StoreTypeOK'
  BY <1>1, <1>2, <1>3, <1>5, <1>8 DEF StoreInv, StoreTypeOK
<1>10. CacheIsSound'
  BY <1>1, <1>2, RememberedFits DEF StoreInv, CacheIsSound, Sound
<1>11. IdsAreOne'
  BY <1>1, <1>2 DEF StoreInv, IdsAreOne
<1>12. SharedRuns'
  <2> SUFFICES ASSUME NEW v \in Versions, loading'[v] # 0
               PROVE  \E m \in loads' : m.id = loading'[v] /\ m.version = v
    BY DEF SharedRuns
  <2>1. loading'[v] = loading[v] /\ loading[v] # 0
    BY <1>3 DEF StoreInv, StoreTypeOK
  <2>2. PICK m \in loads : m.id = loading[v] /\ m.version = v
    BY <2>1 DEF StoreInv, SharedRuns
  <2>3. m # l
    BY <1>2, <1>3, <2>1, <2>2 DEF StoreInv, StoreTypeOK
  <2> QED BY <1>1, <2>1, <2>2, <2>3
<1>13. WaitedForRuns'
  BY <1>1, <1>2, <1>5 DEF StoreInv, WaitedForRuns
<1>14. AnswersOwn'
  BY <1>6, <1>7 DEF StoreInv, AnswersOwn
<1> QED BY <1>9, <1>10, <1>11, <1>12, <1>13, <1>14 DEF StoreInv

\* Every step keeps the invariant.
LEMMA StoreKeepsInv == StoreInv /\ [StoreNext]_store => StoreInv'
<1> SUFFICES ASSUME StoreInv, [StoreNext]_store PROVE StoreInv'  OBVIOUS
<1>1. ASSUME NEW r \in Requests, Get(r) PROVE StoreInv'
  <2>1. PICK v \in Versions : Hit(r, v) \/ Share(r, v) \/ Load(r, v)
    BY <1>1 DEF Get
  <2> QED BY <1>1, <2>1, HitKeeps, ShareKeeps, LoadKeeps
<1>2. CASE UNCHANGED store
  BY <1>2 DEF store, StoreInv, StoreTypeOK, CacheIsSound, IdsAreOne, SharedRuns, WaitedForRuns,
              AnswersOwn
<1> QED BY <1>1, <1>2, TxKeeps, SettleKeeps DEF StoreNext

\* content.ts:50-110: whatever queries fail and whoever shares a load: no get is answered by a
\* failure that came before it, none by a bundle without a sound row, and the cache stays in bounds.
THEOREM FailuresStayForgotten == StoreSpec => []FailureForgotten
<1>1. StoreInv => FailureForgotten
  BY DEF StoreInv, CacheIsSound, AnswersOwn, FailureForgotten
<1> QED BY <1>1, StoreInitHolds, StoreKeepsInv, PTL DEF StoreSpec

\* A get inside a transaction awaits a load that needs no connection but one a transaction has.
NoTxWaitsForItself ==
    \A r \in Requests : call[r].at = "waiting" /\ call[r].inTx =>
       \E l \in loads : l.id = call[r].load /\ CanRun(l)

\* content.ts:57-59: on any number of connections, all of them held by transactions too, no
\* transaction awaits a load that is queued behind transactions: the safety half of EveryGetAnswered.
THEOREM TransactionsNeverWaitForThemselves == StoreSpec => []NoTxWaitsForItself
<1>1. StoreInv => NoTxWaitsForItself
  BY DEF StoreInv, WaitedForRuns, NoTxWaitsForItself, CanRun
<1> QED BY <1>1, StoreInitHolds, StoreKeepsInv, PTL DEF StoreSpec

----------------------------------------------------------------------------
\* Boots, migrations and the publication of content (Boot).

BootSpec == BootInit /\ [][BootNext]_boot

UnderLock == {"locked", "running", "skipping"}
Migrated == {"publishing", "inserting", "serving"}
Stages == {"off", "exited", "waiting"} \cup UnderLock \cup Migrated

BootTypeOK ==
    /\ stage \in [Instances -> Stages]
    /\ file \in [Instances -> 0..(Files + 1)]
    /\ bundle \in [Instances -> Checksums]
    /\ schemaMigrations \subseteq 1..Files
    /\ contentVersions \subseteq Checksums
    /\ ran \in [1..Files -> Nat]
    /\ looked \in [Instances -> SUBSET Checksums]
    /\ checkedAgainst \in [Checksums -> SUBSET Checksums]

\* What an instance has read of schema_migrations stays true while it holds the lock.
LockGuards ==
    \A i \in Instances :
       /\ stage[i] \in UnderLock => lock = i
       /\ stage[i] = "running" => file[i] \in 1..Files /\ file[i] \notin schemaMigrations
       /\ stage[i] = "skipping" => file[i] = 0 \/ file[i] \in schemaMigrations

\* An instance has every migration before the one it is at behind it.
BehindIsApplied ==
    \A i \in Instances :
       /\ \A g \in 1..Files : g < file[i] => g \in schemaMigrations
       /\ stage[i] \in {"waiting"} \cup UnderLock => file[i] <= Files
       /\ stage[i] \in Migrated => file[i] = Files + 1

RanAsRecorded ==
    /\ \A f \in 1..Files : ran[f] = IF f \in schemaMigrations THEN 1 ELSE 0
    /\ \A f \in schemaMigrations : \A g \in 1..f : g \in schemaMigrations

\* A publisher has seen no clash, and neither has one that has published.
NoClashSeen ==
    /\ \A i \in Instances : stage[i] = "inserting" =>
          \A v \in looked[i] : LabelOf(v) = LabelOf(bundle[i]) => v = bundle[i]
    /\ \A c \in contentVersions : \A v \in checkedAgainst[c] : LabelOf(v) = LabelOf(c) => v = c

MigrationInv == BootTypeOK /\ LockGuards /\ BehindIsApplied /\ RanAsRecorded

BootInv == MigrationInv /\ NoClashSeen

USE BootAssumption DEF UnderLock, Migrated, Stages

LEMMA InitBoots == BootInit => BootInv
BY DEF BootInit, BootInv, MigrationInv, BootTypeOK, LockGuards, BehindIsApplied, RanAsRecorded,
       NoClashSeen

\* A step that neither touches the rows nor enters a stage under the lock.
LEMMA QuietStep ==
    ASSUME MigrationInv, NEW i \in Instances,
           UNCHANGED <<file, schemaMigrations, ran>>, BootTypeOK',
           NEW to \in {"exited", "off", "publishing", "inserting", "serving"},
           stage' = [stage EXCEPT ![i] = to],
           to \in Migrated => stage[i] \in Migrated,
           lock' = lock \/ lock' = Freed(i)
    PROVE  MigrationInv'
<1>1. LockGuards'
  BY DEF MigrationInv, BootTypeOK, LockGuards, Freed
<1>2. BehindIsApplied'
  BY DEF MigrationInv, BootTypeOK, BehindIsApplied
<1>3. RanAsRecorded'
  BY DEF MigrationInv, RanAsRecorded
<1> QED
  BY <1>1, <1>2, <1>3 DEF MigrationInv

LEMMA TypeStep == BootInv /\ BootNext => BootTypeOK'
<1> SUFFICES ASSUME BootInv, NEW i \in Instances,
                    Booting(i) \/ CommitLost(i) \/ Stop(i) \/ Redeploy(i)
             PROVE  BootTypeOK'
  BY DEF BootNext
<1> USE DEF BootInv, MigrationInv, BootTypeOK, Goes, database
<1>1. CASE Start(i)
  BY <1>1 DEF Start
<1>2. CASE Lock(i) \/ LockTimesOut(i) \/ Check(i)
  BY <1>2 DEF Lock, LockTimesOut, Check
<1>3. CASE Skip(i)
  BY <1>3 DEF Skip, NextFile, BehindIsApplied
<1>4. CASE CommitFile(i) \/ CommitLost(i)
  <2>1. file[i] \in 1..Files /\ Committed(i)
    BY <1>4 DEF CommitFile, CommitLost, LockGuards
  <2>2. schemaMigrations' \subseteq 1..Files /\ ran' \in [1..Files -> Nat]
    <3>1. schemaMigrations' = schemaMigrations \cup {file[i]}
      BY <2>1 DEF Committed
    <3>2. schemaMigrations' \subseteq 1..Files
      BY <2>1, <3>1
    <3>3. ran' = [ran EXCEPT ![file[i]] = ran[file[i]] + 1]
      BY <2>1 DEF Committed
    <3>4. ran' \in [1..Files -> Nat]
      BY <2>1, <3>3
    <3> QED
      BY <3>2, <3>4
  <2>3. file' = file \/ file' = [file EXCEPT ![i] = file[i] + 1]
    BY <1>4 DEF CommitFile, CommitLost, NextFile
  <2>4. file' \in [Instances -> 0..(Files + 1)]
    BY <2>1, <2>3
  <2>5. \/ stage' = [stage EXCEPT ![i] = "exited"]
        \/ stage' = [stage EXCEPT ![i] = "waiting"]
        \/ stage' = [stage EXCEPT ![i] = "publishing"]
    <3>1. CASE file[i] = Files
      BY <1>4, <3>1 DEF CommitFile, CommitLost, NextFile
    <3>2. CASE file[i] # Files
      BY <1>4, <3>2 DEF CommitFile, CommitLost, NextFile
    <3> QED
      BY <3>1, <3>2
  <2>6. stage' \in [Instances -> Stages]
    BY <2>5
  <2>7. UNCHANGED <<bundle, contentVersions, looked, checkedAgainst>>
    BY <1>4 DEF CommitFile, CommitLost
  <2> QED
    BY <2>2, <2>4, <2>6, <2>7
<1>5. CASE CheckLabel(i)
  BY <1>5 DEF CheckLabel
<1>6. CASE Publish(i)
  BY <1>6 DEF Publish
<1>7. CASE Stop(i) \/ Redeploy(i)
  BY <1>7 DEF Stop, Redeploy
<1> QED
  BY <1>1, <1>2, <1>3, <1>4, <1>5, <1>6, <1>7 DEF Booting

\* The transactions of one migration, from the lock to its release.
LEMMA LockSteps ==
    ASSUME MigrationInv, BootTypeOK', NEW i \in Instances,
           Start(i) \/ Lock(i) \/ Check(i) \/ Skip(i)
    PROVE  MigrationInv'
<1> USE DEF MigrationInv, BootTypeOK, Goes, database
<1>1. CASE Start(i)
  BY <1>1 DEF Start, LockGuards, BehindIsApplied, RanAsRecorded
<1>2. CASE Lock(i)
  BY <1>2 DEF Lock, LockGuards, BehindIsApplied, RanAsRecorded
<1>3. CASE Check(i)
  BY <1>3 DEF Check, Pending, LockGuards, BehindIsApplied, RanAsRecorded
<1>4. CASE Skip(i)
  <2>1. LockGuards'
    BY <1>4 DEF Skip, NextFile, LockGuards
  <2>2. BehindIsApplied'
    BY <1>4 DEF Skip, NextFile, LockGuards, BehindIsApplied
  <2> QED
    BY <1>4, <2>1, <2>2 DEF Skip, RanAsRecorded
<1> QED
  BY <1>1, <1>2, <1>3, <1>4

\* A commit, answered or not: the holder of the lock is alone, and its file is next in order.
LEMMA CommitSteps ==
    ASSUME MigrationInv, BootTypeOK', NEW i \in Instances, CommitFile(i) \/ CommitLost(i)
    PROVE  MigrationInv'
<1> USE DEF MigrationInv, BootTypeOK, Goes
<1>1. /\ stage[i] = "running" /\ Committed(i)
      /\ file[i] \in 1..Files /\ file[i] \notin schemaMigrations /\ file[i] \in Nat
  BY DEF CommitFile, CommitLost, LockGuards
<1>2. \A j \in Instances \ {i} : /\ stage[j] \notin UnderLock
                                /\ stage'[j] = stage[j] /\ file'[j] = file[j]
  BY DEF CommitFile, CommitLost, NextFile, LockGuards
<1>3. /\ stage'[i] \in {"waiting", "publishing", "exited"}
      /\ stage'[i] = "waiting" => file'[i] = file[i] + 1 /\ file[i] # Files
      /\ stage'[i] = "publishing" => file'[i] = file[i] + 1 /\ file[i] = Files
      /\ file'[i] \in {file[i], file[i] + 1}
  BY DEF CommitFile, CommitLost, NextFile
<1>4. LockGuards'
  BY <1>2, <1>3 DEF LockGuards
<1>5. BehindIsApplied'
  BY <1>1, <1>2, <1>3 DEF BehindIsApplied, Committed
<1>6. RanAsRecorded'
  <2>1. \A f \in 1..Files : ran'[f] = IF f \in schemaMigrations' THEN 1 ELSE 0
    BY <1>1 DEF RanAsRecorded, Committed
  <2>2. \A g \in 1..file[i] : g \in schemaMigrations'
    BY <1>1 DEF BehindIsApplied, Committed
  <2>3. \A f \in schemaMigrations : \A g \in 1..f : g \in schemaMigrations'
    BY <1>1 DEF RanAsRecorded, Committed
  <2> QED
    BY <1>1, <2>1, <2>2, <2>3 DEF RanAsRecorded, Committed
<1> QED
  BY <1>4, <1>5, <1>6

LEMMA MigrationStep == BootInv /\ BootNext => MigrationInv'
<1> SUFFICES ASSUME BootInv, BootNext, NEW i \in Instances,
                    Booting(i) \/ CommitLost(i) \/ Stop(i) \/ Redeploy(i)
             PROVE  MigrationInv'
  BY DEF BootNext
<1>1. BootTypeOK' /\ MigrationInv
  BY TypeStep DEF BootInv
<1>2. CASE Start(i) \/ Lock(i) \/ Check(i) \/ Skip(i)
  BY <1>1, <1>2, LockSteps
<1>3. CASE CommitFile(i) \/ CommitLost(i)
  BY <1>1, <1>3, CommitSteps
<1>4. CASE LockTimesOut(i) \/ Stop(i) \/ Redeploy(i)
  <2>1. /\ UNCHANGED <<file, schemaMigrations, ran>> /\ (lock' = lock \/ lock' = Freed(i))
        /\ \/ stage' = [stage EXCEPT ![i] = "exited"]
           \/ stage' = [stage EXCEPT ![i] = "off"]
    BY <1>4 DEF LockTimesOut, Stop, Redeploy, Goes, database
  <2> QED
    BY <1>1, <2>1, QuietStep
<1>5. CASE CheckLabel(i) \/ Publish(i)
  <2>1. /\ UNCHANGED <<file, schemaMigrations, ran>> /\ lock' = lock
        /\ stage[i] \in Migrated
        /\ \/ stage' = [stage EXCEPT ![i] = "exited"]
           \/ stage' = [stage EXCEPT ![i] = "inserting"]
           \/ stage' = [stage EXCEPT ![i] = "serving"]
    BY <1>5 DEF CheckLabel, Publish, Goes
  <2> QED
    BY <1>1, <2>1, QuietStep
<1> QED
  BY <1>2, <1>3, <1>4, <1>5 DEF Booting

LEMMA LabelStep == BootInv /\ BootNext => NoClashSeen'
<1> SUFFICES ASSUME BootInv, NEW i \in Instances,
                    Booting(i) \/ CommitLost(i) \/ Stop(i) \/ Redeploy(i)
             PROVE  NoClashSeen'
  BY DEF BootNext
<1> USE DEF BootInv, MigrationInv, BootTypeOK, Goes, NoClashSeen
<1>1. CASE CheckLabel(i)
  <2>1. stage'[i] = "inserting" =>
           \A v \in contentVersions : LabelOf(v) = LabelOf(bundle[i]) => v = bundle[i]
    BY <1>1 DEF CheckLabel, Refuses, Clash
  <2> QED
    BY <1>1, <2>1 DEF CheckLabel
<1>2. CASE Publish(i)
  <2>1. \A j \in Instances : stage'[j] = "inserting" => stage[j] = "inserting"
    BY <1>2 DEF Publish
  <2>2. \A c \in contentVersions' : \A v \in checkedAgainst'[c] : LabelOf(v) = LabelOf(c) => v = c
    BY <1>2 DEF Publish
  <2> QED
    BY <1>2, <2>1, <2>2 DEF Publish
<1>3. CASE ~(CheckLabel(i) \/ Publish(i))
  <2>1. /\ UNCHANGED <<contentVersions, looked, checkedAgainst>>
        /\ \A j \in Instances : stage'[j] = "inserting" => stage[j] = "inserting" /\ bundle'[j] = bundle[j]
    BY <1>3 DEF Booting, Start, Lock, LockTimesOut, Check, Skip, CommitFile, CommitLost, Committed,
                NextFile, Stop, Redeploy, database
  <2> QED
    BY <2>1
<1> QED
  BY <1>1, <1>2, <1>3

\* main.ts, db/migrate.ts, content.ts: what an instance has read of the rows, and under which lock,
\* stays true through every step of the others.
THEOREM BootInvariant == BootSpec => []BootInv
<1>1. BootInv /\ UNCHANGED boot => BootInv'
  BY DEF BootInv, MigrationInv, BootTypeOK, LockGuards, BehindIsApplied, RanAsRecorded, NoClashSeen, boot
<1>2. BootInv /\ [BootNext]_boot => BootInv'
  BY <1>1, MigrationStep, LabelStep DEF BootInv
<1> QED
  BY InitBoots, <1>2, PTL DEF BootSpec

\* db/migrate.ts, content.ts: however many instances boot over one database, crash and lose the
\* answers of commits, each migration takes effect once and in order, no instance serves before
\* the last, and a label gets a second checksum only from publishers that could not see each other.
THEOREM BootsAlwaysAgree == BootSpec => []BootsAgree
<1>1. BootInv => EachMigrationOnce
  <2> SUFFICES ASSUME BootInv PROVE EachMigrationOnce
    OBVIOUS
  <2>1. \A i \in Instances : stage[i] = "serving" => schemaMigrations = 1..Files
    <3> SUFFICES ASSUME NEW i \in Instances, stage[i] = "serving"
                 PROVE  schemaMigrations = 1..Files
      OBVIOUS
    <3>1. file[i] = Files + 1 /\ schemaMigrations \subseteq 1..Files
      BY DEF BootInv, MigrationInv, BootTypeOK, BehindIsApplied
    <3>2. \A g \in 1..Files : g \in schemaMigrations
      BY <3>1 DEF BootInv, MigrationInv, BehindIsApplied
    <3> QED
      BY <3>1, <3>2
  <2> QED
    BY <2>1 DEF BootInv, MigrationInv, RanAsRecorded, EachMigrationOnce
<1>2. BootInv => LabelsPartInARace
  BY DEF BootInv, NoClashSeen, LabelsPartInARace
<1> QED
  BY BootInvariant, <1>1, <1>2, PTL DEF BootsAgree

HIDE BootAssumption DEF UnderLock, Migrated, Stages

----------------------------------------------------------------------------
\* Accounts.

Locks ==
    {PlayerLock(p) : p \in PlayerId} \cup {WorldLock(p) : p \in PlayerId}
    \cup {UserKey(u) : u \in Users}

InBatch == {"lock world", "batch", "touch player", "commit batch"}

Pcs == InBatch \cup {"new", "create", "commit create", "lock guest", "attach", "commit claim",
                    "delete", "cascade", "done"}
Outs == {"none", "200", "401", "404", "409", "500", "deadlock", "deleted",
         "claimed", "already-has-world", "unknown-guest"}

Transactions ==
    [pc : Pcs, user : Users \cup {None}, token : Guests \cup {None}, pid : PlayerId \cup {None},
     holds : SUBSET Locks, todo : SUBSET PlayerId, out : Outs]

\* A guest's row has its own id as its token; a claimed row remembers it; an account's
\* lazily created row has the account's id.
RowFor(p, row) ==
    \/ row = NoPlayer
    \/ p \in Guests /\ row.user = None /\ row.token = p /\ row.claimed = None
    \/ p \in Guests /\ row.user \in Users /\ row.token = None /\ row.claimed = p
    \/ p \in Users /\ row.user = p /\ row.token = None /\ row.claimed = None

RowsFit ==
    /\ player \in [PlayerId -> Rows]
    /\ \A p \in PlayerId : RowFor(p, player[p])
    /\ world = [p \in PlayerId |-> Exists(p)]
    /\ \A p, q \in PlayerId : player[p].user # None /\ player[p].user = player[q].user => p = q

\* A transaction that has found its world, or its verdict.
Reaches(t) ==
    /\ tx[t].pid \in PlayerId
    /\ tx[t].user # None => player[tx[t].pid].user = tx[t].user
    /\ tx[t].user = None => tx[t].pid = tx[t].token

AnswerTrue(t) ==
    LET u == tx[t].user  g == tx[t].token IN
    /\ tx[t].out \in {"claimed", "already-has-world", "unknown-guest"} =>
          tx[t].pc # "new" /\ u \in Users /\ g \in Guests
    /\ tx[t].out = "claimed" => player[g].user = u /\ player[g].claimed = g
    /\ tx[t].out = "already-has-world" => \E p \in PlayerId : player[p].user = u /\ player[p].claimed # g
    /\ tx[t].out = "unknown-guest" => player[g].token # g

\* What a transaction knows of the rows at each point, and the lock that keeps it so.
Knows(t) ==
    LET u == tx[t].user  g == tx[t].token IN
    /\ tx[t].pc \in {"create", "lock guest", "attach", "commit create", "commit claim"} => u \in Users
    /\ tx[t].pc \in {"lock guest", "attach", "commit claim"} => g \in Guests
    /\ tx[t].pc \in {"attach", "commit claim"} => PlayerLock(g) \in tx[t].holds /\ player[g].token = g
    /\ tx[t].pc \in {"commit create", "commit claim"} =>
          UserKey(u) \in tx[t].holds /\ \A p \in PlayerId : player[p].user # u
    /\ tx[t].pc = "commit batch" => PlayerLock(tx[t].pid) \in tx[t].holds
    /\ tx[t].pc \in InBatch \/ tx[t].out \in {"200", "409"} => Reaches(t)
    /\ t = Cleaner => /\ tx[t].pc \in {"new", "delete", "cascade", "done"}
                      /\ \A p \in PlayerId : PlayerLock(p) \in tx[t].holds => StaleGuest(p)

AccountsInv ==
    /\ RowsFit
    /\ tx \in [Tx -> Transactions]
    /\ \A s, t \in Tx : s # t => tx[s].holds \cap tx[t].holds = {}
    /\ \A t \in Tx : Knows(t) /\ AnswerTrue(t)

USE IdAssumption DEF InBatch

----------------------------------------------------------------------------
LEMMA LocksDiffer ==
    /\ \A p, q : PlayerLock(p) # WorldLock(q) /\ PlayerLock(p) # UserKey(q) /\ WorldLock(p) # UserKey(q)
    /\ \A p, q : PlayerLock(p) = PlayerLock(q) => p = q
    /\ \A p, q : UserKey(p) = UserKey(q) => p = q
BY DEF PlayerLock, WorldLock, UserKey

LEMMA RowFields ==
    ASSUME RowsFit, NEW p \in PlayerId
    PROVE  /\ player[p].user \in Users \cup {None}
           /\ Exists(p) <=> player[p].user # None \/ player[p].token # None
           /\ player[p].user # None => player[p].token = None
           /\ \A g \in Guests : player[p].token = g => p = g
           /\ \A g \in Guests : player[p].claimed = g => p = g /\ player[p].user # None
           /\ \A u \in Users : player[u].user \in {u, None} /\ player[u].token = None
<1>1. RowFor(p, player[p]) /\ \A u \in Users : RowFor(u, player[u])
  BY DEF RowsFit, PlayerId
<1>2. \A u \in Users : player[u].user \in {u, None} /\ player[u].token = None
  <2> TAKE u \in Users
  <2>1. u \notin Guests /\ RowFor(u, player[u])
    BY <1>1
  <2> QED
    BY <2>1 DEF RowFor, NoPlayer
<1>3. CASE player[p] = NoPlayer
  BY <1>2, <1>3 DEF NoPlayer, Exists
<1>4. CASE p \in Guests /\ player[p].user = None /\ player[p].token = p /\ player[p].claimed = None
  BY <1>2, <1>4 DEF NoPlayer, Exists
<1>5. CASE p \in Guests /\ player[p].user \in Users /\ player[p].token = None /\ player[p].claimed = p
  BY <1>2, <1>5 DEF NoPlayer, Exists
<1>6. CASE p \in Users /\ player[p].user = p /\ player[p].token = None /\ player[p].claimed = None
  BY <1>2, <1>6 DEF NoPlayer, Exists
<1> QED
  BY <1>1, <1>3, <1>4, <1>5, <1>6 DEF RowFor

\* The same request, of the same player.
SameTask(r, q) == r.user = q.user /\ r.token = q.token /\ r.pid = q.pid

LEMMA GotoIs ==
    ASSUME tx \in [Tx -> Transactions], NEW t \in Tx, NEW pc \in Pcs, tx' = Goto(t, pc)
    PROVE  /\ tx' \in [Tx -> Transactions]
           /\ \A s \in Tx \ {t} : tx'[s] = tx[s]
           /\ SameTask(tx'[t], tx[t]) /\ tx'[t].pc = pc
           /\ tx'[t].holds = tx[t].holds /\ tx'[t].out = tx[t].out
BY DEF Goto, Transactions, SameTask

LEMMA TakeIs ==
    ASSUME tx \in [Tx -> Transactions], NEW t \in Tx, NEW taken \in Locks, NEW pc \in Pcs,
           tx' = Acquire(t, taken, pc)
    PROVE  /\ tx' \in [Tx -> Transactions]
           /\ \A s \in Tx \ {t} : tx'[s] = tx[s]
           /\ SameTask(tx'[t], tx[t]) /\ tx'[t].pc = pc
           /\ tx'[t].holds = tx[t].holds \cup {taken}
           /\ tx'[t].out = tx[t].out
BY DEF Acquire, Transactions, SameTask

LEMMA FinishIs ==
    ASSUME tx \in [Tx -> Transactions], NEW t \in Tx, NEW out \in Outs
    PROVE  /\ Finish(t, out) \in [Tx -> Transactions]
           /\ \A s \in Tx \ {t} : Finish(t, out)[s] = tx[s]
           /\ SameTask(Finish(t, out)[t], tx[t]) /\ Finish(t, out)[t].pc = "done"
           /\ Finish(t, out)[t].holds = {} /\ Finish(t, out)[t].out = out
<1> DEFINE r == [tx[t] EXCEPT !.pc = "done", !.out = out, !.holds = {}, !.todo = {}]
<1>1. tx[t] \in Transactions
  OBVIOUS
<1>2. r \in Transactions
  <2> DEFINE q == [tx[t] EXCEPT !.pc = "done", !.out = out]
  <2>1. q \in Transactions
    BY <1>1 DEF Transactions, Pcs
  <2>2. r = [q EXCEPT !.holds = {}, !.todo = {}]
    BY <1>1 DEF Transactions
  <2> HIDE DEF q, r
  <2> QED
    BY <2>1, <2>2 DEF Transactions
<1>3. Finish(t, out) = [tx EXCEPT ![t] = r]
  BY <1>1 DEF Finish, Transactions
<1> HIDE DEF r
<1>4. /\ Finish(t, out) \in [Tx -> Transactions]
      /\ \A s \in Tx \ {t} : Finish(t, out)[s] = tx[s]
      /\ Finish(t, out)[t] = r
  BY <1>2, <1>3
<1>5. SameTask(r, tx[t]) /\ r.pc = "done" /\ r.holds = {} /\ r.out = out
  BY <1>1 DEF r, SameTask, Transactions
<1> QED
  BY <1>4, <1>5

LEMMA FinishStep ==
    ASSUME tx \in [Tx -> Transactions], NEW t \in Tx, NEW out \in Outs, tx' = Finish(t, out)
    PROVE  /\ tx' \in [Tx -> Transactions]
           /\ \A s \in Tx \ {t} : tx'[s] = tx[s]
           /\ SameTask(tx'[t], tx[t]) /\ tx'[t].pc = "done"
           /\ tx'[t].holds = {} /\ tx'[t].out = out
BY FinishIs

\* What a transaction that does not step may count on.
LEMMA OthersKnow ==
    ASSUME AccountsInv, RowsFit', NEW s \in Tx, tx'[s] = tx[s],
           \A p \in PlayerId : player[p].user # None =>
              player'[p].user = player[p].user /\ player'[p].claimed = player[p].claimed,
           \A p \in PlayerId : PlayerLock(p) \in tx[s].holds /\ Exists(p) => player'[p] = player[p],
           \A p \in PlayerId : \/ player'[p].user \in {player[p].user, None}
                               \/ UserKey(player'[p].user) \notin tx[s].holds,
           tx[s].pc # "new" /\ tx[s].token \in Guests =>
              (player'[tx[s].token].token = tx[s].token => player[tx[s].token].token = tx[s].token)
    PROVE  Knows(s)' /\ AnswerTrue(s)'
<1> USE DEF AccountsInv
<1>1. AnswerTrue(s)'
  BY DEF AnswerTrue, PlayerId
<1>2. Reaches(s) => Reaches(s)'
  BY DEF Reaches
<1>3. \A p \in PlayerId : PlayerLock(p) \in tx[s].holds /\ StaleGuest(p) => StaleGuest(p)'
  BY DEF StaleGuest, Exists
<1>4. \A g \in Guests : player[g].token = g /\ PlayerLock(g) \in tx[s].holds => player'[g].token = g
  BY RowFields DEF PlayerId
<1>5. \A u \in Users : UserKey(u) \in tx[s].holds /\ (\A p \in PlayerId : player[p].user # u)
                       => \A p \in PlayerId : player'[p].user # u
  OBVIOUS
<1>6. Knows(s)
  OBVIOUS
<1>7. (tx[s].pc \in {"attach", "commit claim"} =>
          PlayerLock(tx[s].token) \in tx[s].holds /\ player[tx[s].token].token = tx[s].token)'
  BY <1>4, <1>6 DEF Knows
<1>8. (tx[s].pc \in {"commit create", "commit claim"} =>
          UserKey(tx[s].user) \in tx[s].holds /\ \A p \in PlayerId : player[p].user # tx[s].user)'
  <2>1. tx[s].pc \in {"commit create", "commit claim"} =>
           /\ tx[s].user \in Users /\ UserKey(tx[s].user) \in tx[s].holds
           /\ \A p \in PlayerId : player[p].user # tx[s].user
    BY <1>6 DEF Knows
  <2> QED
    BY <1>5, <2>1
<1>9. (tx[s].pc \in InBatch \/ tx[s].out \in {"200", "409"} => Reaches(s))'
  BY <1>2, <1>6 DEF Knows
<1>10. (s = Cleaner => /\ tx[s].pc \in {"new", "delete", "cascade", "done"}
                       /\ \A p \in PlayerId : PlayerLock(p) \in tx[s].holds => StaleGuest(p))'
  BY <1>3, <1>6 DEF Knows
<1>11. Knows(s)'
  BY <1>6, <1>7, <1>8, <1>9, <1>10 DEF Knows
<1> QED
  BY <1>1, <1>11

\* A step of one transaction: it touches rows it has locked or made, and takes free locks.
LEMMA StepKeeps ==
    ASSUME AccountsInv, RowsFit', NEW t \in Tx, tx' \in [Tx -> Transactions],
           \A s \in Tx \ {t} : tx'[s] = tx[s],
           \A p \in PlayerId : player[p].user # None =>
              player'[p].user = player[p].user /\ player'[p].claimed = player[p].claimed,
           \A p \in PlayerId : \/ player'[p] = player[p] \/ ~Exists(p)
                               \/ PlayerLock(p) \in tx[t].holds,
           \A p \in PlayerId : \/ player'[p].user \in {player[p].user, None}
                               \/ UserKey(player'[p].user) \in tx[t].holds,
           \A g \in Guests : player'[g].token = g => player[g].token = g,
           \A taken \in tx'[t].holds : taken \in tx[t].holds \/ Free(t, taken),
           Knows(t)', AnswerTrue(t)'
    PROVE  AccountsInv'
<1>1. \A s \in Tx \ {t} : tx[s].holds \cap tx[t].holds = {}
  BY DEF AccountsInv
<1>2. ASSUME NEW s \in Tx, s # t PROVE Knows(s)' /\ AnswerTrue(s)'
  <2>1. \A p \in PlayerId : PlayerLock(p) \in tx[s].holds /\ Exists(p) => player'[p] = player[p]
    BY <1>1, <1>2
  <2>2. \A p \in PlayerId : \/ player'[p].user \in {player[p].user, None}
                            \/ UserKey(player'[p].user) \notin tx[s].holds
    BY <1>1, <1>2
  <2> QED
    BY <1>2, <2>1, <2>2, OthersKnow
<1>3. \A s \in Tx \ {t} : tx'[s].holds \cap tx'[t].holds = {}
  BY <1>1 DEF Free
<1>4. \A r, s \in Tx : r # s => tx'[r].holds \cap tx'[s].holds = {}
  BY <1>3 DEF AccountsInv
<1> QED
  BY <1>2, <1>4 DEF AccountsInv

LEMMA QuietKeeps ==
    ASSUME AccountsInv, UNCHANGED <<player, world>>, NEW t \in Tx, tx' \in [Tx -> Transactions],
           \A s \in Tx \ {t} : tx'[s] = tx[s],
           \A taken \in tx'[t].holds : taken \in tx[t].holds \/ Free(t, taken),
           Knows(t)', AnswerTrue(t)'
    PROVE  AccountsInv'
<1>1. RowsFit'
  BY DEF AccountsInv, RowsFit, RowFor, Exists
<1> QED
  BY <1>1, StepKeeps

\* Rolled back: the locks go, and the answer says nothing of the rows.
LEMMA FinishKeeps ==
    ASSUME AccountsInv, UNCHANGED <<player, world>>, NEW t \in Tx,
           NEW out \in {"404", "409", "500", "deadlock"}, tx' = Finish(t, out),
           out = "409" => Reaches(t)
    PROVE  AccountsInv'
<1>0. out \in Outs /\ tx \in [Tx -> Transactions]
  BY DEF Outs, AccountsInv
<1>1. /\ tx' \in [Tx -> Transactions]
      /\ \A s \in Tx \ {t} : tx'[s] = tx[s]
      /\ SameTask(tx'[t], tx[t]) /\ tx'[t].pc = "done" /\ tx'[t].holds = {} /\ tx'[t].out = out
  BY <1>0, FinishStep
<1>3. Knows(t)'
  BY <1>1 DEF Knows, Reaches, SameTask
<1>4. AnswerTrue(t)'
  BY <1>1 DEF AnswerTrue
<1> QED
  BY <1>1, <1>3, <1>4, QuietKeeps

----------------------------------------------------------------------------
Begun(u, g) == [Fresh EXCEPT !.user = u, !.token = g]

LEMMA BegunIs ==
    ASSUME NEW u \in Users \cup {None}, NEW g \in Guests \cup {None}
    PROVE  /\ Begun(u, g) \in Transactions
           /\ Begun(u, g).user = u /\ Begun(u, g).token = g
           /\ Begun(u, g).holds = {} /\ Begun(u, g).out = "none" /\ Begun(u, g).pc = "new"
BY DEF Begun, Fresh, Transactions, Pcs, Outs

LEMMA ActKeeps ==
    ASSUME AccountsInv, NEW t \in Tx, NEW u \in Users \cup {None}, NEW g \in Guests \cup {None},
           Act(t, u, g)
    PROVE  AccountsInv'
<1> DEFINE found == Authenticate(u, g)
           begun == Begun(u, g)
           owner == CHOOSE p \in found : TRUE
<1>1. t # Cleaner /\ UNCHANGED <<player, world>> /\ (u # None \/ g # None)
  BY DEF Act
<1>2. found # {} => /\ owner \in PlayerId
                    /\ u # None => player[owner].user = u
                    /\ u = None => owner = g
  <2>1. found # {} => owner \in found
    OBVIOUS
  <2>2. \A p \in found : /\ p \in PlayerId /\ (u # None => player[p].user = u)
                         /\ u = None => player[p].token = g /\ g \in Guests
    BY <1>1 DEF Authenticate, OwnedBy, HasToken
  <2> QED
    BY <2>1, <2>2, RowFields DEF AccountsInv
<1>3. /\ begun \in Transactions /\ begun.user = u /\ begun.token = g
      /\ begun.holds = {} /\ begun.out = "none"
  BY BegunIs
<1> DEFINE r == IF found # {} THEN [begun EXCEPT !.pc = "lock world", !.pid = owner]
                ELSE IF u # None THEN [begun EXCEPT !.pc = "create"]
                ELSE [begun EXCEPT !.pc = "done", !.out = "401"]
<1>4. tx' = [tx EXCEPT ![t] = r]
  BY DEF Act, Begun
<1> HIDE DEF found, owner, begun
<1>5. /\ r.user = u /\ r.token = g /\ r.holds = {}
      /\ r.pc \in {"lock world", "create", "done"} /\ r.out \in {"none", "401"}
      /\ r.pc = "lock world" => found # {} /\ r.pid = owner
      /\ r.pc = "create" => u # None
  BY <1>3 DEF Transactions
<1>6. r \in Transactions
  <2>1. CASE found # {}
    BY <1>2, <1>3, <2>1 DEF Transactions, Pcs, Outs
  <2>2. CASE found = {} /\ u # None
    BY <1>3, <2>2 DEF Transactions, Pcs, Outs
  <2>3. CASE found = {} /\ u = None
    BY <1>3, <2>3 DEF Transactions, Pcs, Outs
  <2> QED
    BY <2>1, <2>2, <2>3
<1> HIDE DEF r
<1>7. /\ tx' \in [Tx -> Transactions] /\ tx'[t] = r
      /\ \A s \in Tx \ {t} : tx'[s] = tx[s]
  BY <1>4, <1>6 DEF AccountsInv
<1>8. Knows(t)'
  BY <1>1, <1>2, <1>5, <1>7 DEF Knows, Reaches
<1>9. AnswerTrue(t)'
  BY <1>5, <1>7 DEF AnswerTrue
<1> QED
  BY <1>1, <1>5, <1>7, <1>8, <1>9, QuietKeeps

\* One row is written, with its world if it is new.
LEMMA RowChange ==
    ASSUME RowsFit, NEW p \in PlayerId, NEW row \in Rows, player' = [player EXCEPT ![p] = row],
           RowFor(p, row), row # NoPlayer,
           world' = [world EXCEPT ![p] = TRUE] \/ (world' = world /\ Exists(p)),
           row.user # None => \A q \in PlayerId \ {p} : player[q].user # row.user
    PROVE  /\ RowsFit' /\ player'[p] = row
           /\ \A q \in PlayerId \ {p} : player'[q] = player[q]
<1>1. /\ player' \in [PlayerId -> Rows] /\ player'[p] = row
      /\ \A q \in PlayerId \ {p} : player'[q] = player[q]
  BY DEF RowsFit
<1>2. \A q \in PlayerId : RowFor(q, player'[q])
  BY <1>1 DEF RowsFit, RowFor
<1>3. world' = [q \in PlayerId |-> Exists(q)']
  <2>1. \A q \in PlayerId : world'[q] = Exists(q)'
    BY <1>1 DEF RowsFit, Exists
  <2> QED
    BY <2>1 DEF RowsFit
<1>4. \A q, r \in PlayerId : player'[q].user # None /\ player'[q].user = player'[r].user => q = r
  BY <1>1 DEF RowsFit
<1> QED
  BY <1>1, <1>2, <1>3, <1>4 DEF RowsFit

LEMMA CreateKeeps ==
    ASSUME AccountsInv, NEW t \in Tx, InsertPlayer(t) \/ CommitCreate(t)
    PROVE  AccountsInv'
<1> DEFINE u == tx[t].user
<1>1. /\ tx[t].pc \in {"create", "commit create"} /\ u \in Users /\ t # Cleaner
      /\ tx \in [Tx -> Transactions] /\ tx[t] \in Transactions /\ Knows(t) /\ AnswerTrue(t)
  BY DEF AccountsInv, InsertPlayer, CommitCreate, Knows
<1> HIDE DEF u
<1>2. CASE InsertPlayer(t) /\ OwnedBy(u) # {}
  <2> DEFINE owner == CHOOSE p \in OwnedBy(u) : TRUE
  <2>1. owner \in PlayerId /\ player[owner].user = u
    BY <1>2 DEF OwnedBy
  <2>2. tx' = [tx EXCEPT ![t].pc = "lock world", ![t].pid = owner] /\ UNCHANGED <<player, world>>
    BY <1>2 DEF InsertPlayer, u
  <2> HIDE DEF owner
  <2>3. /\ tx' \in [Tx -> Transactions] /\ \A s \in Tx \ {t} : tx'[s] = tx[s]
        /\ tx'[t].pc = "lock world" /\ tx'[t].pid = owner /\ tx'[t].holds = tx[t].holds
        /\ tx'[t].out = tx[t].out /\ tx'[t].user = u /\ tx'[t].token = tx[t].token
    <3> DEFINE r == [tx[t] EXCEPT !.pc = "lock world", !.pid = owner]
    <3>1. r \in Transactions
      BY <1>1, <2>1 DEF Transactions, Pcs
    <3>2. tx' = [tx EXCEPT ![t] = r]
      BY <1>1, <2>2
    <3>3. /\ r.pc = "lock world" /\ r.pid = owner /\ r.holds = tx[t].holds
          /\ r.out = tx[t].out /\ r.user = u /\ r.token = tx[t].token
      BY <1>1 DEF Transactions, u
    <3> HIDE DEF r
    <3> QED
      BY <1>1, <3>1, <3>2, <3>3
  <2>4. Knows(t)'
    BY <1>1, <2>1, <2>2, <2>3 DEF Knows, Reaches
  <2>5. AnswerTrue(t)'
    BY <1>1, <2>2, <2>3 DEF AnswerTrue, u
  <2> QED
    BY <2>2, <2>3, <2>4, <2>5, QuietKeeps
<1>3. CASE InsertPlayer(t) /\ OwnedBy(u) = {}
  <2>1. /\ tx' = Acquire(t, UserKey(u), "commit create") /\ UNCHANGED <<player, world>>
        /\ Free(t, UserKey(u)) /\ \A p \in PlayerId : player[p].user # u
    BY <1>1, <1>3, RowFields DEF InsertPlayer, OwnedBy, AccountsInv, u
  <2>2. UserKey(u) \in Locks /\ "commit create" \in Pcs
    BY <1>1 DEF Locks, Pcs
  <2>3. /\ tx' \in [Tx -> Transactions] /\ \A s \in Tx \ {t} : tx'[s] = tx[s]
        /\ SameTask(tx'[t], tx[t]) /\ tx'[t].pc = "commit create"
        /\ tx'[t].holds = tx[t].holds \cup {UserKey(u)} /\ tx'[t].out = tx[t].out
    BY <1>1, <2>1, <2>2, TakeIs
  <2>4. Knows(t)'
    BY <1>1, <2>1, <2>3 DEF Knows, Reaches, SameTask, u
  <2>5. AnswerTrue(t)'
    BY <1>1, <2>1, <2>3 DEF AnswerTrue, SameTask
  <2> QED
    BY <2>1, <2>3, <2>4, <2>5, QuietKeeps
<1>4. CASE CommitCreate(t)
  <2> DEFINE row == Player(u, None, None, FALSE)
  <2>1. /\ player' = [player EXCEPT ![u] = row] /\ world' = [world EXCEPT ![u] = TRUE]
        /\ tx' = [tx EXCEPT ![t].pc = "lock world", ![t].pid = u, ![t].holds = {}]
    BY <1>4 DEF CommitCreate, u
  <2>2. UserKey(u) \in tx[t].holds /\ \A p \in PlayerId : player[p].user # u
    BY <1>1, <1>4 DEF CommitCreate, Knows, u
  <2>3. row \in Rows /\ row # NoPlayer /\ row.user = u /\ row.token = None
    BY <1>1 DEF Rows, Player, NoPlayer
  <2>4. u \in PlayerId /\ ~Exists(u)
    BY <1>1, <2>2, RowFields DEF PlayerId, AccountsInv
  <2>5. RowFor(u, row)
    BY <1>1 DEF RowFor, Player
  <2>6. RowsFit' /\ player'[u] = row /\ \A p \in PlayerId \ {u} : player'[p] = player[p]
    <3> HIDE DEF row
    <3>1. RowsFit
      BY DEF AccountsInv
    <3> QED
      BY <2>1, <2>2, <2>3, <2>4, <2>5, <3>1, RowChange
  <2> HIDE DEF row
  <2>7. /\ tx' \in [Tx -> Transactions] /\ \A s \in Tx \ {t} : tx'[s] = tx[s]
        /\ tx'[t].pc = "lock world" /\ tx'[t].pid = u /\ tx'[t].holds = {}
        /\ tx'[t].out = tx[t].out /\ tx'[t].user = u /\ tx'[t].token = tx[t].token
    <3> DEFINE r == [tx[t] EXCEPT !.pc = "lock world", !.pid = u, !.holds = {}]
    <3>1. r \in Transactions
      BY <1>1, <2>4 DEF Transactions, Pcs
    <3>2. tx' = [tx EXCEPT ![t] = r]
      BY <1>1, <2>1
    <3>3. /\ r.pc = "lock world" /\ r.pid = u /\ r.holds = {}
          /\ r.out = tx[t].out /\ r.user = u /\ r.token = tx[t].token
      BY <1>1 DEF Transactions, u
    <3> HIDE DEF r
    <3> QED
      BY <1>1, <3>1, <3>2, <3>3
  <2>8. Knows(t)'
    BY <1>1, <2>3, <2>4, <2>6, <2>7 DEF Knows, Reaches
  <2>9. AnswerTrue(t)'
    <3>1. \A p \in PlayerId : player[p].user = u => FALSE
      BY <2>2
    <3>2. \A g \in Guests : g \in PlayerId \ {u}
      BY <1>1 DEF PlayerId
    <3> QED
      BY <1>1, <2>6, <2>7, <3>1, <3>2 DEF AnswerTrue, u
  <2>10. \A g \in Guests : player'[g].token = g => player[g].token = g
    BY <1>1, <2>6 DEF PlayerId
  <2>11. \A p \in PlayerId : player[p].user # None =>
            player'[p].user = player[p].user /\ player'[p].claimed = player[p].claimed
    BY <2>4, <2>6, RowFields DEF AccountsInv
  <2>12. \A p \in PlayerId : /\ player'[p] = player[p] \/ ~Exists(p)
                             /\ player'[p].user = player[p].user \/ player'[p].user = u
    BY <2>3, <2>4, <2>6
  <2>13. \A p \in PlayerId : \/ player'[p].user \in {player[p].user, None}
                             \/ UserKey(player'[p].user) \in tx[t].holds
    BY <2>2, <2>12
  <2> QED
    BY <2>6, <2>7, <2>8, <2>9, <2>10, <2>11, <2>12, <2>13, StepKeeps
<1> QED
  BY <1>2, <1>3, <1>4

LEMMA BatchKeeps ==
    ASSUME AccountsInv, NEW t \in Tx,
           LockWorld(t) \/ RejectBatch(t) \/ AcceptBatch(t) \/ TouchPlayer(t)
    PROVE  AccountsInv'
<1>1. /\ tx[t].pc \in InBatch /\ tx[t].pc # "commit batch"
      /\ Reaches(t) /\ t # Cleaner /\ UNCHANGED <<player, world>>
      /\ tx \in [Tx -> Transactions] /\ Knows(t) /\ AnswerTrue(t)
  BY DEF AccountsInv, LockWorld, RejectBatch, AcceptBatch, TouchPlayer, Knows
<1>2. PlayerLock(tx[t].pid) \in Locks /\ WorldLock(tx[t].pid) \in Locks
  BY <1>1 DEF Reaches, Locks
<1>3. ASSUME tx' \in [Tx -> Transactions], \A s \in Tx \ {t} : tx'[s] = tx[s],
             SameTask(tx'[t], tx[t]), tx'[t].out = tx[t].out,
             tx'[t].pc \in {"batch", "touch player", "commit batch"},
             tx'[t].pc = "commit batch" => PlayerLock(tx[t].pid) \in tx'[t].holds,
             \A taken \in tx'[t].holds : taken \in tx[t].holds \/ Free(t, taken)
      PROVE  AccountsInv'
  <2>1. Reaches(t)'
    BY <1>1, <1>3 DEF Reaches, SameTask
  <2>2. Knows(t)'
    BY <1>1, <1>3, <2>1 DEF Knows, SameTask
  <2>3. AnswerTrue(t)'
    BY <1>1, <1>3 DEF AnswerTrue, SameTask
  <2> QED
    BY <1>1, <1>3, <2>2, <2>3, QuietKeeps
<1>4. CASE LockWorld(t)
  <2>1. CASE tx' = Finish(t, "404")
    BY <1>1, <2>1, FinishKeeps
  <2>2. CASE tx' = Acquire(t, WorldLock(tx[t].pid), "batch") /\ Free(t, WorldLock(tx[t].pid))
    BY <1>1, <1>2, <1>3, <2>2, TakeIs DEF Pcs
  <2> QED
    BY <1>4, <2>1, <2>2 DEF LockWorld
<1>5. CASE RejectBatch(t)
  BY <1>1, <1>5, FinishKeeps DEF RejectBatch
<1>6. CASE AcceptBatch(t)
  <2>1. tx' = Goto(t, "touch player") /\ "touch player" \in Pcs
    BY <1>6 DEF AcceptBatch, Pcs
  <2> QED
    BY <1>1, <1>3, <2>1, GotoIs
<1>7. CASE TouchPlayer(t)
  <2>1. /\ tx' = Acquire(t, PlayerLock(tx[t].pid), "commit batch") /\ "commit batch" \in Pcs
        /\ Free(t, PlayerLock(tx[t].pid))
    BY <1>7 DEF TouchPlayer, Pcs
  <2> QED
    BY <1>1, <1>2, <1>3, <2>1, TakeIs
<1> QED
  BY <1>4, <1>5, <1>6, <1>7

LEMMA CommitBatchKeeps == ASSUME AccountsInv, NEW t \in Tx, CommitBatch(t) PROVE AccountsInv'
<1> DEFINE p == tx[t].pid
           row == [player[p] EXCEPT !.stale = FALSE]
<1>1. /\ t # Cleaner /\ Reaches(t) /\ p \in PlayerId /\ PlayerLock(p) \in tx[t].holds
      /\ tx \in [Tx -> Transactions] /\ Knows(t) /\ AnswerTrue(t) /\ RowsFit
      /\ tx' = Finish(t, "200") /\ world' = world
      /\ player' = IF Exists(p) THEN [player EXCEPT ![p].stale = FALSE] ELSE player
  BY DEF AccountsInv, CommitBatch, Knows, Reaches
<1> HIDE DEF p
<1>2. RowsFit' /\ \A q \in PlayerId : /\ player'[q] = player[q] \/ q = p
                                     /\ player'[q].user = player[q].user
                                     /\ player'[q].token = player[q].token
                                     /\ player'[q].claimed = player[q].claimed
  <2>1. CASE Exists(p)
    <3>1. player[p] \in Rows /\ player[p] # NoPlayer /\ RowFor(p, player[p])
      BY <1>1, <2>1 DEF RowsFit, Exists
    <3>2. /\ row.user = player[p].user /\ row.token = player[p].token
          /\ row.claimed = player[p].claimed
      BY <3>1 DEF Rows, NoPlayer
    <3>3. row \in Rows /\ row # NoPlayer
      <4>1. player[p].user # None \/ player[p].token # None
        BY <1>1, <2>1, RowFields
      <4>2. row \in Rows
        BY <3>1 DEF Rows, NoPlayer
      <4> QED
        BY <3>2, <4>1, <4>2 DEF NoPlayer
    <3>4. RowFor(p, row)
      BY <3>1, <3>2 DEF RowFor
    <3>5. player' = [player EXCEPT ![p] = row]
      BY <1>1, <2>1
    <3>6. row.user # None => \A q \in PlayerId \ {p} : player[q].user # row.user
      BY <1>1, <3>2 DEF RowsFit
    <3> HIDE DEF row
    <3>7. RowsFit' /\ player'[p] = row /\ \A q \in PlayerId \ {p} : player'[q] = player[q]
      BY <1>1, <2>1, <3>3, <3>4, <3>5, <3>6, RowChange
    <3> QED
      BY <3>2, <3>7
  <2>2. CASE ~Exists(p)
    BY <1>1, <2>2 DEF RowsFit, Exists
  <2> QED
    BY <2>1, <2>2
<1>3. /\ tx' \in [Tx -> Transactions] /\ \A s \in Tx \ {t} : tx'[s] = tx[s]
      /\ SameTask(tx'[t], tx[t]) /\ tx'[t].pc = "done" /\ tx'[t].holds = {} /\ tx'[t].out = "200"
  BY <1>1, FinishStep DEF Outs
<1>4. Knows(t)'
  BY <1>1, <1>2, <1>3 DEF Knows, Reaches, SameTask
<1>5. AnswerTrue(t)'
  BY <1>3 DEF AnswerTrue
<1> QED
  BY <1>1, <1>2, <1>3, <1>4, <1>5, StepKeeps DEF PlayerId

LEMMA ClaimKeeps ==
    ASSUME AccountsInv, NEW t \in Tx, NEW u \in Users, NEW g \in Guests, Claim(t, u, g)
    PROVE  AccountsInv'
<1> DEFINE own == CHOOSE p \in OwnedBy(u) : TRUE
           r == IF OwnedBy(u) = {} THEN [Begun(u, g) EXCEPT !.pc = "lock guest"]
                ELSE [Begun(u, g) EXCEPT !.pc = "done", !.pid = own, !.out = OwnAnswer(own, g)]
<1>1. /\ t # Cleaner /\ UNCHANGED <<player, world>> /\ tx' = [tx EXCEPT ![t] = r]
      /\ tx \in [Tx -> Transactions] /\ RowsFit
  BY DEF Claim, Begun, AccountsInv
<1>2. OwnedBy(u) # {} => own \in PlayerId /\ player[own].user = u
  BY DEF OwnedBy
<1>3. OwnAnswer(own, g) \in {"claimed", "already-has-world"}
  BY DEF OwnAnswer
<1>4. /\ Begun(u, g) \in Transactions /\ Begun(u, g).user = u /\ Begun(u, g).token = g
      /\ Begun(u, g).holds = {} /\ Begun(u, g).out = "none"
  BY BegunIs
<1> HIDE DEF own
<1>5. /\ r \in Transactions /\ r.user = u /\ r.token = g /\ r.holds = {}
      /\ \/ r.pc = "lock guest" /\ r.out = "none"
         \/ r.pc = "done" /\ r.out = OwnAnswer(own, g) /\ OwnedBy(u) # {}
  <2>1. CASE OwnedBy(u) = {}
    BY <1>4, <2>1 DEF Transactions, Pcs
  <2>2. CASE OwnedBy(u) # {}
    BY <1>2, <1>3, <1>4, <2>2 DEF Transactions, Pcs, Outs
  <2> QED
    BY <2>1, <2>2
<1> HIDE DEF r
<1>6. tx' \in [Tx -> Transactions] /\ tx'[t] = r /\ \A s \in Tx \ {t} : tx'[s] = tx[s]
  BY <1>1, <1>5
<1>7. Knows(t)'
  BY <1>1, <1>3, <1>5, <1>6 DEF Knows
<1>8. AnswerTrue(t)'
  <2>1. CASE r.out = "none"
    BY <1>6, <2>1 DEF AnswerTrue
  <2>2. CASE r.pc = "done" /\ OwnedBy(u) # {} /\ player[own].claimed = g /\ r.out = "claimed"
    <3>1. own = g
      BY <1>1, <1>2, <2>2, RowFields
    <3> QED
      BY <1>1, <1>2, <1>5, <1>6, <2>2, <3>1 DEF AnswerTrue
  <2>3. CASE r.pc = "done" /\ OwnedBy(u) # {} /\ player[own].claimed # g /\ r.out = "already-has-world"
    BY <1>1, <1>2, <1>5, <1>6, <2>3 DEF AnswerTrue
  <2> QED
    BY <1>5, <2>1, <2>2, <2>3 DEF OwnAnswer
<1> QED
  BY <1>1, <1>5, <1>6, <1>7, <1>8, QuietKeeps

LEMMA AttachKeeps ==
    ASSUME AccountsInv, NEW t \in Tx, LockGuest(t) \/ AttachGuest(t)
    PROVE  AccountsInv'
<1> DEFINE u == tx[t].user
           g == tx[t].token
<1>1. /\ tx[t].pc \in {"lock guest", "attach"} /\ u \in Users /\ g \in Guests
      /\ t # Cleaner /\ UNCHANGED <<player, world>> /\ tx \in [Tx -> Transactions]
      /\ Knows(t) /\ AnswerTrue(t) /\ RowsFit /\ g \in PlayerId
      /\ PlayerLock(g) \in Locks /\ UserKey(u) \in Locks
  BY DEF AccountsInv, LockGuest, AttachGuest, Knows, PlayerId, Locks
<1>2. ASSUME tx' \in [Tx -> Transactions], \A s \in Tx \ {t} : tx'[s] = tx[s],
             SameTask(tx'[t], tx[t]), Knows(t)', AnswerTrue(t)',
             \A taken \in tx'[t].holds : taken \in tx[t].holds \/ Free(t, taken)
      PROVE  AccountsInv'
  BY <1>1, <1>2, QuietKeeps
<1> HIDE DEF u, g
<1>3. CASE LockGuest(t) /\ HasToken(g) # {}
  <2>1. /\ tx' = Acquire(t, PlayerLock(g), "attach") /\ Free(t, PlayerLock(g)) /\ "attach" \in Pcs
    BY <1>3 DEF LockGuest, g, Pcs
  <2>2. player[g].token = g
    BY <1>1, <1>3, RowFields DEF HasToken
  <2>3. /\ tx' \in [Tx -> Transactions] /\ \A s \in Tx \ {t} : tx'[s] = tx[s]
        /\ SameTask(tx'[t], tx[t]) /\ tx'[t].pc = "attach" /\ tx'[t].out = tx[t].out
        /\ tx'[t].holds = tx[t].holds \cup {PlayerLock(g)}
    BY <1>1, <2>1, TakeIs
  <2>4. Knows(t)'
    BY <1>1, <2>2, <2>3 DEF Knows, Reaches, SameTask, u, g
  <2>5. AnswerTrue(t)'
    BY <1>1, <2>3 DEF AnswerTrue, SameTask
  <2> QED
    BY <1>2, <2>1, <2>3, <2>4, <2>5
<1>4. CASE LockGuest(t) /\ HasToken(g) = {}
  <2>1. tx' = Finish(t, "unknown-guest") /\ "unknown-guest" \in Outs
    BY <1>4 DEF LockGuest, g, Outs
  <2>2. /\ tx' \in [Tx -> Transactions] /\ \A s \in Tx \ {t} : tx'[s] = tx[s]
        /\ SameTask(tx'[t], tx[t]) /\ tx'[t].pc = "done" /\ tx'[t].out = "unknown-guest"
        /\ tx'[t].holds = {}
    BY <1>1, <2>1, FinishStep
  <2>3. Knows(t)'
    BY <1>1, <2>2 DEF Knows
  <2>4. player[g].token # g
    <3>1. player[g].token = g => Exists(g)
      BY <1>1, RowFields
    <3> QED
      BY <1>1, <1>4, <3>1 DEF HasToken
  <2>5. AnswerTrue(t)'
    BY <1>1, <2>2, <2>4 DEF AnswerTrue, SameTask, u, g
  <2> QED
    BY <1>2, <2>2, <2>3, <2>5
<1>5. CASE AttachGuest(t) /\ OwnedBy(u) = {}
  <2>1. /\ tx' = Acquire(t, UserKey(u), "commit claim") /\ Free(t, UserKey(u))
        /\ "commit claim" \in Pcs /\ tx[t].pc = "attach"
    BY <1>5 DEF AttachGuest, u, Pcs
  <2>2. \A p \in PlayerId : player[p].user # u
    BY <1>1, <1>5, RowFields DEF OwnedBy
  <2>3. /\ tx' \in [Tx -> Transactions] /\ \A s \in Tx \ {t} : tx'[s] = tx[s]
        /\ SameTask(tx'[t], tx[t]) /\ tx'[t].pc = "commit claim" /\ tx'[t].out = tx[t].out
        /\ tx'[t].holds = tx[t].holds \cup {UserKey(u)}
    BY <1>1, <2>1, TakeIs
  <2>4. Knows(t)'
    BY <1>1, <2>1, <2>2, <2>3 DEF Knows, Reaches, SameTask, u, g
  <2>5. AnswerTrue(t)'
    BY <1>1, <2>3 DEF AnswerTrue, SameTask
  <2> QED
    BY <1>2, <2>1, <2>3, <2>4, <2>5
<1>6. CASE AttachGuest(t) /\ OwnedBy(u) # {}
  <2>1. tx' = Finish(t, "already-has-world") /\ "already-has-world" \in Outs /\ tx[t].pc = "attach"
    BY <1>6 DEF AttachGuest, u, Outs
  <2>2. /\ tx' \in [Tx -> Transactions] /\ \A s \in Tx \ {t} : tx'[s] = tx[s]
        /\ SameTask(tx'[t], tx[t]) /\ tx'[t].pc = "done" /\ tx'[t].out = "already-has-world"
        /\ tx'[t].holds = {}
    BY <1>1, <2>1, FinishStep
  <2>3. Knows(t)'
    BY <1>1, <2>2 DEF Knows
  <2>4. \E p \in PlayerId : player[p].user = u /\ player[p].claimed # g
    <3>1. PICK p \in PlayerId : player[p].user = u
      BY <1>6 DEF OwnedBy
    <3>2. player[g].token = g
      BY <1>1, <2>1 DEF Knows, g
    <3>3. player[p].claimed # g
      BY <1>1, <3>1, <3>2, RowFields
    <3> QED
      BY <3>1, <3>3
  <2>5. AnswerTrue(t)'
    BY <1>1, <2>2, <2>4 DEF AnswerTrue, SameTask, u, g
  <2> QED
    BY <1>2, <2>2, <2>3, <2>5
<1> QED
  BY <1>3, <1>4, <1>5, <1>6

LEMMA CommitClaimKeeps == ASSUME AccountsInv, NEW t \in Tx, CommitClaim(t) PROVE AccountsInv'
<1> DEFINE u == tx[t].user
           g == tx[t].token
           row == Claimed(u, g)
<1>1. /\ u \in Users /\ g \in Guests /\ g \in PlayerId /\ t # Cleaner
      /\ PlayerLock(g) \in tx[t].holds /\ player[g].token = g
      /\ UserKey(u) \in tx[t].holds /\ \A p \in PlayerId : player[p].user # u
      /\ tx \in [Tx -> Transactions] /\ tx[t] \in Transactions /\ AnswerTrue(t) /\ RowsFit
      /\ player' = [player EXCEPT ![g] = row] /\ world' = world
      /\ tx' = [Finish(t, "claimed") EXCEPT ![t].pid = g]
  BY DEF AccountsInv, CommitClaim, Knows, PlayerId
<1> HIDE DEF u, g
<1>2. /\ player[g].user = None /\ Exists(g) /\ player[g] \in Rows
  BY <1>1, RowFields DEF RowsFit
<1>3. /\ row.user = u /\ row.token = None /\ row.claimed = g /\ row \in Rows /\ row # NoPlayer
  <2>1. row = [player[g] EXCEPT !.user = u, !.token = None, !.claimed = g]
    BY DEF Claimed
  <2>2. player[g] \in [user : {None}, token : Guests, claimed : {None}, stale : BOOLEAN]
    BY <1>1, <1>2 DEF Rows, NoPlayer
  <2> HIDE DEF row
  <2>3. row \in [user : Users, token : {None}, claimed : Guests \cup {None}, stale : BOOLEAN]
    BY <1>1, <2>1, <2>2
  <2>4. row.user = u /\ row.claimed = g
    BY <2>1, <2>2
  <2> QED
    BY <1>1, <2>3, <2>4 DEF Rows, NoPlayer
<1>4. RowFor(g, row)
  BY <1>1, <1>3 DEF RowFor
<1> HIDE DEF row
<1>5. RowsFit' /\ player'[g] = row /\ \A p \in PlayerId \ {g} : player'[p] = player[p]
  <2>1. row.user # None => \A p \in PlayerId \ {g} : player[p].user # row.user
    BY <1>1, <1>3
  <2>2. player' = [player EXCEPT ![g] = row] /\ world' = world /\ RowsFit /\ g \in PlayerId
    BY <1>1
  <2> QED
    BY <1>2, <1>3, <1>4, <2>1, <2>2, RowChange
<1>6. /\ tx' \in [Tx -> Transactions] /\ \A s \in Tx \ {t} : tx'[s] = tx[s]
      /\ tx'[t].pc = "done" /\ tx'[t].out = "claimed" /\ tx'[t].holds = {}
      /\ tx'[t].user = u /\ tx'[t].token = g
  <2> DEFINE f == Finish(t, "claimed")
             r == [f[t] EXCEPT !.pid = g]
  <2>0. "claimed" \in Outs
    BY DEF Outs
  <2>1. /\ f \in [Tx -> Transactions] /\ \A s \in Tx \ {t} : f[s] = tx[s]
        /\ SameTask(f[t], tx[t]) /\ f[t].pc = "done" /\ f[t].out = "claimed" /\ f[t].holds = {}
    BY <1>1, <2>0, FinishIs
  <2>2. tx' = [f EXCEPT ![t] = r]
    BY <1>1
  <2> HIDE DEF f
  <2>3. /\ r \in Transactions /\ r.pc = "done" /\ r.out = "claimed" /\ r.holds = {}
        /\ r.user = u /\ r.token = g
    BY <1>1, <2>1 DEF Transactions, SameTask, u, g
  <2> HIDE DEF r
  <2> QED
    BY <2>1, <2>2, <2>3
<1>7. Knows(t)'
  BY <1>1, <1>6 DEF Knows
<1>8. AnswerTrue(t)'
  BY <1>1, <1>3, <1>5, <1>6 DEF AnswerTrue
<1>9. /\ \A p \in PlayerId : player[p].user # None => player'[p] = player[p]
      /\ \A p \in PlayerId : player'[p] = player[p] \/ PlayerLock(p) \in tx[t].holds
      /\ \A p \in PlayerId : player'[p].user = player[p].user \/ UserKey(player'[p].user) \in tx[t].holds
      /\ \A h \in Guests : player'[h].token = h => player[h].token = h
  BY <1>1, <1>2, <1>3, <1>5 DEF PlayerId
<1> QED
  BY <1>1, <1>5, <1>6, <1>7, <1>8, <1>9, StepKeeps

\* The clean-up before its commit: it locks worlds, and players it has looked at again.
LEMMA CleanerLocks ==
    ASSUME AccountsInv, UNCHANGED <<player, world>>, NEW r \in Transactions,
           tx' = [tx EXCEPT ![Cleaner] = r], SameTask(r, tx[Cleaner]), r.out = tx[Cleaner].out,
           r.pc \in {"delete", "cascade"},
           \A taken \in r.holds : \/ taken \in tx[Cleaner].holds
                                \/ /\ Free(Cleaner, taken)
                                   /\ \E p \in PlayerId :
                                         taken = WorldLock(p) \/ (taken = PlayerLock(p) /\ StaleGuest(p))
    PROVE  AccountsInv'
<1>1. tx \in [Tx -> Transactions] /\ Knows(Cleaner) /\ AnswerTrue(Cleaner)
  BY DEF AccountsInv
<1>2. /\ tx' \in [Tx -> Transactions] /\ tx'[Cleaner] = r
      /\ \A s \in Tx \ {Cleaner} : tx'[s] = tx[s]
  BY <1>1
<1>3. \A p \in PlayerId : PlayerLock(p) \in r.holds => StaleGuest(p)
  BY <1>1, LocksDiffer DEF Knows
<1>4. \A p \in PlayerId : StaleGuest(p)' = StaleGuest(p)
  BY DEF StaleGuest, Exists
<1>5. Reaches(Cleaner) => Reaches(Cleaner)'
  BY <1>2 DEF Reaches, SameTask
<1>6. Knows(Cleaner)'
  BY <1>1, <1>2, <1>3, <1>4, <1>5 DEF Knows
<1>7. AnswerTrue(Cleaner)'
  BY <1>1, <1>2 DEF AnswerTrue, SameTask
<1> QED
  BY <1>2, <1>6, <1>7, QuietKeeps

LEMMA DeleteKeeps ==
    ASSUME AccountsInv,
           \/ StartDelete \/ StartCascade
           \/ \E p \in PlayerId : DeleteRow(p) \/ CascadeWorld(p)
    PROVE  AccountsInv'
<1> DEFINE c == tx[Cleaner]
<1>1. tx \in [Tx -> Transactions] /\ c \in Transactions
  BY DEF AccountsInv
<1>2. CASE StartDelete \/ StartCascade
  <2> DEFINE done == {p \in PlayerId : StaleGuest(p)}
  <2>1. /\ UNCHANGED <<player, world>>
        /\ \/ tx' = [tx EXCEPT ![Cleaner].pc = "delete", ![Cleaner].todo = done]
           \/ tx' = [tx EXCEPT ![Cleaner].pc = "cascade", ![Cleaner].todo = Doomed]
    BY <1>2 DEF StartDelete, StartCascade
  <2>2. done \subseteq PlayerId /\ Doomed \subseteq PlayerId
    BY DEF Doomed
  <2> HIDE DEF done
  <2>3. PICK pc \in {"delete", "cascade"}, todo \in SUBSET PlayerId :
           tx' = [tx EXCEPT ![Cleaner].pc = pc, ![Cleaner].todo = todo]
    BY <2>1, <2>2
  <2> DEFINE r == [c EXCEPT !.pc = pc, !.todo = todo]
  <2>4. r \in Transactions /\ SameTask(r, c) /\ r.out = c.out /\ r.pc = pc /\ r.holds = c.holds
    BY <1>1 DEF Transactions, Pcs, SameTask
  <2>5. tx' = [tx EXCEPT ![Cleaner] = r]
    BY <1>1, <2>3
  <2> HIDE DEF r
  <2> QED
    BY <2>1, <2>4, <2>5, CleanerLocks
<1>3. CASE \E p \in PlayerId : DeleteRow(p) \/ CascadeWorld(p)
  <2>1. PICK p \in PlayerId : DeleteRow(p) \/ CascadeWorld(p)
    BY <1>3
  <2>2. PICK taken \in {PlayerLock(p), WorldLock(p)} :
           /\ UNCHANGED <<player, world>> /\ c.pc \in {"delete", "cascade"} /\ Free(Cleaner, taken)
           /\ \/ /\ tx' = [tx EXCEPT ![Cleaner].todo = @ \ {p}, ![Cleaner].holds = @ \cup {taken}]
                 /\ taken = WorldLock(p) \/ StaleGuest(p)
              \/ tx' = [tx EXCEPT ![Cleaner].todo = @ \ {p}, ![Cleaner].holds = @]
    BY <2>1 DEF DeleteRow, CascadeWorld, Recheck
  <2>3. taken \in Locks
    BY DEF Locks
  <2> DEFINE r == [c EXCEPT !.todo = @ \ {p}, !.holds = @ \cup {taken}]
             q == [c EXCEPT !.todo = @ \ {p}, !.holds = @]
  <2>4. /\ r \in Transactions /\ SameTask(r, c) /\ r.out = c.out /\ r.pc = c.pc
        /\ r.holds = c.holds \cup {taken}
    BY <1>1, <2>3 DEF Transactions, SameTask
  <2>5. q \in Transactions /\ SameTask(q, c) /\ q.out = c.out /\ q.pc = c.pc /\ q.holds = c.holds
    BY <1>1 DEF Transactions, SameTask
  <2>6. CASE /\ tx' = [tx EXCEPT ![Cleaner].todo = @ \ {p}, ![Cleaner].holds = @ \cup {taken}]
             /\ taken = WorldLock(p) \/ StaleGuest(p)
    <3>1. tx' = [tx EXCEPT ![Cleaner] = r]
      BY <1>1, <2>6
    <3>2. /\ Free(Cleaner, taken)
          /\ taken = WorldLock(p) \/ (taken = PlayerLock(p) /\ StaleGuest(p))
      BY <2>2, <2>6
    <3> HIDE DEF r
    <3>3. \A held \in r.holds : \/ held \in tx[Cleaner].holds
                               \/ /\ Free(Cleaner, held)
                                  /\ \E o \in PlayerId :
                                        held = WorldLock(o) \/ (held = PlayerLock(o) /\ StaleGuest(o))
      BY <2>4, <3>2
    <3> QED
      BY <2>2, <2>4, <3>1, <3>3, CleanerLocks
  <2>7. CASE tx' = [tx EXCEPT ![Cleaner].todo = @ \ {p}, ![Cleaner].holds = @]
    <3>1. tx' = [tx EXCEPT ![Cleaner] = q]
      BY <1>1, <2>7
    <3> HIDE DEF q
    <3> QED
      BY <2>2, <2>5, <3>1, CleanerLocks
  <2> QED
    BY <2>2, <2>6, <2>7
<1> QED
  BY <1>2, <1>3

\* The clean-up's commit takes the rows it holds, which are stale guests still.
LEMMA CommitDeleteSpares ==
    ASSUME AccountsInv, CommitDelete, NEW p \in PlayerId
    PROVE  /\ player'[p] = player[p] \/ (player'[p] = NoPlayer /\ StaleGuest(p) /\ p \in Doomed)
           /\ world'[p] = (world[p] /\ p \notin Doomed)
BY DEF AccountsInv, CommitDelete, Doomed, Knows

LEMMA CommitDeleteKeeps == ASSUME AccountsInv, CommitDelete PROVE AccountsInv'
<1>1. /\ tx \in [Tx -> Transactions] /\ Knows(Cleaner) /\ AnswerTrue(Cleaner) /\ RowsFit
      /\ player' = [p \in PlayerId |-> IF p \in Doomed THEN NoPlayer ELSE player[p]]
      /\ world' = [p \in PlayerId |-> world[p] /\ p \notin Doomed]
      /\ tx' = Finish(Cleaner, "deleted") /\ "deleted" \in Outs
  BY DEF AccountsInv, CommitDelete, Outs
<1>2. RowsFit'
  <2>1. player' \in [PlayerId -> Rows]
    BY <1>1 DEF RowsFit, Rows
  <2>2. \A p \in PlayerId : RowFor(p, player'[p])
    BY <1>1 DEF RowsFit, RowFor
  <2>3. world' = [p \in PlayerId |-> Exists(p)']
    <3>1. \A p \in PlayerId : (world[p] /\ p \notin Doomed) <=> Exists(p)'
      BY <1>1 DEF RowsFit, Exists
    <3> QED
      BY <1>1, <3>1 DEF Exists
  <2>4. \A p \in PlayerId : player'[p].user # None => player'[p] = player[p]
    BY <1>1 DEF NoPlayer
  <2>5. \A p, q \in PlayerId : player'[p].user # None /\ player'[p].user = player'[q].user => p = q
    BY <1>1, <2>4 DEF RowsFit
  <2> QED
    BY <2>1, <2>2, <2>3, <2>5 DEF RowsFit
<1>3. /\ tx' \in [Tx -> Transactions] /\ \A s \in Tx \ {Cleaner} : tx'[s] = tx[s]
      /\ SameTask(tx'[Cleaner], tx[Cleaner]) /\ tx'[Cleaner].pc = "done"
      /\ tx'[Cleaner].holds = {} /\ tx'[Cleaner].out = "deleted"
  BY <1>1, FinishStep
<1>4. Knows(Cleaner)'
  BY <1>3 DEF Knows
<1>5. AnswerTrue(Cleaner)'
  BY <1>3 DEF AnswerTrue
<1>6. /\ \A p \in PlayerId : player[p].user # None => player'[p] = player[p]
      /\ \A p \in PlayerId : player'[p] = player[p] \/ PlayerLock(p) \in tx[Cleaner].holds
      /\ \A p \in PlayerId : player'[p].user \in {player[p].user, None}
      /\ \A g \in Guests : player'[g].token = g => player[g].token = g
  BY CommitDeleteSpares DEF StaleGuest, NoPlayer, Doomed, PlayerId
<1> QED
  BY <1>2, <1>3, <1>4, <1>5, <1>6, StepKeeps

----------------------------------------------------------------------------
LEMMA CreateGuestKeeps == ASSUME AccountsInv, NEW g \in Guests, CreateGuest(g) PROVE AccountsInv'
<1> DEFINE row == Player(None, g, None, FALSE)
<1>1. /\ player' = [player EXCEPT ![g] = row] /\ world' = [world EXCEPT ![g] = TRUE] /\ tx' = tx
      /\ ~Exists(g) /\ g \in PlayerId /\ RowsFit
      /\ \A t \in Tx : tx[t].pc # "new" => tx[t].token # g
  BY DEF CreateGuest, PlayerId, AccountsInv
<1>2. row \in Rows /\ row # NoPlayer /\ row.user = None /\ row.token = g /\ RowFor(g, row)
  BY DEF Player, Rows, NoPlayer, RowFor
<1> HIDE DEF row
<1>3. RowsFit' /\ player'[g] = row /\ \A p \in PlayerId \ {g} : player'[p] = player[p]
  BY <1>1, <1>2, RowChange
<1>4. player[g].user = None
  BY <1>1, RowFields
<1>5. ASSUME NEW s \in Tx PROVE Knows(s)' /\ AnswerTrue(s)'
  <2>1. \A p \in PlayerId : player[p].user # None =>
           player'[p].user = player[p].user /\ player'[p].claimed = player[p].claimed
    BY <1>3, <1>4
  <2>2. \A p \in PlayerId : PlayerLock(p) \in tx[s].holds /\ Exists(p) => player'[p] = player[p]
    BY <1>1, <1>3
  <2>3. \A p \in PlayerId : player'[p].user \in {player[p].user, None}
    BY <1>2, <1>3
  <2>4. tx[s].pc # "new" /\ tx[s].token \in Guests =>
           (player'[tx[s].token].token = tx[s].token => player[tx[s].token].token = tx[s].token)
    BY <1>1, <1>3 DEF PlayerId
  <2>5. tx'[s] = tx[s]
    BY <1>1
  <2> QED
    BY <1>3, <2>1, <2>2, <2>3, <2>4, <2>5, OthersKnow
<1> QED
  BY <1>1, <1>3, <1>5 DEF AccountsInv

LEMMA InitKnows == Init => AccountsInv
<1> SUFFICES ASSUME Init PROVE AccountsInv
  OBVIOUS
<1>1. PICK issued \in SUBSET Guests, stale \in SUBSET Guests :
         player = [p \in PlayerId |->
                     IF p \in issued THEN Player(None, p, None, p \in stale) ELSE NoPlayer]
  BY DEF Init
<1>2. RowsFit
  <2>1. \A p \in PlayerId : /\ player[p] \in Rows /\ RowFor(p, player[p])
                            /\ player[p].user = None
    BY <1>1 DEF Player, NoPlayer, Rows, RowFor
  <2>2. player \in [PlayerId -> Rows]
    BY <1>1, <2>1
  <2> QED
    BY <2>1, <2>2 DEF Init, RowsFit
<1>3. Fresh \in Transactions /\ Fresh.pc = "new" /\ Fresh.holds = {} /\ Fresh.out = "none"
  BY DEF Fresh, Transactions, Pcs, Outs
<1>4. tx \in [Tx -> Transactions] /\ \A t \in Tx : tx[t] = Fresh
  BY <1>3 DEF Init
<1>5. \A t \in Tx : Knows(t) /\ AnswerTrue(t)
  BY <1>3, <1>4 DEF Knows, AnswerTrue
<1> QED
  BY <1>2, <1>3, <1>4, <1>5 DEF AccountsInv

LEMMA NextKnows == AccountsInv /\ [Next]_vars => AccountsInv'
<1> SUFFICES ASSUME AccountsInv, [Next]_vars PROVE AccountsInv'
  OBVIOUS
<1>1. CASE \E g \in Guests : CreateGuest(g)
  BY <1>1, CreateGuestKeeps
<1>2. ASSUME NEW t \in Tx, NEW u \in Users \cup {None}, NEW g \in Guests \cup {None}, Act(t, u, g)
      PROVE  AccountsInv'
  BY <1>2, ActKeeps
<1>3. ASSUME NEW t \in Tx, NEW u \in Users, NEW g \in Guests, Claim(t, u, g)
      PROVE  AccountsInv'
  BY <1>3, ClaimKeeps
<1>4. ASSUME NEW t \in Tx, AbortVictim(t) \/ Abort(t) PROVE AccountsInv'
  BY <1>4, FinishKeeps DEF AbortVictim, Abort
<1>5. ASSUME NEW t \in Tx, Step(t) PROVE AccountsInv'
  BY <1>4, <1>5, CreateKeeps, BatchKeeps, CommitBatchKeeps, AttachKeeps, CommitClaimKeeps DEF Step
<1>6. CASE CleanerStep
  BY <1>6, DeleteKeeps, CommitDeleteKeeps DEF CleanerStep
<1>7. CASE UNCHANGED vars
  <2>1. RowsFit'
    BY <1>7 DEF AccountsInv, RowsFit, Exists, vars
  <2>2. \A t \in Tx : Knows(t)' /\ AnswerTrue(t)'
    BY <1>7, <2>1, OthersKnow DEF vars
  <2> QED
    BY <1>7, <2>1, <2>2 DEF AccountsInv, vars
<1>8. CASE Finished
  BY <1>7, <1>8 DEF Finished
<1> QED
  BY <1>1, <1>2, <1>3, <1>4, <1>5, <1>6, <1>7, <1>8 DEF Next

LEMMA AtMostOne ==
    ASSUME NEW S, \A a, b \in S : a = b
    PROVE  Cardinality(S) <= 1
<1>1. CASE S = {}
  BY <1>1, FS_EmptySet
<1>2. CASE S # {}
  <2>1. PICK a \in S : S = {a}
    BY <1>2
  <2>2. Cardinality({a}) = 1
    BY FS_Singleton
  <2> QED
    BY <2>1, <2>2
<1> QED
  BY <1>1, <1>2

LEMMA InvOwners == AccountsInv => OwnersRight
<1> SUFFICES ASSUME AccountsInv PROVE OwnersRight
  OBVIOUS
<1>1. TypeOK
  BY DEF AccountsInv, RowsFit, TypeOK, Transactions
<1>2. OneWorldPerAccount
  <2>1. ASSUME NEW u \in Users PROVE Cardinality(OwnedBy(u)) <= 1
    <3>1. \A p, q \in OwnedBy(u) : p = q
      BY DEF AccountsInv, RowsFit, OwnedBy
    <3> QED
      BY <3>1, AtMostOne
  <2>2. ASSUME NEW g \in Guests PROVE Cardinality({p \in PlayerId : player[p].claimed = g}) <= 1
    <3>1. \A p, q \in {r \in PlayerId : player[r].claimed = g} : p = q
      BY RowFields DEF AccountsInv
    <3> QED
      BY <3>1, AtMostOne
  <2> QED
    BY <2>1, <2>2 DEF OneWorldPerAccount
<1>3. ASSUME NEW t \in Tx
      PROVE  LET u == tx[t].user  g == tx[t].token IN
             /\ tx[t].out = "claimed" => player[g].user = u /\ player[g].claimed = g
             /\ tx[t].out = "already-has-world" => \E p \in OwnedBy(u) : player[p].claimed # g
             /\ tx[t].out = "unknown-guest" => HasToken(g) = {}
  <2>1. AnswerTrue(t) /\ RowsFit
    BY DEF AccountsInv
  <2>2. \A u \in Users, p \in PlayerId : player[p].user = u => p \in OwnedBy(u)
    BY <2>1, RowFields DEF OwnedBy
  <2>3. \A g \in Guests : player[g].token # g => HasToken(g) = {}
    BY <2>1, RowFields DEF HasToken
  <2> QED
    BY <2>1, <2>2, <2>3 DEF AnswerTrue
<1> QED
  BY <1>1, <1>2, <1>3 DEF OwnersRight, ClaimAnswersTrue

\* What one step may do to a row that belongs to an account, or whose guest has come back.
LEMMA StepSpares ==
    ASSUME AccountsInv, [Next]_vars, NEW p \in PlayerId, Exists(p)
    PROVE  /\ player[p].user # None => player'[p].user = player[p].user /\ world'[p]
           /\ ~player[p].stale => player'[p] # NoPlayer
<1>1. AccountsInv' /\ RowsFit
  BY NextKnows DEF AccountsInv
<1>2. player[p].user # None \/ player[p].token # None
  BY <1>1, RowFields
<1>3. /\ player[p].user # None => player'[p].user = player[p].user
      /\ ~player[p].stale => player'[p].user # None \/ player'[p].token # None
  <2>1. ASSUME NEW t \in Tx, CommitCreate(t) PROVE player'[p] = player[p]
    <3>1. tx[t].user \in Users /\ \A q \in PlayerId : player[q].user # tx[t].user
      BY <2>1 DEF CommitCreate, AccountsInv, Knows
    <3>2. p # tx[t].user
      BY <1>1, <1>2, <3>1, RowFields
    <3> QED
      BY <1>1, <2>1, <3>2 DEF CommitCreate, RowsFit
  <2>2. ASSUME NEW t \in Tx, CommitBatch(t)
        PROVE  player'[p].user = player[p].user /\ player'[p].token = player[p].token
    <3>1. player \in [PlayerId -> Rows] /\ tx[t].pid \in PlayerId /\ player[tx[t].pid] \in Rows
      BY <1>1, <2>1, <2>2 DEF CommitBatch, AccountsInv, Knows, Reaches, RowsFit
    <3> DEFINE row == [player[tx[t].pid] EXCEPT !.stale = FALSE]
    <3>2. row.user = player[tx[t].pid].user /\ row.token = player[tx[t].pid].token
      BY <3>1 DEF Rows, NoPlayer
    <3>3. player' = player \/ player' = [player EXCEPT ![tx[t].pid] = row]
      BY <2>2, <3>1 DEF CommitBatch
    <3> HIDE DEF row
    <3> QED
      BY <3>1, <3>2, <3>3
  <2>3. ASSUME NEW t \in Tx, CommitClaim(t)
        PROVE  player'[p] = player[p] \/ (player[p].user = None /\ player'[p].user # None)
    <3>1. /\ tx[t].user \in Users /\ tx[t].token \in Guests /\ tx[t].token \in PlayerId
          /\ player[tx[t].token].token = tx[t].token
      BY <2>3 DEF CommitClaim, AccountsInv, Knows, PlayerId
    <3>2. player[tx[t].token].user = None /\ player[tx[t].token] \in Rows
      BY <1>1, <3>1, RowFields DEF RowsFit
    <3>3. Claimed(tx[t].user, tx[t].token).user = tx[t].user
      BY <3>2 DEF Claimed, Rows, NoPlayer
    <3>4. player' = [player EXCEPT ![tx[t].token] = Claimed(tx[t].user, tx[t].token)]
      BY <2>3 DEF CommitClaim
    <3> QED
      BY <1>1, <3>1, <3>2, <3>3, <3>4 DEF RowsFit
  <2>4. CASE CommitDelete
    BY <1>2, <2>4, CommitDeleteSpares DEF StaleGuest
  <2>5. ASSUME NEW g \in Guests, CreateGuest(g) PROVE player'[p] = player[p]
    BY <1>1, <2>5 DEF CreateGuest, RowsFit
  <2>6. CASE player' = player
    BY <1>2, <2>6
  <2>7. \/ \E t \in Tx : CommitCreate(t) \/ CommitBatch(t) \/ CommitClaim(t)
        \/ CommitDelete \/ \E g \in Guests : CreateGuest(g)
        \/ player' = player
    BY DEF Next, Step, CleanerStep, Finished, Act, Claim, Abort, AbortVictim, InsertPlayer, LockWorld,
           RejectBatch, AcceptBatch, TouchPlayer, LockGuest, AttachGuest, StartDelete, DeleteRow,
           StartCascade, CascadeWorld, vars
  <2> QED
    BY <1>2, <2>1, <2>2, <2>3, <2>4, <2>5, <2>6, <2>7
<1>4. (player'[p].user # None \/ player'[p].token # None) <=> player'[p] # NoPlayer
  BY <1>1 DEF AccountsInv, RowsFit, RowFor, NoPlayer
<1>5. world'[p] <=> player'[p] # NoPlayer
  BY <1>1 DEF AccountsInv, RowsFit, Exists
<1> QED
  BY <1>3, <1>4, <1>5

\* identity.ts, claim.ts, cleanup.ts: what a transaction has read of players and worlds, and the lock
\* or unique key that keeps it so until its commit, holds through every step of the others.
THEOREM AccountsInvariant == Spec => []AccountsInv
BY InitKnows, NextKnows, PTL DEF Spec

\* identity.ts, claim.ts: however many requests create, claim and act at once, an account ends with one
\* world, a guest is redeemed once, and no claim's answer turns false.
THEOREM OwnersAlwaysRight == Spec => []OwnersRight
BY AccountsInvariant, InvOwners, PTL

\* worlds.ts: a batch lands in its sender's world, even one claimed on the way.
THEOREM BatchAlwaysReachesOwner == Spec => []BatchReachesOwner
<1>1. AccountsInv => BatchReachesOwner
  BY DEF AccountsInv, Knows, Reaches, BatchReachesOwner
<1> QED
  BY <1>1, AccountsInvariant, PTL

\* cleanup.ts: the clean-up takes neither an account nor a guest that has come back, whatever
\* commits between its choice of victims and its own commit.
THEOREM CleanupSpares == Spec => OnlyStaleGuestsDeleted
<1>1. AccountsInv /\ [Next]_vars =>
         [\A p \in PlayerId : Exists(p) /\ player[p].user # None =>
             player'[p].user = player[p].user /\ world'[p]]_vars
  BY StepSpares
<1>2. AccountsInv /\ [Next]_vars =>
         [\A p \in PlayerId : Exists(p) /\ ~player[p].stale => player'[p] # NoPlayer]_vars
  BY StepSpares
<1> QED
  BY <1>1, <1>2, AccountsInvariant, PTL DEF Spec, OnlyStaleGuestsDeleted, AccountsKept, FreshGuestsKept
=============================================================================
