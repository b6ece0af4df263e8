----------------------------- MODULE SyncProofs -----------------------------
(***************************************************************************)
(* The sync layer for any number of batches, flushes, reads and failures:  *)
(* the outbox implements Intents, an applied batch is on the page once,    *)
(* and the page never goes back.                                           *)
(***************************************************************************)
EXTENDS Sync, TLAPS

Outboxes == [queue : Seq(Key), head : Key \cup {None}, timer : BOOLEAN,
             phase : {"idle", "sent", "adopting", "adopted"}]
Flights == [phase : {"no", "sent", "served"}, body : Bodies, deferred : BOOLEAN]

\* A request or an adoption under way is the head's, and waits for no timer.
Busy(o) == (o.head = None \/ o.timer) => o.phase = "idle"

\* How many of the submitted keys have left the queue, and how many of those are settled.
Started(o, s) == Len(s) - Len(o.queue)
Settled(o, s) == IF o.head = None THEN Started(o, s) ELSE Started(o, s) - 1

\* The settled keys, the head and the queue are the submitted keys in their order.
Ordered(o, s, t) ==
    /\ Len(o.queue) <= Len(s)
    /\ \A i \in 1 .. Len(o.queue) : o.queue[i] = s[Started(o, s) + i]
    /\ o.head # None => Started(o, s) > 0 /\ o.head = s[Started(o, s)]
    /\ \A i \in 1 .. Len(s) : t[s[i]] # "none" <=> i <= Settled(o, s)
    /\ \A i, j \in 1 .. Len(s) : s[i] = s[j] => i = j
    /\ \A k \in Key : t[k] # "none" => k \in Range(s)

Flushed(k, d) == k \in Flushes /\ d[k] # "no"

\* What was sent has gone around the queue or has left it.
SentInTurn(o, s, d, network) ==
    \A k \in network : Flushed(k, d) \/ \E i \in 1 .. Started(o, s) : s[i] = k

\* A flush under way is not queued; a failed one is, once.
Around(s, d) == \A k \in Flushes : d[k] \in {"sent", "adopting"} => k \notin Range(s)

OrderInv ==
    /\ Ordered(ob, submitted, told)
    /\ SentInTurn(ob, submitted, direct, sent)
    /\ Around(submitted, direct)

Shown(k) == Counted(k) \/ k \in missed

\* What a sender was told is true, and an applied batch is shown.
ToldTrue ==
    \A k \in Key :
        /\ answer[k].ok => answer[k].known
        /\ told[k] = "adopt" => answer[k].ok /\ Shown(k)
        /\ told[k] = "rejected" => answer[k].known /\ ~answer[k].ok

\* The head whose answer is being adopted is applied; a settling one is shown already.
HeadTrue ==
    /\ ob.phase \in {"adopting", "adopted"} => answer[ob.head].ok
    /\ ob.phase = "adopted" => Shown(ob.head)
    /\ settling # None => settling = ob.head /\ ob.phase = "adopted" /\ Counted(settling)

\* A batch whose response is the snapshot is settling, or has left the outbox for good.
FromOnce ==
    \A k \in Key : snapshot.from = k =>
        k \in Used /\ (k \in Flushes => direct[k] # "sent") /\ (k \in Queued => k = settling)

\* A GET's body is nobody's response.
ReadsPlain == get.body.from = None /\ \A b \in reads : b.from = None

SyncInv == TypeOK /\ OrderInv /\ ToldTrue /\ HeadTrue /\ FromOnce /\ ReadsPlain

USE SyncAssumption

----------------------------------------------------------------------------
\* Sequences.

LEMMA AppendIs ==
    ASSUME NEW s \in Seq(Key), NEW k \in Key
    PROVE  /\ Append(s, k) \in Seq(Key) /\ Len(Append(s, k)) = Len(s) + 1
           /\ \A i \in 1 .. Len(s) : Append(s, k)[i] = s[i]
           /\ Append(s, k)[Len(s) + 1] = k
           /\ Range(Append(s, k)) = Range(s) \cup {k}
<1>1. /\ Append(s, k) \in Seq(Key) /\ Len(Append(s, k)) = Len(s) + 1
      /\ \A i \in 1 .. Len(s) : Append(s, k)[i] = s[i]
      /\ Append(s, k)[Len(s) + 1] = k
      /\ DOMAIN Append(s, k) = 1 .. (Len(s) + 1) /\ DOMAIN s = 1 .. Len(s)
  OBVIOUS
<1>2. Range(Append(s, k)) = Range(s) \cup {k}
  BY <1>1 DEF Range
<1> QED
  BY <1>1, <1>2

LEMMA TailIs ==
    ASSUME NEW s \in Seq(Key), s # <<>>
    PROVE  /\ Tail(s) \in Seq(Key) /\ Head(s) \in Key /\ Head(s) = s[1] /\ Len(s) > 0
           /\ Len(Tail(s)) = Len(s) - 1
           /\ \A i \in 1 .. Len(Tail(s)) : Tail(s)[i] = s[i + 1]
           /\ Range(s) = Range(Tail(s)) \cup {Head(s)}
<1>1. /\ Tail(s) \in Seq(Key) /\ Head(s) \in Key /\ Head(s) = s[1] /\ Len(s) > 0
      /\ Len(Tail(s)) = Len(s) - 1
      /\ \A i \in 1 .. Len(Tail(s)) : Tail(s)[i] = s[i + 1]
      /\ DOMAIN s = 1 .. Len(s) /\ DOMAIN Tail(s) = 1 .. Len(Tail(s))
  OBVIOUS
<1>2. Range(s) \subseteq Range(Tail(s)) \cup {Head(s)}
  <2> SUFFICES ASSUME NEW x \in Range(s) PROVE x \in Range(Tail(s)) \cup {Head(s)}
    OBVIOUS
  <2>1. PICK i \in 1 .. Len(s) : s[i] = x
    BY <1>1 DEF Range
  <2>2. CASE i = 1
    BY <1>1, <2>1, <2>2
  <2>3. CASE i # 1
    <3>1. i - 1 \in 1 .. Len(Tail(s)) /\ Tail(s)[i - 1] = x
      BY <1>1, <2>1, <2>3
    <3> QED
      BY <1>1, <3>1 DEF Range
  <2> QED
    BY <2>2, <2>3
<1>3. Range(Tail(s)) \cup {Head(s)} \subseteq Range(s)
  BY <1>1 DEF Range
<1> QED
  BY <1>1, <1>2, <1>3

LEMMA RangeIs ==
    ASSUME NEW s \in Seq(Key)
    PROVE  /\ Range(s) \subseteq Key
           /\ \A k : k \in Range(s) <=> \E i \in 1 .. Len(s) : s[i] = k
<1>1. DOMAIN s = 1 .. Len(s) /\ \A i \in 1 .. Len(s) : s[i] \in Key
  OBVIOUS
<1> QED
  BY <1>1 DEF Range

----------------------------------------------------------------------------
\* The outbox: what pump(), an append and a settlement do to the order.

Outcomes == {"none", "adopt", "rejected", "client-bug"}
QueuedIn(o) == Range(o.queue) \cup ({o.head} \ {None})

\* Only the timer or the phase of a request changes.
LEMMA SameOrder ==
    ASSUME NEW o, NEW p, NEW s, NEW t, Ordered(o, s, t), p.queue = o.queue, p.head = o.head
    PROVE  Ordered(p, s, t) /\ QueuedIn(p) = QueuedIn(o) /\ Started(p, s) = Started(o, s)
BY DEF Ordered, Started, Settled, QueuedIn

LEMMA Positions ==
    ASSUME NEW o \in Outboxes, NEW s \in Seq(Key), NEW t, Ordered(o, s, t)
    PROVE  /\ o.queue \in Seq(Key) /\ Len(o.queue) \in Nat /\ Len(s) \in Nat
           /\ Started(o, s) \in 0 .. Len(s) /\ Len(s) = Started(o, s) + Len(o.queue)
           /\ o.head # None => o.head \in Key /\ Started(o, s) > 0 /\ o.head = s[Started(o, s)]
<1>1. o.queue \in Seq(Key) /\ o.head \in Key \cup {None} /\ Len(o.queue) <= Len(s)
  BY DEF Outboxes, Ordered
<1>2. Len(o.queue) \in Nat /\ Len(s) \in Nat
  BY <1>1
<1>3. Started(o, s) \in 0 .. Len(s) /\ Len(s) = Started(o, s) + Len(o.queue)
  BY <1>1, <1>2 DEF Started
<1> QED
  BY <1>1, <1>2, <1>3 DEF Ordered

LEMMA PulledIs ==
    ASSUME NEW o \in Outboxes, NEW s \in Seq(Key), NEW t \in [Key -> Outcomes], Ordered(o, s, t),
           o.head = None, o.queue # <<>>,
           NEW p \in Outboxes, p.head = Head(o.queue), p.queue = Tail(o.queue)
    PROVE  /\ Ordered(p, s, t) /\ QueuedIn(p) = QueuedIn(o)
           /\ p.head # None /\ Started(p, s) = Started(o, s) + 1
<1>1. o.queue \in Seq(Key) /\ Len(s) \in Nat
  BY DEF Outboxes
<1>2. /\ p.queue \in Seq(Key) /\ p.head \in Key /\ p.head = o.queue[1] /\ Len(o.queue) > 0
      /\ Len(p.queue) = Len(o.queue) - 1 /\ Len(o.queue) \in Nat
      /\ \A i \in 1 .. Len(p.queue) : p.queue[i] = o.queue[i + 1]
      /\ Range(o.queue) = Range(p.queue) \cup {p.head}
  BY <1>1, TailIs
<1>3. Started(p, s) = Started(o, s) + 1 /\ Started(o, s) \in Nat /\ p.head # None
  <2>1. Started(p, s) = Started(o, s) + 1
    <3> DEFINE n == Len(o.queue)
               m == Len(s)
    <3>1. n \in Nat /\ m \in Nat /\ Len(p.queue) = n - 1
      BY <1>1, <1>2
    <3>2. Started(p, s) = m - (n - 1) /\ Started(o, s) = m - n
      BY <3>1 DEF Started
    <3> HIDE DEF n, m
    <3> QED
      BY <3>1, <3>2
  <2>2. Started(o, s) \in Nat
    BY Positions
  <2>3. p.head # None
    BY <1>2
  <2> QED
    BY <2>1, <2>2, <2>3
<1>4. QueuedIn(p) = QueuedIn(o)
  BY <1>2 DEF QueuedIn
<1>5. \A i \in 1 .. Len(p.queue) : p.queue[i] = s[Started(p, s) + i]
  <2> SUFFICES ASSUME NEW i \in 1 .. Len(p.queue) PROVE p.queue[i] = s[Started(p, s) + i]
    OBVIOUS
  <2>1. i + 1 \in 1 .. Len(o.queue) /\ p.queue[i] = o.queue[i + 1]
    BY <1>2
  <2>2. o.queue[i + 1] = s[Started(o, s) + (i + 1)]
    BY <2>1 DEF Ordered
  <2>3. Started(o, s) + (i + 1) = Started(p, s) + i
    BY <1>3
  <2> QED
    BY <2>1, <2>2, <2>3
<1>6. p.head = s[Started(p, s)]
  <2>1. 1 \in 1 .. Len(o.queue)
    BY <1>2
  <2> QED
    BY <1>2, <1>3, <2>1 DEF Ordered
<1>7. Settled(p, s) = Settled(o, s)
  BY <1>3 DEF Settled
<1> QED
  BY <1>1, <1>2, <1>3, <1>4, <1>5, <1>6, <1>7 DEF Ordered

LEMMA PumpIs ==
    ASSUME NEW o \in Outboxes, Busy(o), NEW s \in Seq(Key), NEW t \in [Key -> Outcomes], Ordered(o, s, t),
           NEW hold \in BOOLEAN, NEW off \in BOOLEAN, NEW p, p = Pump(o, hold, off)
    PROVE  /\ p \in Outboxes /\ Busy(p) /\ Ordered(p, s, t) /\ QueuedIn(p) = QueuedIn(o)
           /\ Started(p, s) \in Nat /\ Started(p, s) >= Started(o, s)
           /\ o.phase # "idle" \/ off => p = o
           /\ p.phase \in {"idle", "sent", o.phase}
<1>0. Len(s) \in Nat /\ Len(o.queue) \in Nat /\ Started(o, s) \in Nat
  BY DEF Outboxes, Ordered, Started
<1>1. CASE off \/ o.phase # "idle" \/ o.timer \/ (o.head = None /\ o.queue = <<>>)
  BY <1>0, <1>1 DEF Pump
<1>2. CASE ~(off \/ o.phase # "idle" \/ o.timer \/ (o.head = None /\ o.queue = <<>>))
  <2> DEFINE q == IF o.head = None
                  THEN [o EXCEPT !.head = Head(o.queue), !.queue = Tail(o.queue)] ELSE o
             waits == [q EXCEPT !.timer = TRUE]
             goes == [q EXCEPT !.phase = "sent"]
  <2>1. p = IF hold THEN waits ELSE goes
    BY <1>2 DEF Pump
  <2>2. q \in Outboxes /\ q.phase = "idle" /\ q.timer = FALSE /\ q.head # None
    <3>1. CASE o.head = None
      <4>1. o.queue # <<>> /\ o.queue \in Seq(Key)
        BY <1>2, <3>1 DEF Outboxes
      <4>2. Tail(o.queue) \in Seq(Key) /\ Head(o.queue) \in Key
        BY <4>1, TailIs
      <4> QED
        BY <1>2, <3>1, <4>2 DEF Outboxes
    <3>2. CASE o.head # None
      BY <1>2, <3>2 DEF Outboxes
    <3> QED
      BY <3>1, <3>2
  <2>3. Ordered(q, s, t) /\ QueuedIn(q) = QueuedIn(o) /\ Started(q, s) \in Nat /\ Started(q, s) >= Started(o, s)
    <3>1. CASE o.head = None
      <4>1. q.head = Head(o.queue) /\ q.queue = Tail(o.queue) /\ o.queue # <<>>
        BY <1>2, <3>1 DEF Outboxes
      <4> HIDE DEF q
      <4> QED
        BY <1>0, <2>2, <3>1, <4>1, PulledIs
    <3>2. CASE o.head # None
      BY <1>0, <3>2
    <3> QED
      BY <3>1, <3>2
  <2> HIDE DEF q
  <2>4. /\ waits \in Outboxes /\ Busy(waits) /\ waits.queue = q.queue /\ waits.head = q.head
        /\ waits.phase = "idle"
    BY <2>2 DEF Outboxes, Busy
  <2>5. /\ goes \in Outboxes /\ Busy(goes) /\ goes.queue = q.queue /\ goes.head = q.head
        /\ goes.phase = "sent"
    BY <2>2 DEF Outboxes, Busy
  <2> HIDE DEF waits, goes
  <2>6. CASE hold
    BY <1>2, <2>1, <2>3, <2>4, <2>6, SameOrder
  <2>7. CASE ~hold
    BY <1>2, <2>1, <2>3, <2>5, <2>7, SameOrder
  <2> QED
    BY <2>6, <2>7
<1> QED
  BY <1>1, <1>2

\* A key is appended that was not there.
LEMMA EnqueueIs ==
    ASSUME NEW o \in Outboxes, Busy(o), NEW s \in Seq(Key), NEW t \in [Key -> Outcomes], Ordered(o, s, t),
           NEW k \in Key, k \notin Range(s)
    PROVE  LET p == [o EXCEPT !.queue = Append(@, k)] IN
           /\ p \in Outboxes /\ Busy(p) /\ Ordered(p, Append(s, k), t)
           /\ QueuedIn(p) = QueuedIn(o) \cup {k}
           /\ Started(p, Append(s, k)) = Started(o, s)
           /\ p.head = o.head /\ p.phase = o.phase /\ p.timer = o.timer
<1> DEFINE p == [o EXCEPT !.queue = Append(@, k)]
           r == Append(s, k)
<1>1. o.queue \in Seq(Key) /\ Len(s) \in Nat /\ Len(o.queue) \in Nat
  BY DEF Outboxes
<1>2. /\ p.queue \in Seq(Key) /\ Len(p.queue) = Len(o.queue) + 1
      /\ \A i \in 1 .. Len(o.queue) : p.queue[i] = o.queue[i]
      /\ p.queue[Len(o.queue) + 1] = k
      /\ Range(p.queue) = Range(o.queue) \cup {k}
  BY <1>1, AppendIs DEF Outboxes
<1>3. /\ r \in Seq(Key) /\ Len(r) = Len(s) + 1
      /\ \A i \in 1 .. Len(s) : r[i] = s[i]
      /\ r[Len(s) + 1] = k
      /\ Range(r) = Range(s) \cup {k}
  BY AppendIs
<1>4. p \in Outboxes /\ p.head = o.head /\ p.phase = o.phase /\ p.timer = o.timer
  BY <1>1, <1>2 DEF Outboxes
<1> HIDE DEF p, r
<1>5. Started(p, r) = Started(o, s) /\ Started(o, s) \in Nat /\ Settled(p, r) = Settled(o, s)
  <2>1. Started(p, r) = Started(o, s) /\ Started(o, s) \in Nat
    BY <1>1, <1>2, <1>3, Positions DEF Started
  <2> QED
    BY <1>4, <2>1 DEF Settled
<1>6. \A i \in 1 .. Len(p.queue) : p.queue[i] = r[Started(p, r) + i]
  <2> SUFFICES ASSUME NEW i \in 1 .. Len(p.queue) PROVE p.queue[i] = r[Started(p, r) + i]
    OBVIOUS
  <2>1. CASE i = Len(o.queue) + 1
    <3>1. Started(p, r) + i = Len(s) + 1
      <4>1. Len(s) = Started(o, s) + Len(o.queue)
        BY Positions
      <4> QED
        BY <1>1, <1>5, <2>1, <4>1
    <3> QED
      BY <1>2, <1>3, <2>1, <3>1
  <2>2. CASE i # Len(o.queue) + 1
    <3>1. i \in 1 .. Len(o.queue) /\ Started(o, s) + i \in 1 .. Len(s)
      BY <1>1, <1>2, <1>5, <2>2 DEF Started
    <3>2. o.queue[i] = s[Started(o, s) + i]
      BY <3>1 DEF Ordered
    <3> QED
      BY <1>2, <1>3, <1>5, <3>1, <3>2
  <2> QED
    BY <2>1, <2>2
<1>7. p.head # None => Started(p, r) > 0 /\ p.head = r[Started(p, r)]
  BY <1>3, <1>4, <1>5, Positions
<1>8. t[k] = "none"
  BY DEF Ordered
<1>9. \A i \in 1 .. Len(r) : t[r[i]] # "none" <=> i <= Settled(p, r)
  <2> SUFFICES ASSUME NEW i \in 1 .. Len(r) PROVE t[r[i]] # "none" <=> i <= Settled(p, r)
    OBVIOUS
  <2>1. CASE i = Len(s) + 1
    <3>1. Settled(o, s) < i
      BY <1>1, <1>5, <2>1 DEF Started, Settled
    <3> QED
      BY <1>3, <1>5, <1>8, <2>1, <3>1 DEF Settled
  <2>2. CASE i # Len(s) + 1
    <3>1. i \in 1 .. Len(s) /\ r[i] = s[i]
      BY <1>1, <1>3, <2>2
    <3> QED
      BY <1>5, <3>1 DEF Ordered
  <2> QED
    BY <2>1, <2>2
<1>10. \A i, j \in 1 .. Len(r) : r[i] = r[j] => i = j
  <2>1. \A i \in 1 .. Len(s) : s[i] # k
    BY RangeIs
  <2>2. \A i \in 1 .. Len(r) : i \in 1 .. Len(s) \/ i = Len(s) + 1
    BY <1>1, <1>3
  <2> QED
    BY <1>3, <2>1, <2>2 DEF Ordered
<1>11. Ordered(p, r, t)
  <2>1. Len(p.queue) <= Len(r)
    BY <1>1, <1>2, <1>3 DEF Ordered
  <2>2. \A j \in Key : t[j] # "none" => j \in Range(r)
    BY <1>3 DEF Ordered
  <2> QED
    BY <1>6, <1>7, <1>9, <1>10, <2>1, <2>2 DEF Ordered
<1>12. QueuedIn(p) = QueuedIn(o) \cup {k}
  BY <1>2, <1>4 DEF QueuedIn
<1>13. Busy(p)
  BY <1>4 DEF Busy
<1> QED
  BY <1>4, <1>5, <1>11, <1>12, <1>13 DEF p, r

\* The head is settled.
LEMMA SettleIs ==
    ASSUME NEW o \in Outboxes, NEW s \in Seq(Key), NEW t \in [Key -> Outcomes], Ordered(o, s, t),
           o.head # None, NEW outcome \in Outcomes \ {"none"},
           o.phase # "idle", Busy(o)
    PROVE  LET p == [o EXCEPT !.head = None, !.phase = "idle"] IN
           /\ p \in Outboxes /\ Busy(p) /\ Ordered(p, s, [t EXCEPT ![o.head] = outcome])
           /\ [t EXCEPT ![o.head] = outcome] \in [Key -> Outcomes]
           /\ QueuedIn(p) = Range(o.queue) /\ o.head \notin QueuedIn(p)
           /\ Started(p, s) = Started(o, s) /\ p.head = None /\ p.phase = "idle" /\ p.timer = FALSE
<1> DEFINE p == [o EXCEPT !.head = None, !.phase = "idle"]
           u == [t EXCEPT ![o.head] = outcome]
<1>1. o.queue \in Seq(Key) /\ Len(s) \in Nat /\ Len(o.queue) \in Nat /\ o.head \in Key
  BY DEF Outboxes
<1>2. p \in Outboxes /\ p.queue = o.queue /\ p.head = None /\ p.phase = "idle" /\ p.timer = FALSE
  BY DEF Outboxes, Busy
<1>3. u \in [Key -> Outcomes] /\ u[o.head] = outcome /\ \A k \in Key \ {o.head} : u[k] = t[k]
  BY <1>1
<1> HIDE DEF p, u
<1>4. /\ Started(p, s) = Started(o, s) /\ Started(o, s) \in 1 .. Len(s)
      /\ Settled(p, s) = Started(o, s) /\ Settled(o, s) = Started(o, s) - 1
      /\ s[Started(o, s)] = o.head
  BY <1>1, <1>2 DEF Started, Settled, Ordered
<1>5. \A i \in 1 .. Len(s) : u[s[i]] # "none" <=> i <= Settled(p, s)
  <2> SUFFICES ASSUME NEW i \in 1 .. Len(s) PROVE u[s[i]] # "none" <=> i <= Settled(p, s)
    OBVIOUS
  <2>1. CASE i = Started(o, s)
    BY <1>3, <1>4, <2>1
  <2>2. CASE i # Started(o, s)
    <3>1. s[i] \in Key \ {o.head}
      BY <1>4, <2>2 DEF Ordered
    <3>2. u[s[i]] # "none" <=> i <= Settled(o, s)
      BY <1>3, <3>1 DEF Ordered
    <3> QED
      BY <1>4, <2>2, <3>2
  <2> QED
    BY <2>1, <2>2
<1>6. o.head \in Range(s)
  BY <1>4, RangeIs
<1>7. Ordered(p, s, u)
  <2>1. \A k \in Key : u[k] # "none" => k \in Range(s)
    BY <1>3, <1>6 DEF Ordered
  <2>2. \A i \in 1 .. Len(p.queue) : p.queue[i] = s[Started(p, s) + i]
    BY <1>2, <1>4 DEF Ordered
  <2> QED
    BY <1>2, <1>5, <2>1, <2>2 DEF Ordered
<1>8. QueuedIn(p) = Range(o.queue) /\ o.head \notin QueuedIn(p)
  <2>1. QueuedIn(p) = Range(o.queue)
    BY <1>2 DEF QueuedIn
  <2>2. ASSUME o.head \in Range(o.queue) PROVE FALSE
    <3>1. PICK i \in 1 .. Len(o.queue) : o.queue[i] = o.head
      BY <1>1, <2>2, RangeIs
    <3>2. Started(o, s) + i \in 1 .. Len(s) /\ s[Started(o, s) + i] = o.head
      <4>1. Len(s) = Started(o, s) + Len(o.queue)
        BY Positions
      <4>2. Started(o, s) + i \in 1 .. Len(s)
        BY <1>1, <1>4, <3>1, <4>1
      <4> QED
        BY <3>1, <4>2 DEF Ordered
    <3>3. Started(o, s) + i = Started(o, s)
      BY <1>4, <3>2 DEF Ordered
    <3> QED
      BY <1>1, <1>4, <3>1, <3>3
  <2> QED
    BY <2>1, <2>2
<1> QED
  BY <1>2, <1>3, <1>4, <1>7, <1>8 DEF p, u, Busy

\* Every change of the outbox ends in pump().
LEMMA OutboxKeeps ==
    ASSUME NEW o \in Outboxes, Busy(o), submitted' \in Seq(Key), NEW t \in [Key -> Outcomes],
           Ordered(o, submitted', t), NEW d, SentInTurn(o, submitted', d, sent), sent \subseteq Key,
           NEW hold \in BOOLEAN, NEW off \in BOOLEAN, Outbox(o, hold, off), off => ~o.timer
    PROVE  /\ ob' \in Outboxes /\ Busy(ob') /\ sent' \subseteq Key /\ (off => ~ob'.timer)
           /\ Ordered(ob', submitted', t) /\ SentInTurn(ob', submitted', d, sent')
           /\ Queued' = QueuedIn(o)
           /\ o.phase # "idle" \/ off => ob' = o
           /\ ob'.phase \in {"idle", "sent", o.phase}
<1> DEFINE s == submitted'
           p == ob'
<1>1. p = Pump(o, hold, off) /\ sent' = IF p.phase = "sent" THEN sent \cup {p.head} ELSE sent
  BY DEF Outbox
<1>2. /\ p \in Outboxes /\ Busy(p) /\ Ordered(p, s, t) /\ QueuedIn(p) = QueuedIn(o)
      /\ Started(p, s) \in Nat /\ Started(p, s) >= Started(o, s)
      /\ o.phase # "idle" \/ off => p = o
      /\ p.phase \in {"idle", "sent", o.phase}
  <2> HIDE DEF s, p
  <2> QED
    BY <1>1, PumpIs DEF s
<1>3. Queued' = QueuedIn(p)
  BY DEF Queued, QueuedIn
<1> HIDE DEF s, p
<1>4. Started(o, s) \in Nat /\ s \in Seq(Key)
  BY Positions DEF s
<1>5. p.phase = "sent" => p.head \in Key /\ Started(p, s) \in 1 .. Started(p, s) /\ s[Started(p, s)] = p.head
  <2> SUFFICES ASSUME p.phase = "sent"
               PROVE p.head \in Key /\ Started(p, s) \in 1 .. Started(p, s) /\ s[Started(p, s)] = p.head
    OBVIOUS
  <2>1. p.head # None
    BY <1>2 DEF Busy
  <2> QED
    BY <1>2, <1>4, <2>1, Positions
<1>6. SentInTurn(p, s, d, sent')
  <2> SUFFICES ASSUME NEW k \in sent', ~Flushed(k, d) PROVE \E i \in 1 .. Started(p, s) : s[i] = k
    BY DEF SentInTurn
  <2>1. CASE k \in sent
    <3>1. PICK i \in 1 .. Started(o, s) : s[i] = k
      BY <2>1 DEF SentInTurn, s
    <3>2. i \in 1 .. Started(p, s)
      BY <1>2, <1>4, <3>1
    <3> QED
      BY <3>1, <3>2
  <2>2. CASE k \notin sent
    BY <1>1, <1>5, <2>2
  <2> QED
    BY <2>1, <2>2
<1>7. sent' \subseteq Key
  BY <1>1, <1>5
<1>8. Busy(ob') /\ ob' \in Outboxes /\ (off => ~ob'.timer)
  BY <1>2 DEF p
<1> QED
  BY <1>2, <1>3, <1>6, <1>7, <1>8 DEF p, s

LEMMA WantGetIs ==
    ASSUME NEW g \in Flights, NEW hold \in BOOLEAN, NEW off \in BOOLEAN, off => ~g.deferred
    PROVE  /\ WantGet(g, hold, off) \in Flights
           /\ off => ~WantGet(g, hold, off).deferred
           /\ WantGet(g, hold, off).body = g.body
BY DEF WantGet, Flights

----------------------------------------------------------------------------
\* The parts of the type invariant, by who changes them.

ServerOK ==
    /\ version \in Nat \ {0} /\ others \in Nat /\ clock \in Nat
    /\ answer \in [Key -> [ok : BOOLEAN, version : Nat, at : Nat, known : BOOLEAN]]

OutboxOK ==
    /\ ob \in Outboxes /\ Busy(ob) /\ (stopped => ~ob.timer)
    /\ sent \subseteq Key /\ submitted \in Seq(Key)
    /\ told \in [Key -> Outcomes]
    /\ direct \in [Flushes -> {"no", "sent", "adopting", "done"}]

GetOK == get \in Flights /\ (stopped => ~get.deferred) /\ reads \subseteq Bodies

ViewOK ==
    /\ snapshot \in Bodies /\ settling \in Key \cup {None} /\ missed \subseteq Key
    /\ paused \in BOOLEAN /\ stopped \in BOOLEAN

LEMMA TypeParts == TypeOK <=> ServerOK /\ OutboxOK /\ GetOK /\ ViewOK
BY DEF TypeOK, ServerOK, OutboxOK, GetOK, ViewOK, Outboxes, Outcomes, Flights, Busy

\* What the outbox's order and types are about.
outboxes == <<ob, sent, submitted, told, direct>>

LEMMA InitTypes == Init => TypeOK /\ OrderInv
<1> SUFFICES ASSUME Init PROVE TypeOK /\ OrderInv
  OBVIOUS
<1>1. TypeOK
  <2>1. ServerOK
    BY DEF Init, ServerOK, NoAnswer
  <2>2. OutboxOK
    BY DEF Init, OutboxOK, Outboxes, Busy, Outcomes
  <2>3. NoSnapshot \in Bodies
    BY DEF NoSnapshot, Body, Bodies
  <2>4. GetOK
    BY <2>3 DEF Init, GetOK, Flights
  <2>5. ViewOK
    BY <2>3 DEF Init, ViewOK
  <2> QED
    BY <2>1, <2>2, <2>4, <2>5, TypeParts
<1>2. OrderInv
  <2>1. /\ submitted = <<>> /\ ob.queue = <<>> /\ ob.head = None /\ sent = {}
        /\ \A k \in Key : told[k] = "none"
        /\ \A k \in Flushes : direct[k] = "no"
    BY DEF Init
  <2>2. Len(submitted) = 0 /\ Len(ob.queue) = 0
    BY <2>1
  <2> QED
    BY <2>1, <2>2 DEF OrderInv, Ordered, Started, Settled, SentInTurn, Around
<1> QED
  BY <1>1, <1>2

\* The server, the GETs and the adoption of what they read leave the outbox alone.
ServerSteps ==
    \/ \E k \in Key, ok \in BOOLEAN : Process(k, ok)
    \/ OtherDevice \/ Tick
GetSteps ==
    \/ ServeGet \/ GetAccepted \/ GetFailed \/ GetClientBug \/ DeferredTimer \/ Trigger \/ PauseEnds
    \/ \E b \in reads : AdoptRead(b) \/ AdoptReadFails(b)

LEMMA ServerTypes ==
    ASSUME TypeOK, ServerSteps
    PROVE  ServerOK'
<1>1. ASSUME NEW k \in Key, NEW ok \in BOOLEAN, Process(k, ok)
      PROVE  ServerOK'
  <2>1. version' \in Nat \ {0}
    BY <1>1, TypeParts DEF Process, ServerOK
  <2>2. PICK at \in Stamps : answer' = [answer EXCEPT ![k] = Answer(ok, version', at)]
    BY <1>1 DEF Process
  <2>3. at \in Nat
    BY <2>2, TypeParts DEF Stamps, ServerOK
  <2>4. Answer(ok, version', at) \in [ok : BOOLEAN, version : Nat, at : Nat, known : BOOLEAN]
    BY <2>1, <2>3 DEF Answer
  <2> QED
    BY <1>1, <2>1, <2>2, <2>4, TypeParts DEF Process, ServerOK
<1>2. ASSUME OtherDevice \/ Tick PROVE ServerOK'
  BY <1>2, TypeParts DEF OtherDevice, Tick, ServerOK
<1> QED
  BY <1>1, <1>2 DEF ServerSteps

\* An adoption: the snapshot and the GET timer.
LEMMA AdoptedIs ==
    ASSUME TypeOK, NEW b \in Bodies, Adopted(b), ~stopped, UNCHANGED <<reads, stopped>>
    PROVE  GetOK' /\ snapshot' \in Bodies /\ get'.body = get.body
BY TypeParts DEF Adopted, GetOK, ViewOK, Flights

LEMMA NothingGone ==
    ASSUME TypeOK, UNCHANGED stopped, reads' \subseteq Bodies,
           get' = [get EXCEPT !.deferred = @ \/ ~stopped]
    PROVE  GetOK' /\ get'.body = get.body
BY TypeParts DEF GetOK, ViewOK, Flights

LEMMA GetTypes ==
    ASSUME TypeOK, ReadsPlain, GetSteps
    PROVE  GetOK' /\ ViewOK' /\ ReadsPlain'
<1> USE TypeParts DEF ViewOK
<1>1. CASE ServeGet
  <2>1. PICK at \in Stamps : get' = [get EXCEPT !.phase = "served", !.body = Body(version, at, None)]
    BY <1>1 DEF ServeGet
  <2>2. Body(version, at, None) \in Bodies /\ Body(version, at, None).from = None
    BY <2>1 DEF Stamps, ServerOK, Body, Bodies
  <2>3. GetOK' /\ ReadsPlain'
    BY <1>1, <2>1, <2>2 DEF ServeGet, GetOK, Flights, ReadsPlain
  <2> QED
    BY <1>1, <2>3 DEF ServeGet, view
<1>2. NoSnapshot \in Bodies /\ NoSnapshot.from = None
  BY DEF NoSnapshot, Body, Bodies
<1>3. GetIdle \in Flights /\ GetIdle.body = NoSnapshot /\ GetIdle.deferred = get.deferred
  BY <1>2 DEF GetIdle, GetOK, Flights
<1>4. CASE GetAccepted
  <2>1. reads' \subseteq Bodies /\ \A b \in reads' : b.from = None
    BY <1>4 DEF GetAccepted, GetOK, Flights, ReadsPlain
  <2> QED
    BY <1>2, <1>3, <1>4, <2>1 DEF GetAccepted, GetOK, ReadsPlain, view
<1>5. CASE GetFailed
  <2>1. get' = [GetIdle EXCEPT !.deferred = GetIdle.deferred \/ ~stopped]
    BY <1>5 DEF GetFailed
  <2>2. get' \in Flights /\ get'.body = NoSnapshot /\ (stopped => ~get'.deferred)
    <3> HIDE DEF GetIdle
    <3> QED
      BY <1>2, <1>3, <2>1 DEF Flights, GetOK
  <2>3. paused' \in BOOLEAN
    BY <1>5 DEF GetFailed
  <2> QED
    BY <1>2, <1>5, <2>2, <2>3 DEF GetFailed, GetOK, ReadsPlain, view
<1>6. CASE GetClientBug
  BY <1>2, <1>3, <1>6 DEF GetClientBug, GetOK, ReadsPlain, view
<1>7. CASE DeferredTimer
  <2> DEFINE g == [get EXCEPT !.deferred = FALSE]
  <2>1. g \in Flights /\ ~g.deferred /\ g.body = get.body
    BY DEF GetOK, Flights
  <2>2. get' = WantGet(g, paused, stopped)
    BY <1>7 DEF DeferredTimer
  <2> HIDE DEF g
  <2>3. get' \in Flights /\ (stopped => ~get'.deferred) /\ get'.body = get.body
    BY <2>1, <2>2, WantGetIs
  <2> QED
    BY <1>7, <2>3 DEF DeferredTimer, GetOK, ReadsPlain, view
<1>8. CASE Trigger
  <2>1. get' \in Flights /\ (stopped => ~get'.deferred) /\ get'.body = get.body
    BY <1>8, WantGetIs DEF Trigger, GetOK
  <2> QED
    BY <1>8, <2>1 DEF Trigger, GetOK, ReadsPlain, view
<1>9. CASE PauseEnds
  BY <1>9 DEF PauseEnds, GetOK, ReadsPlain, view
<1>10. ASSUME NEW b \in reads, AdoptRead(b) PROVE GetOK' /\ ViewOK' /\ ReadsPlain'
  <2>1. b \in Bodies /\ reads' \subseteq reads
    BY <1>10 DEF AdoptRead, GetOK
  <2>2. get' \in Flights /\ get'.body = get.body /\ snapshot' \in Bodies
    BY <1>10, <2>1 DEF AdoptRead, Adopted, GetOK, Flights
  <2> QED
    BY <1>10, <2>1, <2>2 DEF AdoptRead, GetOK, ReadsPlain
<1>11. ASSUME NEW b \in reads, AdoptReadFails(b) PROVE GetOK' /\ ViewOK' /\ ReadsPlain'
  <2>1. reads' \subseteq reads /\ reads' \subseteq Bodies
    BY <1>11 DEF AdoptReadFails, GetOK
  <2>2. GetOK' /\ get'.body = get.body
    BY <1>11, <2>1, NothingGone DEF AdoptReadFails
  <2> QED
    BY <1>11, <2>1, <2>2 DEF AdoptReadFails, ReadsPlain, view
<1> QED
  BY <1>1, <1>4, <1>5, <1>6, <1>7, <1>8, <1>9, <1>10, <1>11 DEF GetSteps

\* The outbox's own steps, first those that change a phase or a timer.
PhaseSteps ==
    \/ PostIgnored \/ PostAccepted \/ PostFailed \/ PostPaused \/ AdoptPost \/ AdoptPostFails \/ Stop

LEMMA HeadIsKey ==
    ASSUME TypeOK, ob.phase # "idle"
    PROVE  ob.head \in Key /\ ~ob.timer
BY TypeParts DEF OutboxOK, Outboxes, Busy

LEMMA PostBodyIs ==
    ASSUME TypeOK, NEW k \in Key
    PROVE  /\ PostBody(k) \in Bodies /\ PostBody(k).from = k
           /\ PostBody(k).version = answer[k].version
BY TypeParts DEF PostBody, Body, Bodies, ServerOK

LEMMA PhaseTypes ==
    ASSUME TypeOK, ReadsPlain, OrderInv, PhaseSteps
    PROVE  /\ OutboxOK' /\ GetOK' /\ ViewOK' /\ ReadsPlain' /\ OrderInv'
           /\ ob'.queue = ob.queue /\ ob'.head = ob.head
<1> USE TypeParts DEF ViewOK
<1>1. ob \in Outboxes
  BY DEF OutboxOK
<1>2. /\ ob' \in Outboxes /\ Busy(ob') /\ (stopped' => ~ob'.timer)
      /\ ob'.queue = ob.queue /\ ob'.head = ob.head
  <2>1. CASE PostIgnored
    BY <1>1, <2>1 DEF PostIgnored, Outboxes, Busy, OutboxOK
  <2>2. CASE PostAccepted
    BY <1>1, <2>2 DEF PostAccepted, Outboxes, Busy, OutboxOK
  <2>3. CASE PostFailed
    BY <1>1, <2>3 DEF PostFailed, Outboxes, Busy, OutboxOK
  <2>4. CASE PostPaused
    BY <1>1, <2>4 DEF PostPaused, Outboxes, Busy, OutboxOK
  <2>5. CASE AdoptPost
    BY <1>1, <2>5 DEF AdoptPost, Outboxes, Busy, OutboxOK
  <2>6. CASE AdoptPostFails
    BY <1>1, <2>6 DEF AdoptPostFails, Outboxes, Busy, OutboxOK
  <2>7. CASE Stop
    BY <1>1, <2>7 DEF Stop, Outboxes, Busy, OutboxOK
  <2> QED
    BY <2>1, <2>2, <2>3, <2>4, <2>5, <2>6, <2>7 DEF PhaseSteps
<1>3. UNCHANGED <<sent, submitted, told, direct>>
  BY DEF PhaseSteps, PostIgnored, PostAccepted, PostFailed, PostPaused, AdoptPost, AdoptPostFails, Stop
<1>4. OutboxOK'
  BY <1>2, <1>3 DEF OutboxOK
<1>5. OrderInv'
  <2>1. Ordered(ob', submitted, told) /\ Started(ob', submitted) = Started(ob, submitted)
    BY <1>2, SameOrder DEF OrderInv
  <2>2. SentInTurn(ob', submitted, direct, sent)
    BY <2>1 DEF OrderInv, SentInTurn
  <2> QED
    BY <1>3, <2>1, <2>2 DEF OrderInv
<1>6. GetOK' /\ ViewOK' /\ ReadsPlain'
  <2>1. CASE PostIgnored \/ PostAccepted \/ PostFailed \/ PostPaused
    <3>1. UNCHANGED <<get, reads, snapshot, settling, missed, stopped>> /\ paused' \in BOOLEAN
      BY <2>1 DEF PostIgnored, PostAccepted, PostFailed, PostPaused, view
    <3> QED
      BY <3>1 DEF GetOK, ReadsPlain
  <2>2. CASE AdoptPost
    <3>1. ob.head \in Key /\ ~stopped
      BY <2>2, HeadIsKey DEF AdoptPost
    <3>2. GetOK' /\ snapshot' \in Bodies /\ get'.body = get.body
      BY <2>2, <3>1, PostBodyIs, AdoptedIs DEF AdoptPost
    <3>3. settling' \in Key \cup {None}
      BY <2>2, <3>1 DEF AdoptPost, SettlingOf
    <3> QED
      BY <2>2, <3>2, <3>3 DEF AdoptPost, ReadsPlain
  <2>3. CASE AdoptPostFails
    <3>1. ob.head \in Key
      BY <2>3, HeadIsKey DEF AdoptPostFails
    <3>2. GetOK' /\ get'.body = get.body
      BY <2>3, NothingGone DEF AdoptPostFails, GetOK
    <3> QED
      BY <2>3, <3>1, <3>2 DEF AdoptPostFails, ReadsPlain
  <2>4. CASE Stop
    BY <2>4 DEF Stop, GetOK, Flights, ReadsPlain, view
  <2> QED
    BY <2>1, <2>2, <2>3, <2>4 DEF PhaseSteps
<1> QED
  BY <1>2, <1>4, <1>5, <1>6

\* Steps that change no batch but let pump() run.
PumpSteps == OutboxTimer \/ Online \/ Start

LEMMA PumpTypes ==
    ASSUME TypeOK, ReadsPlain, OrderInv, PumpSteps
    PROVE  /\ OutboxOK' /\ GetOK' /\ ViewOK' /\ ReadsPlain' /\ OrderInv'
           /\ Queued' = Queued
           /\ ob.phase # "idle" => ob'.phase = ob.phase /\ ob'.head = ob.head
           /\ ob'.phase \in {"idle", "sent", ob.phase}
<1> USE TypeParts DEF ViewOK
<1> DEFINE o == IF Start THEN ob ELSE [ob EXCEPT !.timer = FALSE]
           off == IF Start THEN FALSE ELSE stopped
<1>1. ob \in Outboxes /\ paused \in BOOLEAN /\ off \in BOOLEAN
  BY DEF OutboxOK
<1>2. /\ o \in Outboxes /\ Busy(o) /\ o.queue = ob.queue /\ o.head = ob.head /\ o.phase = ob.phase
      /\ off => ~o.timer
  BY <1>1 DEF Outboxes, Busy, OutboxOK
<1>3. /\ Outbox(o, paused, off)
      /\ UNCHANGED <<submitted, told, direct, reads, snapshot, settling, missed, paused>>
  BY DEF PumpSteps, OutboxTimer, Online, Start, view
<1>4. stopped' \in BOOLEAN /\ (stopped' => off)
  <2>1. CASE Start
    BY <2>1 DEF Start
  <2>2. CASE ~Start
    <3>1. stopped' = stopped /\ off = stopped
      BY <2>2 DEF PumpSteps, OutboxTimer, Online
    <3> QED
      BY <1>1, <3>1
  <2> QED
    BY <2>1, <2>2
<1>5. o.phase # "idle" \/ off => ob' = o
  BY <1>1, <1>3 DEF Outbox, Pump
<1> HIDE DEF o, off
<1>6. /\ Ordered(o, submitted, told) /\ SentInTurn(o, submitted, direct, sent)
      /\ QueuedIn(o) = Queued
  <2>1. Ordered(o, submitted, told) /\ Started(o, submitted) = Started(ob, submitted)
    BY <1>2, SameOrder DEF OrderInv
  <2> QED
    BY <1>2, <2>1 DEF OrderInv, SentInTurn, QueuedIn, Queued
<1>7. /\ ob' \in Outboxes /\ Busy(ob') /\ sent' \subseteq Key /\ (off => ~ob'.timer)
      /\ Ordered(ob', submitted', told) /\ SentInTurn(ob', submitted', direct, sent')
      /\ Queued' = QueuedIn(o)
      /\ ob'.phase \in {"idle", "sent", o.phase}
  <2>1. /\ told \in [Key -> Outcomes] /\ sent \subseteq Key /\ submitted' \in Seq(Key)
        /\ submitted' = submitted
    BY <1>3 DEF OutboxOK
  <2> QED
    BY <1>1, <1>2, <1>3, <1>6, <2>1, OutboxKeeps
<1>8. OutboxOK' /\ OrderInv'
  BY <1>3, <1>4, <1>7 DEF OutboxOK, OrderInv
<1>9. get' \in Flights /\ (stopped' => ~get'.deferred) /\ get'.body = get.body
  <2>1. get \in Flights /\ (stopped => ~get.deferred)
    BY DEF GetOK
  <2>2. CASE OutboxTimer
    BY <2>1, <2>2 DEF OutboxTimer
  <2>3. CASE Online
    BY <2>1, <2>3, WantGetIs DEF Online
  <2>4. CASE Start
    BY <2>1, <2>4, WantGetIs DEF Start
  <2> QED
    BY <2>2, <2>3, <2>4 DEF PumpSteps
<1>10. GetOK' /\ ViewOK' /\ ReadsPlain'
  BY <1>3, <1>4, <1>9 DEF GetOK, ReadsPlain
<1>11. ob.phase # "idle" => ob'.phase = ob.phase /\ ob'.head = ob.head
  BY <1>2, <1>5
<1> QED
  BY <1>2, <1>6, <1>7, <1>8, <1>10, <1>11

\* A key joins the queue: an intent's, or a flush's that was held back or failed.
Joins(k) ==
    \/ k \in Spends /\ Send(k)
    \/ k \in Flushes /\ paused /\ FlushKeepalive(k)
    \/ k \in Flushes /\ FlushRetried(k)

LEMMA JoinTypes ==
    ASSUME TypeOK, ReadsPlain, OrderInv, NEW k \in Key, Joins(k)
    PROVE  /\ OutboxOK' /\ GetOK' /\ ViewOK' /\ ReadsPlain' /\ OrderInv'
           /\ k \notin Range(submitted)
           /\ submitted' = Append(submitted, k) /\ Queued' = Queued \cup {k}
           /\ \/ k \in Flushes /\ direct[k] = "sent" /\ FlushRetried(k)
              \/ direct' = direct /\ k \notin Used
           /\ ob.phase # "idle" => ob'.phase = ob.phase /\ ob'.head = ob.head
           /\ ob'.phase \in {"idle", "sent", ob.phase}
           /\ UNCHANGED <<server, told, get, reads, view, stopped>>
<1> USE TypeParts DEF ViewOK
<1> DEFINE o == [ob EXCEPT !.queue = Append(@, k)]
<1>1. /\ ob \in Outboxes /\ Busy(ob) /\ submitted \in Seq(Key) /\ told \in [Key -> Outcomes]
      /\ paused \in BOOLEAN /\ stopped \in BOOLEAN /\ (stopped => ~ob.timer) /\ sent \subseteq Key
  BY DEF OutboxOK
<1>2. /\ submitted' = Append(submitted, k) /\ Outbox(o, paused', stopped) /\ paused' \in BOOLEAN
      /\ UNCHANGED <<server, told, get, reads, view, stopped>>
      /\ direct' \in {direct, [direct EXCEPT ![k] = "done"]}
      /\ \/ k \in Flushes /\ direct[k] = "sent" /\ direct' = [direct EXCEPT ![k] = "done"] /\ FlushRetried(k)
         \/ direct' = direct /\ k \notin Used
  <2>1. CASE k \in Spends /\ Send(k)
    <3>1. Enqueued(k) /\ k \notin Used /\ paused' = paused /\ direct' = direct
      BY <2>1 DEF Send, Fresh
    <3> QED
      BY <1>1, <2>1, <3>1 DEF Send, Enqueued
  <2>2. CASE k \in Flushes /\ paused /\ FlushKeepalive(k)
    <3>1. Enqueued(k) /\ k \notin Used /\ paused' = paused /\ direct' = direct
      BY <2>2 DEF FlushKeepalive, Fresh
    <3> QED
      BY <1>1, <2>2, <3>1 DEF FlushKeepalive, Enqueued
  <2>3. CASE k \in Flushes /\ FlushRetried(k)
    BY <1>1, <2>3 DEF FlushRetried
  <2> QED
    BY <2>1, <2>2, <2>3 DEF Joins
<1>3. k \notin Range(submitted)
  BY <1>2 DEF OrderInv, Around, Used
<1>4. /\ o \in Outboxes /\ Busy(o) /\ Ordered(o, submitted', told)
      /\ QueuedIn(o) = Queued \cup {k}
      /\ Started(o, submitted') = Started(ob, submitted)
      /\ o.head = ob.head /\ o.phase = ob.phase /\ o.timer = ob.timer
  <2>1. Ordered(ob, submitted, told) /\ Queued = QueuedIn(ob)
    BY DEF OrderInv, Queued, QueuedIn
  <2> QED
    BY <1>1, <1>2, <1>3, <2>1, EnqueueIs
<1>5. o.phase # "idle" => ob' = o
  BY <1>2 DEF Outbox, Pump
<1> HIDE DEF o
<1>6. /\ submitted' \in Seq(Key) /\ Range(submitted') = Range(submitted) \cup {k}
      /\ \A i \in 1 .. Len(submitted) : submitted'[i] = submitted[i]
  BY <1>1, <1>2, AppendIs
<1>7. SentInTurn(o, submitted', direct', sent)
  <2> SUFFICES ASSUME NEW j \in sent, ~Flushed(j, direct')
               PROVE  \E i \in 1 .. Started(o, submitted') : submitted'[i] = j
    BY DEF SentInTurn
  <2>1. ~Flushed(j, direct)
    BY <1>1, <1>2 DEF Flushed, OutboxOK
  <2>2. PICK i \in 1 .. Started(ob, submitted) : submitted[i] = j
    BY <2>1 DEF OrderInv, SentInTurn
  <2>3. i \in 1 .. Len(submitted)
    BY <1>1, <2>2, Positions DEF OrderInv
  <2> QED
    BY <1>4, <1>6, <2>2, <2>3
<1>8. /\ ob' \in Outboxes /\ Busy(ob') /\ sent' \subseteq Key /\ (stopped => ~ob'.timer)
      /\ Ordered(ob', submitted', told) /\ SentInTurn(ob', submitted', direct', sent')
      /\ Queued' = QueuedIn(o)
      /\ ob'.phase \in {"idle", "sent", o.phase}
  BY <1>1, <1>2, <1>4, <1>6, <1>7, OutboxKeeps
<1>9. /\ direct' \in [Flushes -> {"no", "sent", "adopting", "done"}]
      /\ \A j \in Flushes \ {k} : direct'[j] = direct[j]
      /\ k \in Flushes => direct'[k] \notin {"sent", "adopting"}
  BY <1>2 DEF OutboxOK, Used
<1>10. OutboxOK'
  BY <1>2, <1>6, <1>8, <1>9 DEF OutboxOK
<1>11. Around(submitted', direct')
  BY <1>6, <1>9 DEF OrderInv, Around
<1>12. OrderInv' /\ GetOK' /\ ViewOK' /\ ReadsPlain'
  BY <1>2, <1>8, <1>11 DEF OrderInv, GetOK, ReadsPlain, view
<1> QED
  BY <1>2, <1>3, <1>4, <1>5, <1>8, <1>10, <1>12

\* A keepalive flush that goes, and its answer unless that queues it.
Bypasses(k) ==
    \/ ~paused /\ FlushKeepalive(k)
    \/ FlushAccepted(k) \/ FlushAdopted(k) \/ FlushRefused(k) \/ FlushIgnored(k)

LEMMA BypassTypes ==
    ASSUME TypeOK, ReadsPlain, OrderInv, NEW k \in Flushes, Bypasses(k)
    PROVE  /\ OutboxOK' /\ GetOK' /\ ViewOK' /\ ReadsPlain' /\ OrderInv'
           /\ UNCHANGED <<server, submitted, ob, told, settling, missed>>
           /\ \A j \in Flushes \ {k} : direct'[j] = direct[j]
           /\ direct'[k] # "no"
           /\ \/ direct'[k] = "sent" /\ k \notin Used /\ snapshot' = snapshot
              \/ direct[k] # "no" /\ direct'[k] # "sent"
           /\ snapshot' = snapshot \/ (direct[k] = "adopting" /\ Adopted(PostBody(k)))
<1> USE TypeParts DEF ViewOK
<1>0. direct \in [Flushes -> {"no", "sent", "adopting", "done"}] /\ k \in Key
  BY DEF OutboxOK, Key
<1>1. /\ UNCHANGED <<server, submitted, ob, told, settling, missed, reads, paused, stopped>>
      /\ direct' \in [Flushes -> {"no", "sent", "adopting", "done"}]
      /\ \A j \in Flushes \ {k} : direct'[j] = direct[j]
      /\ direct'[k] # "no"
      /\ \/ direct'[k] = "sent" /\ k \notin Used /\ snapshot' = snapshot /\ sent' = sent \cup {k}
         \/ direct[k] # "no" /\ direct'[k] # "sent" /\ sent' = sent
      /\ direct'[k] = "adopting" => direct[k] = "sent"
  <2>1. CASE ~paused /\ FlushKeepalive(k)
    BY <1>0, <2>1 DEF FlushKeepalive, Fresh, view
  <2>2. CASE FlushAccepted(k)
    BY <1>0, <2>2 DEF FlushAccepted, view
  <2>3. CASE FlushAdopted(k)
    BY <1>0, <2>3 DEF FlushAdopted
  <2>4. CASE FlushRefused(k)
    BY <1>0, <2>4 DEF FlushRefused, view
  <2>5. CASE FlushIgnored(k)
    BY <1>0, <2>5 DEF FlushIgnored, view
  <2> QED
    BY <2>1, <2>2, <2>3, <2>4, <2>5 DEF Bypasses
<1>2. /\ snapshot' = snapshot \/ (direct[k] = "adopting" /\ Adopted(PostBody(k)))
      /\ GetOK' /\ snapshot' \in Bodies /\ get'.body = get.body
  <2>1. CASE (~paused /\ FlushKeepalive(k)) \/ FlushAccepted(k) \/ FlushIgnored(k)
    BY <1>1, <2>1 DEF FlushKeepalive, FlushAccepted, FlushIgnored, view, GetOK
  <2>2. CASE FlushRefused(k)
    BY <1>1, <2>2, WantGetIs DEF FlushRefused, view, GetOK
  <2>3. CASE FlushAdopted(k) /\ ~stopped /\ Adopted(PostBody(k))
    BY <1>0, <1>1, <2>3, PostBodyIs, AdoptedIs DEF FlushAdopted
  <2>4. CASE FlushAdopted(k) /\ get' = [get EXCEPT !.deferred = @ \/ ~stopped] /\ UNCHANGED snapshot
    BY <1>1, <2>4, NothingGone DEF GetOK
  <2> QED
    BY <2>1, <2>2, <2>3, <2>4 DEF Bypasses, FlushAdopted
<1>3. OutboxOK'
  BY <1>0, <1>1 DEF OutboxOK
<1>4. SentInTurn(ob, submitted, direct', sent')
  BY <1>0, <1>1 DEF OrderInv, SentInTurn, Flushed
<1>5. Around(submitted, direct')
  <2>1. k \notin Used => k \notin Range(submitted)
    BY DEF Used
  <2> QED
    BY <1>1, <2>1 DEF OrderInv, Around
<1>6. OrderInv' /\ ViewOK' /\ ReadsPlain'
  BY <1>1, <1>2, <1>4, <1>5 DEF OrderInv, ReadsPlain
<1> QED
  BY <1>1, <1>2, <1>3, <1>6

\* The head is settled.
Settles(outcome) ==
    \/ outcome = "rejected" /\ PostRejected
    \/ outcome = "client-bug" /\ PostClientBug
    \/ outcome = "adopt" /\ SettleAdopted

LEMMA SettleTypes ==
    ASSUME TypeOK, ReadsPlain, OrderInv, NEW outcome \in Outcomes, Settles(outcome)
    PROVE  /\ OutboxOK' /\ GetOK' /\ ViewOK' /\ ReadsPlain' /\ OrderInv'
           /\ UNCHANGED <<server, submitted, direct, snapshot, missed>>
           /\ ob.head \in Key /\ ob.head \in Range(submitted) /\ told[ob.head] = "none"
           /\ told' = [told EXCEPT ![ob.head] = outcome]
           /\ Queued' \subseteq Queued \ {ob.head}
           /\ ob'.phase \in {"idle", "sent"}
           /\ settling' = IF settling = ob.head THEN None ELSE settling
<1> USE TypeParts DEF ViewOK
<1> DEFINE o == [ob EXCEPT !.head = None, !.phase = "idle"]
           t == [told EXCEPT ![ob.head] = outcome]
<1>1. /\ ob \in Outboxes /\ Busy(ob) /\ submitted \in Seq(Key) /\ told \in [Key -> Outcomes]
      /\ sent \subseteq Key /\ paused \in BOOLEAN /\ stopped \in BOOLEAN
  BY DEF OutboxOK
<1>2. PICK g : SettleHead(outcome, g) /\ g \in {get, WantGet(get, paused, stopped)}
  BY DEF Settles, PostRejected, PostClientBug, SettleAdopted
<1>3. /\ UNCHANGED <<server, submitted, direct, reads, snapshot, missed, paused, stopped>>
      /\ outcome # "none" /\ ob.phase # "idle"
  BY DEF Settles, PostRejected, PostClientBug, SettleAdopted
<1>4. ob.head \in Key /\ ~ob.timer /\ ob.head # None
  BY <1>3, HeadIsKey
<1>5. /\ told' = t /\ Outbox(o, paused, stopped) /\ get' = g
      /\ settling' = IF settling = ob.head THEN None ELSE settling
  BY <1>2 DEF SettleHead
<1>6. /\ o \in Outboxes /\ Busy(o) /\ Ordered(o, submitted, t) /\ t \in [Key -> Outcomes]
      /\ QueuedIn(o) = Range(ob.queue) /\ ob.head \notin QueuedIn(o)
      /\ Started(o, submitted) = Started(ob, submitted)
      /\ o.phase = "idle" /\ o.timer = FALSE
  <2>1. Ordered(ob, submitted, told)
    BY DEF OrderInv
  <2> QED
    BY <1>1, <1>3, <1>4, <2>1, SettleIs
<1>7. ob.head \in Range(submitted) /\ told[ob.head] = "none"
  <2>1. /\ Started(ob, submitted) \in 1 .. Len(submitted) /\ ob.head = submitted[Started(ob, submitted)]
        /\ Settled(ob, submitted) = Started(ob, submitted) - 1
    BY <1>1, <1>4, Positions DEF OrderInv, Settled
  <2>2. ob.head \in Range(submitted)
    BY <1>1, <2>1, RangeIs
  <2>3. told[ob.head] # "none" <=> Started(ob, submitted) <= Settled(ob, submitted)
    BY <2>1 DEF OrderInv, Ordered
  <2> QED
    BY <2>1, <2>2, <2>3
<1> HIDE DEF o, t
<1>8. SentInTurn(o, submitted, direct, sent)
  BY <1>6 DEF OrderInv, SentInTurn
<1>9. /\ ob' \in Outboxes /\ Busy(ob') /\ sent' \subseteq Key /\ (stopped => ~ob'.timer)
      /\ Ordered(ob', submitted', t) /\ SentInTurn(ob', submitted', direct, sent')
      /\ Queued' = QueuedIn(o)
      /\ ob'.phase \in {"idle", "sent", o.phase}
  <2>1. submitted' = submitted /\ submitted' \in Seq(Key)
    BY <1>1, <1>3
  <2> QED
    BY <1>1, <1>5, <1>6, <1>8, <2>1, OutboxKeeps
<1>10. OutboxOK'
  BY <1>1, <1>3, <1>5, <1>6, <1>9 DEF OutboxOK
<1>11. OrderInv'
  BY <1>3, <1>5, <1>9 DEF OrderInv, Around
<1>12. GetOK' /\ ReadsPlain'
  <2>1. get' \in Flights /\ (stopped => ~get'.deferred) /\ get'.body = get.body
    BY <1>1, <1>2, <1>5, WantGetIs DEF GetOK
  <2> QED
    BY <1>3, <2>1 DEF GetOK, ReadsPlain
<1>13. ViewOK'
  BY <1>3, <1>5
<1>14. Queued' \subseteq Queued \ {ob.head}
  BY <1>6, <1>9 DEF Queued
<1> QED
  BY <1>3, <1>4, <1>5, <1>6, <1>7, <1>9, <1>10, <1>11, <1>12, <1>13, <1>14 DEF t

----------------------------------------------------------------------------
\* What was told and shown stays so.

\* An answer, once stored, is the key's answer; the snapshot only grows newer.
AnswersStay ==
    \A k \in Key : /\ answer'[k].ok => answer'[k].known
                   /\ answer[k].known => answer'[k] = answer[k]
Grows == snapshot'.version >= snapshot.version /\ missed \subseteq missed'

LEMMA SnapshotGrows ==
    ASSUME TypeOK, NEW b \in Bodies, Adopted(b)
    PROVE  /\ snapshot'.version >= snapshot.version /\ snapshot'.version >= b.version
           /\ snapshot' = IF IsAdoptable(b) THEN b ELSE snapshot
BY TypeParts DEF Adopted, IsAdoptable, ViewOK, Bodies, NoSnapshot, Body

LEMMA ShownStays ==
    ASSUME TypeOK, TypeOK', Grows, NEW k \in Key, answer'[k] = answer[k]
    PROVE  (Counted(k) => Counted(k)') /\ (Shown(k) => Shown(k)')
<1>1. /\ snapshot.version \in Nat /\ snapshot'.version \in Nat /\ answer[k].version \in Nat
      /\ snapshot'.version >= snapshot.version /\ answer'[k].version = answer[k].version
  <2>1. snapshot \in Bodies /\ snapshot' \in Bodies
    BY DEF TypeOK
  <2>2. answer \in [Key -> [ok : BOOLEAN, version : Nat, at : Nat, known : BOOLEAN]]
    BY DEF TypeOK
  <2> QED
    BY <2>1, <2>2 DEF Grows, Bodies
<1>2. Counted(k) => Counted(k)'
  <2> DEFINE v == snapshot.version
             w == snapshot'.version
             a == answer[k].version
  <2>1. v \in Nat /\ w \in Nat /\ a \in Nat /\ w >= v
    BY <1>1
  <2>2. (Counted(k) <=> v >= a) /\ (Counted(k)' <=> w >= a)
    BY <1>1 DEF Counted
  <2> HIDE DEF v, w, a
  <2> QED
    BY <2>1, <2>2
<1> QED
  BY <1>2 DEF Grows, Shown

LEMMA ToldStays ==
    ASSUME TypeOK, TypeOK', ToldTrue, AnswersStay, Grows,
           \A k \in Key : \/ told'[k] = told[k]
                          \/ told'[k] = "adopt" /\ answer[k].ok /\ Shown(k)
                          \/ told'[k] = "rejected" /\ answer[k].known /\ ~answer[k].ok
                          \/ told'[k] = "client-bug"
    PROVE  ToldTrue'
<1> SUFFICES ASSUME NEW k \in Key
             PROVE  /\ answer'[k].ok => answer'[k].known
                    /\ told'[k] = "adopt" => answer'[k].ok /\ Shown(k)'
                    /\ told'[k] = "rejected" => answer'[k].known /\ ~answer'[k].ok
  BY DEF ToldTrue
<1>2. /\ told'[k] = "adopt" => answer[k].ok /\ Shown(k)
      /\ told'[k] = "rejected" => answer[k].known /\ ~answer[k].ok
  BY DEF ToldTrue
<1>3. answer[k].ok => answer[k].known
  BY DEF ToldTrue
<1>4. answer[k].known => answer'[k] = answer[k] /\ (Shown(k) => Shown(k)')
  BY ShownStays DEF AnswersStay
<1> QED
  BY <1>2, <1>3, <1>4 DEF AnswersStay

LEMMA HeadStays ==
    ASSUME TypeOK, TypeOK', ToldTrue, HeadTrue, AnswersStay, Grows, UNCHANGED settling,
           ob'.phase \in {"adopting", "adopted"} => ob'.phase = ob.phase /\ ob'.head = ob.head,
           ob.phase = "adopted" => ob'.phase = ob.phase /\ ob'.head = ob.head
    PROVE  HeadTrue'
<1>1. ASSUME NEW h \in Key, h = ob.head, ob.phase \in {"adopting", "adopted"}
      PROVE  /\ answer'[h].ok
             /\ Shown(h) => Shown(h)'
             /\ Counted(h) => Counted(h)'
  BY <1>1, ShownStays DEF HeadTrue, ToldTrue, AnswersStay
<1>2. CASE ob'.phase \in {"adopting", "adopted"}
  <2>1. ob.head \in Key /\ ob'.head = ob.head /\ ob'.phase = ob.phase
    BY <1>2, HeadIsKey
  <2>2. PICK h \in Key : h = ob.head
    BY <2>1
  <2> QED
    BY <1>1, <1>2, <2>1, <2>2 DEF HeadTrue, Shown, Counted
<1>3. CASE ob'.phase \notin {"adopting", "adopted"}
  BY <1>3 DEF HeadTrue
<1> QED
  BY <1>2, <1>3

LEMMA FromStays ==
    ASSUME FromOnce, snapshot'.from = snapshot.from, UNCHANGED settling, Used \subseteq Used',
           \A k \in Key : k \in Queued' => k \in Queued \/ snapshot.from # k,
           \A k \in Flushes : direct'[k] = "sent" => direct[k] = "sent" \/ snapshot.from # k
    PROVE  FromOnce'
BY DEF FromOnce

\* Nothing is told or shown by the server alone.
LEMMA ServerTruth ==
    ASSUME SyncInv, TypeOK', ServerSteps
    PROVE  ToldTrue' /\ HeadTrue' /\ FromOnce'
<1>1. UNCHANGED <<sent, submitted, ob, told, direct, get, reads, snapshot, settling, missed, paused, stopped>>
  BY DEF ServerSteps, Process, OtherDevice, Tick, view
<1>2. AnswersStay
  <2>1. CASE OtherDevice \/ Tick
    BY <2>1 DEF OtherDevice, Tick, AnswersStay, SyncInv, ToldTrue
  <2>2. ASSUME NEW k \in Key, NEW ok \in BOOLEAN, Process(k, ok) PROVE AnswersStay
    <3>1. ~answer[k].known /\ \E a : a.known /\ answer' = [answer EXCEPT ![k] = a]
      BY <2>2 DEF Process, Answer
    <3> QED
      BY <3>1, TypeParts DEF AnswersStay, SyncInv, ToldTrue, ServerOK
  <2> QED
    BY <2>1, <2>2 DEF ServerSteps
<1>3. Grows
  BY <1>1, TypeParts DEF Grows, SyncInv, ViewOK, Bodies
<1>4. ToldTrue'
  BY <1>1, <1>2, <1>3, ToldStays DEF SyncInv
<1>5. HeadTrue'
  BY <1>1, <1>2, <1>3, HeadStays DEF SyncInv
<1>6. Used' = Used /\ Queued' = Queued
  BY <1>1 DEF Used, Queued
<1>7. FromOnce'
  BY <1>1, <1>6, FromStays DEF SyncInv
<1> QED
  BY <1>4, <1>5, <1>7

LEMMA GetTruth ==
    ASSUME SyncInv, TypeOK', GetSteps
    PROVE  ToldTrue' /\ HeadTrue' /\ FromOnce'
<1>1. UNCHANGED <<answer, sent, submitted, ob, told, direct, settling, missed>>
  BY DEF GetSteps, ServeGet, GetAccepted, GetFailed, GetClientBug, DeferredTimer, Trigger, PauseEnds,
         AdoptRead, AdoptReadFails, view, server
<1>2. snapshot' = snapshot \/ \E b \in reads : Adopted(b)
  BY DEF GetSteps, ServeGet, GetAccepted, GetFailed, GetClientBug, DeferredTimer, Trigger, PauseEnds,
         AdoptRead, AdoptReadFails, view
<1>3. AnswersStay
  BY <1>1 DEF AnswersStay, SyncInv, ToldTrue
<1>4. Grows /\ (snapshot'.from = snapshot.from \/ snapshot'.from = None)
  <2>1. CASE snapshot' = snapshot
    BY <1>1, <2>1, TypeParts DEF Grows, SyncInv, ViewOK, Bodies
  <2>2. ASSUME NEW b \in reads, Adopted(b)
        PROVE  Grows /\ (snapshot'.from = snapshot.from \/ snapshot'.from = None)
    <3>1. b \in Bodies /\ b.from = None
      BY TypeParts DEF SyncInv, GetOK, ReadsPlain
    <3> QED
      BY <1>1, <2>2, <3>1, SnapshotGrows DEF Grows, SyncInv
  <2> QED
    BY <1>2, <2>1, <2>2
<1>5. ToldTrue'
  BY <1>1, <1>3, <1>4, ToldStays DEF SyncInv
<1>6. HeadTrue'
  BY <1>1, <1>3, <1>4, HeadStays DEF SyncInv
<1>7. Used' = Used /\ Queued' = Queued
  BY <1>1 DEF Used, Queued
<1>8. FromOnce'
  <2>1. CASE snapshot'.from = snapshot.from
    BY <1>1, <1>7, <2>1, FromStays DEF SyncInv
  <2>2. CASE snapshot'.from = None
    BY <2>2 DEF FromOnce
  <2> QED
    BY <1>4, <2>1, <2>2
<1> QED
  BY <1>5, <1>6, <1>8

LEMMA QueuedSubmitted ==
    ASSUME TypeOK, OrderInv
    PROVE  Queued \subseteq Range(submitted)
<1>1. ob \in Outboxes /\ submitted \in Seq(Key) /\ Ordered(ob, submitted, told)
  BY TypeParts DEF OutboxOK, OrderInv
<1>2. /\ Len(submitted) = Started(ob, submitted) + Len(ob.queue)
      /\ Started(ob, submitted) \in 0 .. Len(submitted) /\ ob.queue \in Seq(Key)
      /\ Len(ob.queue) \in Nat /\ Len(submitted) \in Nat
  BY <1>1, Positions
<1>3. ASSUME NEW k \in Range(ob.queue) PROVE k \in Range(submitted)
  <2>1. PICK i \in 1 .. Len(ob.queue) : ob.queue[i] = k
    BY <1>2, RangeIs
  <2>2. Started(ob, submitted) + i \in 1 .. Len(submitted)
    BY <1>2
  <2>3. submitted[Started(ob, submitted) + i] = k
    BY <1>1, <2>1 DEF Ordered
  <2> QED
    BY <1>1, <2>2, <2>3, RangeIs
<1>4. ob.head # None => ob.head \in Range(submitted)
  <2> SUFFICES ASSUME ob.head # None PROVE ob.head \in Range(submitted)
    OBVIOUS
  <2>1. Started(ob, submitted) \in 1 .. Len(submitted) /\ ob.head = submitted[Started(ob, submitted)]
    BY <1>1, <1>2, Positions
  <2> QED
    BY <1>1, <2>1, RangeIs
<1> QED
  BY <1>3, <1>4 DEF Queued

LEMMA PhaseTruth ==
    ASSUME SyncInv, TypeOK', PhaseSteps
    PROVE  ToldTrue' /\ HeadTrue' /\ FromOnce'
<1>0. TypeOK /\ OrderInv /\ ToldTrue /\ HeadTrue /\ FromOnce
  BY DEF SyncInv
<1>1. /\ UNCHANGED <<answer, sent, submitted, told, direct>>
      /\ ob'.queue = ob.queue /\ ob'.head = ob.head
  BY PhaseTypes
     DEF SyncInv, PhaseSteps, PostIgnored, PostAccepted, PostFailed, PostPaused, AdoptPost, AdoptPostFails,
         Stop, server
<1>2. AnswersStay /\ Used' = Used /\ Queued' = Queued
  BY <1>0, <1>1 DEF AnswersStay, ToldTrue, Used, Queued
<1>3. snapshot.version \in Nat /\ snapshot \in Bodies
  BY <1>0 DEF TypeOK, Bodies
<1>4. ob.phase \in {"sent", "adopting"} => settling = None
  BY <1>0 DEF HeadTrue
<1>5. CASE PostIgnored \/ PostFailed \/ PostPaused \/ Stop
  <2>1. /\ UNCHANGED <<snapshot, settling, missed>>
        /\ ob'.phase \in {"idle", ob.phase} /\ (ob.phase = "adopted" => ob'.phase = "adopted")
    BY <1>0, <1>5, TypeParts DEF PostIgnored, PostFailed, PostPaused, Stop, view, OutboxOK, Outboxes
  <2>2. Grows
    BY <1>3, <2>1 DEF Grows
  <2>3. ToldTrue'
    BY <1>0, <1>1, <1>2, <2>2, ToldStays
  <2>4. HeadTrue'
    BY <1>0, <1>1, <1>2, <2>1, <2>2, HeadStays
  <2>5. FromOnce'
    BY <1>0, <1>1, <1>2, <2>1, FromStays
  <2> QED
    BY <2>3, <2>4, <2>5
<1>6. CASE PostAccepted
  <2>1. /\ UNCHANGED <<snapshot, settling, missed>> /\ ob.phase = "sent"
        /\ ob'.phase = "adopting" /\ answer[ob.head].ok
    BY <1>0, <1>6, TypeParts DEF PostAccepted, view, OutboxOK, Outboxes
  <2>2. Grows
    BY <1>3, <2>1 DEF Grows
  <2>3. ToldTrue'
    BY <1>0, <1>1, <1>2, <2>2, ToldStays
  <2>4. HeadTrue'
    BY <1>1, <1>4, <2>1 DEF HeadTrue
  <2>5. FromOnce'
    BY <1>0, <1>1, <1>2, <2>1, FromStays
  <2> QED
    BY <2>3, <2>4, <2>5
<1>7. CASE AdoptPost
  <2>1. /\ ob.phase = "adopting" /\ ob'.phase = "adopted" /\ missed' = missed
        /\ settling' = SettlingOf(ob.head, PostBody(ob.head)) /\ Adopted(PostBody(ob.head))
    BY <1>0, <1>7, TypeParts DEF AdoptPost, OutboxOK, Outboxes
  <2>2. PICK h \in Key : h = ob.head
    BY <1>0, <2>1, HeadIsKey
  <2>3. /\ PostBody(h) \in Bodies /\ PostBody(h).from = h /\ PostBody(h).version = answer[h].version
    BY <1>0, PostBodyIs
  <2>4. /\ snapshot'.version >= snapshot.version /\ snapshot'.version >= answer[h].version
        /\ \/ snapshot'.from = h /\ settling' = h
           \/ snapshot' = snapshot /\ settling' = None
    BY <1>0, <1>4, <2>1, <2>2, <2>3, SnapshotGrows DEF SettlingOf
  <2>5. Grows
    BY <2>1, <2>4 DEF Grows
  <2>6. ToldTrue'
    BY <1>0, <1>1, <1>2, <2>5, ToldStays
  <2>7. HeadTrue'
    <3>1. answer'[ob'.head].ok
      BY <1>0, <1>1, <2>1 DEF HeadTrue
    <3>2. Counted(ob.head)'
      BY <1>1, <2>2, <2>4 DEF Counted
    <3> QED
      BY <1>1, <2>1, <2>2, <2>4, <3>1, <3>2 DEF HeadTrue, Shown
  <2>8. FromOnce'
    <3>1. h \in Range(submitted)
      BY <1>0, <2>2, QueuedSubmitted DEF Queued
    <3>2. h \in Used /\ (h \in Flushes => direct[h] # "sent")
      BY <1>0, <3>1 DEF Used, OrderInv, Around
    <3> QED
      BY <1>0, <1>1, <1>2, <1>4, <2>1, <2>4, <3>2 DEF FromOnce
  <2> QED
    BY <2>6, <2>7, <2>8
<1>8. CASE AdoptPostFails
  <2>1. /\ ob.phase = "adopting" /\ ob'.phase = "adopted" /\ missed' = missed \cup {ob.head}
        /\ UNCHANGED <<snapshot, settling>>
    BY <1>0, <1>8, TypeParts DEF AdoptPostFails, OutboxOK, Outboxes
  <2>2. Grows
    BY <1>3, <2>1 DEF Grows
  <2>3. ToldTrue'
    BY <1>0, <1>1, <1>2, <2>2, ToldStays
  <2>4. HeadTrue'
    <3>1. answer'[ob'.head].ok
      BY <1>0, <1>1, <2>1 DEF HeadTrue
    <3> QED
      BY <1>1, <1>4, <2>1, <3>1 DEF HeadTrue, Shown
  <2>5. FromOnce'
    BY <1>0, <1>1, <1>2, <2>1, FromStays
  <2> QED
    BY <2>3, <2>4, <2>5
<1> QED
  BY <1>5, <1>6, <1>7, <1>8 DEF PhaseSteps

LEMMA PumpTruth ==
    ASSUME SyncInv, TypeOK', PumpSteps
    PROVE  ToldTrue' /\ HeadTrue' /\ FromOnce'
<1>0. TypeOK /\ OrderInv /\ ToldTrue /\ HeadTrue /\ FromOnce
  BY DEF SyncInv
<1>1. UNCHANGED <<answer, submitted, told, direct, snapshot, settling, missed>>
  BY DEF PumpSteps, OutboxTimer, Online, Start, view, server
<1>2. /\ Queued' = Queued
      /\ ob.phase # "idle" => ob'.phase = ob.phase /\ ob'.head = ob.head
      /\ ob'.phase \in {"idle", "sent", ob.phase}
  BY PumpTypes DEF SyncInv
<1>3. AnswersStay /\ Used' = Used
  BY <1>0, <1>1 DEF AnswersStay, ToldTrue, Used
<1>4. Grows
  BY <1>0, <1>1 DEF Grows, TypeOK, Bodies
<1>5. ToldTrue'
  BY <1>0, <1>1, <1>3, <1>4, ToldStays
<1>6. HeadTrue'
  BY <1>0, <1>1, <1>2, <1>3, <1>4, HeadStays
<1>7. FromOnce'
  BY <1>0, <1>1, <1>2, <1>3, FromStays
<1> QED
  BY <1>5, <1>6, <1>7

LEMMA JoinTruth ==
    ASSUME SyncInv, TypeOK', NEW k \in Key, Joins(k)
    PROVE  ToldTrue' /\ HeadTrue' /\ FromOnce'
<1>0. TypeOK /\ OrderInv /\ ToldTrue /\ HeadTrue /\ FromOnce
  BY DEF SyncInv
<1>1. /\ submitted' = Append(submitted, k) /\ Queued' = Queued \cup {k}
      /\ \/ k \in Flushes /\ direct[k] = "sent" /\ FlushRetried(k)
         \/ direct' = direct /\ k \notin Used
      /\ ob.phase # "idle" => ob'.phase = ob.phase /\ ob'.head = ob.head
      /\ ob'.phase \in {"idle", "sent", ob.phase}
      /\ UNCHANGED <<answer, told, snapshot, settling, missed>>
  BY JoinTypes DEF SyncInv, view, server
<1>2. snapshot.from # k
  BY <1>0, <1>1 DEF FromOnce
<1>3. /\ \A j \in Flushes : direct'[j] = "sent" => direct[j] = "sent"
      /\ \A j \in Flushes : direct[j] # "no" => direct'[j] # "no"
  <2>1. direct' = direct \/ direct' = [direct EXCEPT ![k] = "done"]
    BY <1>1 DEF FlushRetried
  <2> QED
    BY <1>0, <2>1 DEF TypeOK
<1>4. AnswersStay
  BY <1>0, <1>1 DEF AnswersStay, ToldTrue
<1>5. Used \subseteq Used'
  <2>1. submitted \in Seq(Key)
    BY <1>0 DEF TypeOK
  <2>2. Range(submitted') = Range(submitted) \cup {k}
    BY <1>1, <2>1, AppendIs
  <2> QED
    BY <1>3, <2>2 DEF Used
<1>6. Grows
  BY <1>0, <1>1 DEF Grows, TypeOK, Bodies
<1>7. ToldTrue'
  BY <1>0, <1>1, <1>4, <1>6, ToldStays
<1>8. HeadTrue'
  BY <1>0, <1>1, <1>4, <1>6, HeadStays
<1>9. FromOnce'
  BY <1>0, <1>1, <1>2, <1>3, <1>5, FromStays
<1> QED
  BY <1>7, <1>8, <1>9

LEMMA BypassTruth ==
    ASSUME SyncInv, TypeOK', NEW k \in Flushes, Bypasses(k)
    PROVE  ToldTrue' /\ HeadTrue' /\ FromOnce'
<1>0. TypeOK /\ OrderInv /\ ToldTrue /\ HeadTrue /\ FromOnce /\ k \in Key
  BY DEF SyncInv, Key
<1>1. /\ UNCHANGED <<answer, submitted, ob, told, settling, missed>>
      /\ \A j \in Flushes \ {k} : direct'[j] = direct[j]
      /\ direct'[k] # "no"
      /\ \/ direct'[k] = "sent" /\ k \notin Used /\ snapshot' = snapshot
         \/ direct[k] # "no" /\ direct'[k] # "sent"
      /\ snapshot' = snapshot \/ (direct[k] = "adopting" /\ Adopted(PostBody(k)))
  BY BypassTypes DEF SyncInv, server
<1>2. AnswersStay /\ Queued' = Queued
  BY <1>0, <1>1 DEF AnswersStay, ToldTrue, Queued
<1>3. Used \subseteq Used' /\ k \in Used'
  BY <1>1 DEF Used
<1>4. /\ Grows
      /\ \/ snapshot' = snapshot
         \/ snapshot'.from = k /\ direct[k] = "adopting" /\ direct'[k] # "sent"
  <2>1. CASE snapshot' = snapshot
    BY <1>0, <1>1, <2>1 DEF Grows, TypeOK, Bodies
  <2>2. CASE snapshot' # snapshot
    <3>1. PostBody(k) \in Bodies /\ PostBody(k).from = k
      BY <1>0, PostBodyIs
    <3> QED
      BY <1>0, <1>1, <2>2, <3>1, SnapshotGrows DEF Grows
  <2> QED
    BY <2>1, <2>2
<1>5. ToldTrue'
  BY <1>0, <1>1, <1>2, <1>4, ToldStays
<1>6. HeadTrue'
  BY <1>0, <1>1, <1>2, <1>4, HeadStays
<1>7. FromOnce'
  <2>1. CASE snapshot' = snapshot
    <3>1. \A j \in Flushes : direct'[j] = "sent" => direct[j] = "sent" \/ snapshot.from # j
      BY <1>0, <1>1 DEF FromOnce
    <3> QED
      BY <1>0, <1>1, <1>2, <1>3, <2>1, <3>1, FromStays
  <2>2. CASE snapshot'.from = k /\ direct[k] = "adopting" /\ direct'[k] # "sent"
    <3>1. k \notin Queued
      BY <1>0, <2>2, QueuedSubmitted DEF OrderInv, Around
    <3> QED
      BY <1>2, <1>3, <2>2, <3>1 DEF FromOnce
  <2> QED
    BY <1>4, <2>1, <2>2
<1> QED
  BY <1>5, <1>6, <1>7

LEMMA SettleTruth ==
    ASSUME SyncInv, TypeOK', NEW outcome \in Outcomes, Settles(outcome)
    PROVE  ToldTrue' /\ HeadTrue' /\ FromOnce'
<1>0. TypeOK /\ OrderInv /\ ToldTrue /\ HeadTrue /\ FromOnce
  BY DEF SyncInv
<1>1. /\ UNCHANGED <<answer, submitted, direct, snapshot, missed>>
      /\ ob.head \in Key /\ told' = [told EXCEPT ![ob.head] = outcome]
      /\ Queued' \subseteq Queued \ {ob.head}
      /\ ob'.phase \in {"idle", "sent"}
      /\ settling' = IF settling = ob.head THEN None ELSE settling
  BY SettleTypes DEF SyncInv, server
<1>2. AnswersStay /\ Used' = Used
  BY <1>0, <1>1 DEF AnswersStay, ToldTrue, Used
<1>3. Grows
  BY <1>0, <1>1 DEF Grows, TypeOK, Bodies
<1>4. /\ outcome = "adopt" => answer[ob.head].ok /\ Shown(ob.head)
      /\ outcome = "rejected" => answer[ob.head].known /\ ~answer[ob.head].ok
      /\ outcome \in {"adopt", "rejected", "client-bug"}
  BY <1>0 DEF Settles, SettleAdopted, PostRejected, PostClientBug, HeadTrue
<1>5. ToldTrue'
  <2>1. ASSUME NEW k \in Key
        PROVE  \/ told'[k] = told[k]
               \/ told'[k] = "adopt" /\ answer[k].ok /\ Shown(k)
               \/ told'[k] = "rejected" /\ answer[k].known /\ ~answer[k].ok
               \/ told'[k] = "client-bug"
    BY <1>0, <1>1, <1>4 DEF TypeOK
  <2> QED
    BY <1>0, <1>2, <1>3, <2>1, ToldStays
<1>6. settling' = None
  BY <1>0, <1>1 DEF HeadTrue
<1>7. HeadTrue'
  BY <1>1, <1>6 DEF HeadTrue
<1>8. FromOnce'
  BY <1>0, <1>1, <1>2 DEF FromOnce, HeadTrue
<1> QED
  BY <1>5, <1>7, <1>8

----------------------------------------------------------------------------
\* The invariant.

LEMMA Families ==
    ASSUME Next
    PROVE  \/ ServerSteps \/ GetSteps \/ PhaseSteps \/ PumpSteps
           \/ \E k \in Key : Joins(k)
           \/ \E k \in Flushes : Bypasses(k)
           \/ \E outcome \in Outcomes : Settles(outcome)
<1>1. ASSUME NEW k \in Flushes, FlushKeepalive(k) PROVE Joins(k) \/ Bypasses(k)
  BY <1>1 DEF Joins, Bypasses
<1>2. ASSUME NEW k \in Flushes, FlushRetried(k) PROVE Joins(k)
  BY <1>2 DEF Joins
<1>3. ASSUME NEW k \in Spends, Send(k) PROVE Joins(k)
  BY <1>3 DEF Joins
<1>4. ASSUME PostRejected \/ PostClientBug \/ SettleAdopted PROVE \E outcome \in Outcomes : Settles(outcome)
  BY <1>4 DEF Settles, Outcomes
<1> QED
  BY <1>1, <1>2, <1>3, <1>4 DEF Next, ServerSteps, GetSteps, PhaseSteps, PumpSteps, Bypasses, Key

LEMMA InitInv == Init => SyncInv
<1> SUFFICES ASSUME Init PROVE SyncInv
  OBVIOUS
<1>1. TypeOK /\ OrderInv
  BY InitTypes
<1>2. ToldTrue /\ HeadTrue
  BY DEF Init, ToldTrue, HeadTrue, NoAnswer
<1>3. FromOnce /\ ReadsPlain
  BY DEF Init, FromOnce, ReadsPlain, NoSnapshot, Body
<1> QED
  BY <1>1, <1>2, <1>3 DEF SyncInv

LEMMA NextTypes ==
    ASSUME SyncInv, Next
    PROVE  TypeOK' /\ OrderInv' /\ ReadsPlain'
<1>0. TypeOK /\ OrderInv /\ ReadsPlain
  BY DEF SyncInv
<1>1. TypeOK' <=> ServerOK' /\ OutboxOK' /\ GetOK' /\ ViewOK'
  BY DEF TypeOK, ServerOK, OutboxOK, GetOK, ViewOK, Outboxes, Outcomes, Flights, Busy
<1>2. CASE ServerSteps
  <2>1. ServerOK'
    BY <1>0, <1>2, ServerTypes
  <2>2. UNCHANGED <<sent, submitted, ob, told, direct, get, reads, snapshot, settling, missed, paused, stopped>>
    BY <1>2 DEF ServerSteps, Process, OtherDevice, Tick, view
  <2>3. OutboxOK' /\ GetOK' /\ ViewOK'
    BY <1>0, <2>2, TypeParts DEF OutboxOK, GetOK, ViewOK
  <2>4. OrderInv' /\ ReadsPlain'
    BY <1>0, <2>2 DEF OrderInv, ReadsPlain
  <2> QED
    BY <1>1, <2>1, <2>3, <2>4
<1>3. CASE GetSteps
  <2>1. GetOK' /\ ViewOK' /\ ReadsPlain'
    BY <1>0, <1>3, GetTypes
  <2>2. UNCHANGED <<version, others, clock, answer, sent, submitted, ob, told, direct, stopped>>
    BY <1>3 DEF GetSteps, ServeGet, GetAccepted, GetFailed, GetClientBug, DeferredTimer, Trigger, PauseEnds,
                AdoptRead, AdoptReadFails, server
  <2>3. OutboxOK' /\ ServerOK'
    BY <1>0, <2>2, TypeParts DEF OutboxOK, ServerOK
  <2>4. OrderInv'
    BY <1>0, <2>2 DEF OrderInv
  <2> QED
    BY <1>1, <2>1, <2>3, <2>4
<1>4. ASSUME UNCHANGED server PROVE ServerOK'
  BY <1>0, <1>4, TypeParts DEF ServerOK, server
<1>5. CASE PhaseSteps
  <2>1. UNCHANGED server
    BY <1>5 DEF PhaseSteps, PostIgnored, PostAccepted, PostFailed, PostPaused, AdoptPost, AdoptPostFails, Stop
  <2> QED
    BY <1>0, <1>1, <1>4, <1>5, <2>1, PhaseTypes
<1>6. CASE PumpSteps
  <2>1. UNCHANGED server
    BY <1>6 DEF PumpSteps, OutboxTimer, Online, Start
  <2> QED
    BY <1>0, <1>1, <1>4, <1>6, <2>1, PumpTypes
<1>7. ASSUME NEW k \in Key, Joins(k) PROVE TypeOK' /\ OrderInv' /\ ReadsPlain'
  <2>1. UNCHANGED server
    BY <1>7 DEF Joins, Send, FlushKeepalive, FlushRetried
  <2> QED
    BY <1>0, <1>1, <1>4, <1>7, <2>1, JoinTypes
<1>8. ASSUME NEW k \in Flushes, Bypasses(k) PROVE TypeOK' /\ OrderInv' /\ ReadsPlain'
  <2>1. UNCHANGED server
    BY <1>8 DEF Bypasses, FlushKeepalive, FlushAccepted, FlushAdopted, FlushRefused, FlushIgnored
  <2> QED
    BY <1>0, <1>1, <1>4, <1>8, <2>1, BypassTypes
<1>9. ASSUME NEW outcome \in Outcomes, Settles(outcome) PROVE TypeOK' /\ OrderInv' /\ ReadsPlain'
  <2>1. UNCHANGED server
    BY <1>9 DEF Settles, PostRejected, PostClientBug, SettleAdopted
  <2> QED
    BY <1>0, <1>1, <1>4, <1>9, <2>1, SettleTypes
<1> QED
  BY <1>2, <1>3, <1>5, <1>6, <1>7, <1>8, <1>9, Families

LEMMA NextInv ==
    ASSUME SyncInv, [Next]_vars
    PROVE  SyncInv'
<1>1. CASE Next
  <2>1. TypeOK' /\ OrderInv' /\ ReadsPlain'
    BY <1>1, NextTypes
  <2>2. ToldTrue' /\ HeadTrue' /\ FromOnce'
    BY <1>1, <2>1, Families, ServerTruth, GetTruth, PhaseTruth, PumpTruth, JoinTruth, BypassTruth, SettleTruth
  <2> QED
    BY <2>1, <2>2 DEF SyncInv
<1>2. CASE UNCHANGED vars
  <2>1. UNCHANGED <<version, others, clock, answer, sent, submitted, ob, told, direct, get, reads,
                    snapshot, settling, missed, paused, stopped>>
    BY <1>2 DEF vars, server, view
  <2>2. TypeOK'
    BY <2>1 DEF SyncInv, TypeOK
  <2>3. OrderInv' /\ ReadsPlain'
    BY <2>1 DEF SyncInv, OrderInv, ReadsPlain
  <2>4. ToldTrue' /\ HeadTrue' /\ FromOnce'
    BY <2>1 DEF SyncInv, ToldTrue, HeadTrue, FromOnce, Shown, Counted, Used, Queued
  <2> QED
    BY <2>2, <2>3, <2>4 DEF SyncInv
<1> QED
  BY <1>1, <1>2

\* outbox.ts, store.ts: the queue, the head and the settled batches are the batches in the order they
\* were made, what was told is what the server answered, and an applied batch is shown before it is told.
THEOREM SyncInvariant == Spec => []SyncInv
BY InitInv, NextInv, PTL DEF Spec

\* A submitted key that is neither settled nor told has its place in the outbox.
LEMMA ToldOrQueued ==
    ASSUME TypeOK, OrderInv, NEW k \in Range(submitted), told[k] = "none"
    PROVE  k \in Queued
<1> DEFINE n == Started(ob, submitted)
<1>1. ob \in Outboxes /\ submitted \in Seq(Key) /\ Ordered(ob, submitted, told)
  BY TypeParts DEF OutboxOK, OrderInv
<1>2. /\ Len(submitted) = n + Len(ob.queue) /\ n \in 0 .. Len(submitted) /\ ob.queue \in Seq(Key)
      /\ Len(ob.queue) \in Nat /\ Len(submitted) \in Nat
      /\ ob.head # None => ob.head = submitted[n]
  BY <1>1, Positions
<1>3. PICK i \in 1 .. Len(submitted) : submitted[i] = k
  BY <1>1, RangeIs
<1>4. ~(i <= Settled(ob, submitted))
  BY <1>1, <1>3 DEF Ordered
<1>5. CASE i > n
  <2>1. i - n \in 1 .. Len(ob.queue) /\ n + (i - n) = i
    BY <1>2, <1>5
  <2>2. ob.queue[i - n] = submitted[n + (i - n)]
    BY <1>1, <2>1 DEF Ordered
  <2> QED
    BY <1>2, <1>3, <2>1, <2>2, RangeIs DEF Queued
<1>6. CASE ~(i > n)
  <2>1. ob.head # None /\ i = n
    BY <1>2, <1>4, <1>6 DEF Settled
  <2> QED
    BY <1>2, <1>3, <2>1 DEF Queued
<1> QED
  BY <1>5, <1>6

\* store.ts #adopt, #settlingId: an applied batch is always listed as pending or counted by the
\* snapshot, and never both because of its own response.
THEOREM SpendsAlwaysCounted == Spec => []SpendsCounted
<1>1. SyncInv => SpendsCounted
  <2> SUFFICES ASSUME SyncInv PROVE SpendsCounted
    OBVIOUS
  <2>1. TypeOK /\ OrderInv /\ ToldTrue /\ HeadTrue /\ FromOnce
    BY DEF SyncInv
  <2>2. ListedOrCounted
    <3> SUFFICES ASSUME NEW k \in Range(submitted), answer[k].ok
                 PROVE  Listed(k) \/ Counted(k) \/ k \in missed \/ told[k] = "client-bug"
      BY DEF ListedOrCounted
    <3>1. k \in Key /\ told[k] \in Outcomes
      BY <2>1, RangeIs, TypeParts DEF OutboxOK
    <3>2. CASE told[k] = "none"
      BY <2>1, <3>1, <3>2, ToldOrQueued DEF Listed, HeadTrue
    <3>3. CASE told[k] # "none"
      BY <2>1, <3>1, <3>3 DEF Outcomes, ToldTrue, Shown
    <3> QED
      BY <3>2, <3>3
  <2>3. NotCountedTwice
    BY <2>1 DEF NotCountedTwice, Listed, FromOnce
  <2> QED
    BY <2>1, <2>2, <2>3 DEF SpendsCounted
<1> QED
  BY <1>1, SyncInvariant, PTL

\* snapshot.ts isAdoptable: whatever order answers land and load in, what the page shows never
\* goes back to an older version or an older reading of the same one.
THEOREM PageNeverGoesBack == Spec => NeverGoesBack
<1> DEFINE Onward == snapshot # NoSnapshot =>
               \/ snapshot'.version > snapshot.version
               \/ snapshot'.version = snapshot.version /\ snapshot'.at >= snapshot.at
<1>1. SyncInv /\ [Next]_vars => [Onward]_vars
  <2> SUFFICES ASSUME SyncInv, Next PROVE Onward
    OBVIOUS
  <2>1. snapshot \in Bodies /\ TypeOK
    BY DEF SyncInv, TypeOK
  <2>2. snapshot' = snapshot \/ \E b \in Bodies : Adopted(b)
    <3>1. CASE ServerSteps
      BY <3>1 DEF ServerSteps, Process, OtherDevice, Tick, view
    <3>2. CASE GetSteps
      BY <2>1, <3>2, TypeParts
         DEF GetSteps, ServeGet, GetAccepted, GetFailed, GetClientBug, DeferredTimer, Trigger, PauseEnds,
             AdoptRead, AdoptReadFails, view, GetOK
    <3>3. CASE PhaseSteps
      <4>1. AdoptPost => PostBody(ob.head) \in Bodies
        BY <2>1, HeadIsKey, PostBodyIs DEF AdoptPost
      <4> QED
        BY <3>3, <4>1
           DEF PhaseSteps, PostIgnored, PostAccepted, PostFailed, PostPaused, AdoptPost, AdoptPostFails, Stop, view
    <3>4. CASE PumpSteps
      BY <3>4 DEF PumpSteps, OutboxTimer, Online, Start, view
    <3>5. ASSUME NEW k \in Key, Joins(k) PROVE snapshot' = snapshot
      BY <3>5 DEF Joins, Send, FlushKeepalive, FlushRetried, view
    <3>6. ASSUME NEW k \in Flushes, Bypasses(k) PROVE snapshot' = snapshot \/ \E b \in Bodies : Adopted(b)
      BY <3>6, BypassTypes, PostBodyIs DEF SyncInv, Key
    <3>7. ASSUME NEW outcome \in Outcomes, Settles(outcome) PROVE snapshot' = snapshot
      BY <3>7 DEF Settles, PostRejected, PostClientBug, SettleAdopted
    <3> QED
      BY <3>1, <3>2, <3>3, <3>4, <3>5, <3>6, <3>7, Families
  <2>3. CASE snapshot' = snapshot
    BY <2>1, <2>3 DEF Bodies
  <2>4. ASSUME NEW b \in Bodies, Adopted(b) PROVE Onward
    BY <2>1, <2>4 DEF Adopted, IsAdoptable, Bodies
  <2> QED
    BY <2>2, <2>3, <2>4
<1> QED
  BY <1>1, SyncInvariant, PTL DEF Spec, NeverGoesBack

----------------------------------------------------------------------------
\* The refinement: what Intents sees of a state.

FlushedKeys == {k \in Flushes : direct[k] # "no"}
Verdicts == [k \in Key |-> Verdict(k)]
Promises == [k \in Key |-> Promise(k)]

LEMMA PromisedInit == Init => Promised!Init
<1> SUFFICES ASSUME Init PROVE Promised!Init
  OBVIOUS
<1>1. FlushedKeys = {} /\ submitted = <<>>
  BY DEF Init, FlushedKeys
<1>2. \A k \in Key : Verdict(k) = "open" /\ Promise(k) = "none"
  BY DEF Init, Verdict, Promise, NoAnswer
<1> QED
  BY <1>1, <1>2 DEF Promised!Init, FlushedKeys

\* What Intents sees does not change.
LEMMA PromisedStutters ==
    ASSUME UNCHANGED <<submitted, answer, told>>, FlushedKeys' = FlushedKeys
    PROVE  UNCHANGED Promised!vars
<1>1. \A k \in Key : Verdict(k)' = Verdict(k) /\ Promise(k)' = Promise(k)
  BY DEF Verdict, Promise
<1>2. Verdicts' = Verdicts /\ Promises' = Promises
  BY <1>1 DEF Verdicts, Promises
<1> QED
  BY <1>2 DEF Promised!vars, FlushedKeys, Verdicts, Promises

\* Whatever was sent has gone around the queue, or comes after batches that are decided or given up.
LEMMA SentInTurnIs ==
    ASSUME SyncInv, NEW k \in sent
    PROVE  k \in FlushedKeys \/ Promised!InTurn(k)
<1>1. CASE Flushed(k, direct)
  BY <1>1 DEF Flushed, FlushedKeys
<1>2. CASE ~Flushed(k, direct)
  <2>1. PICK n \in 1 .. Started(ob, submitted) : submitted[n] = k
    BY <1>2 DEF SyncInv, OrderInv, SentInTurn
  <2>2. /\ ob \in Outboxes /\ submitted \in Seq(Key) /\ Ordered(ob, submitted, told)
        /\ told \in [Key -> Outcomes]
    BY TypeParts DEF SyncInv, OutboxOK, OrderInv
  <2>3. Started(ob, submitted) \in 0 .. Len(submitted) /\ Len(submitted) \in Nat
    BY <2>2, Positions
  <2>4. n \in DOMAIN submitted
    BY <2>1, <2>2, <2>3
  <2>5. ASSUME NEW m \in 1 .. (n - 1)
        PROVE  Verdicts[submitted[m]] # "open" \/ Promises[submitted[m]] = "dropped"
    <3>1. m \in 1 .. Len(submitted) /\ m <= Settled(ob, submitted)
      BY <2>1, <2>3 DEF Settled
    <3>2. submitted[m] \in Key /\ told[submitted[m]] # "none"
      BY <2>2, <3>1 DEF Ordered
    <3>3. PICK j \in Key : j = submitted[m]
      BY <3>2
    <3>4. told[j] \in {"adopt", "rejected", "client-bug"}
      BY <2>2, <3>2, <3>3 DEF Outcomes
    <3>5. Verdict(j) # "open" \/ Promise(j) = "dropped"
      BY <3>4 DEF SyncInv, ToldTrue, Verdict, Promise
    <3> QED
      BY <3>3, <3>5 DEF Verdicts, Promises
  <2> QED
    BY <2>1, <2>4, <2>5 DEF Promised!InTurn, Verdicts, Promises
<1> QED
  BY <1>1, <1>2

LEMMA PromisedDecide ==
    ASSUME SyncInv, NEW k \in Key, NEW ok \in BOOLEAN, Process(k, ok)
    PROVE  \E v \in {"applied", "refused"} : Promised!Decide(k, v)
<1> DEFINE v == IF ok THEN "applied" ELSE "refused"
<1>1. k \in sent /\ ~answer[k].known /\ UNCHANGED <<submitted, direct, told>>
  BY DEF Process
<1>2. answer \in [Key -> [ok : BOOLEAN, version : Nat, at : Nat, known : BOOLEAN]]
  BY DEF SyncInv, TypeOK
<1>3. PICK at \in Stamps : answer' = [answer EXCEPT ![k] = Answer(ok, version', at)]
  BY DEF Process
<1>4. answer'[k].ok = ok /\ answer'[k].known = TRUE /\ \A j \in Key \ {k} : answer'[j] = answer[j]
  BY <1>2, <1>3 DEF Answer
<1>5. Verdict(k) = "open"
  BY <1>1 DEF SyncInv, ToldTrue, Verdict
<1>6. Verdicts' = [Verdicts EXCEPT ![k] = v]
  <2>1. Verdict(k)' = v /\ \A j \in Key \ {k} : Verdict(j)' = Verdict(j)
    BY <1>4 DEF Verdict
  <2> QED
    BY <2>1 DEF Verdicts
<1>7. UNCHANGED <<submitted, FlushedKeys, Promises>>
  <2>1. \A j \in Key : Promise(j)' = Promise(j)
    BY <1>1 DEF Promise
  <2> QED
    BY <1>1, <2>1 DEF FlushedKeys, Promises
<1>8. k \in FlushedKeys \/ Promised!InTurn(k)
  BY <1>1, SentInTurnIs
<1>9. Verdicts[k] = "open"
  BY <1>5 DEF Verdicts
<1>10. Promised!Decide(k, v)
  BY <1>6, <1>7, <1>8, <1>9 DEF Promised!Decide, FlushedKeys, Verdicts, Promises
<1> QED
  BY <1>10

LEMMA PromisedTell ==
    ASSUME SyncInv, NEW outcome \in Outcomes, Settles(outcome)
    PROVE  \E v \in {"applied", "refused", "dropped"} : Promised!Tell(ob.head, v)
<1> DEFINE v == CASE outcome = "adopt" -> "applied" [] outcome = "rejected" -> "refused"
                  [] OTHER -> "dropped"
<1>1. /\ UNCHANGED <<answer, submitted, direct>>
      /\ ob.head \in Key /\ ob.head \in Range(submitted) /\ told[ob.head] = "none"
      /\ told' = [told EXCEPT ![ob.head] = outcome]
  BY SettleTypes DEF SyncInv, server
<1>2. PICK h \in Key : h = ob.head
  BY <1>1
<1>3. /\ outcome = "adopt" => answer[h].ok
      /\ outcome = "rejected" => answer[h].known /\ ~answer[h].ok
      /\ outcome \in {"adopt", "rejected", "client-bug"}
  BY <1>2 DEF Settles, SettleAdopted, PostRejected, PostClientBug, SyncInv, HeadTrue
<1>4. told'[h] = outcome /\ \A j \in Key \ {h} : told'[j] = told[j]
  BY <1>1, <1>2 DEF SyncInv, TypeOK
<1>5. v \in {Verdicts[h], "dropped"} \ {"open"} /\ v \in {"applied", "refused", "dropped"}
  BY <1>3 DEF Verdicts, Verdict
<1>6. Promises' = [Promises EXCEPT ![h] = v]
  <2>1. Promise(h)' = v /\ \A j \in Key \ {h} : Promise(j)' = Promise(j)
    BY <1>3, <1>4 DEF Promise
  <2> QED
    BY <2>1 DEF Promises
<1>7. UNCHANGED <<submitted, FlushedKeys, Verdicts>>
  <2>1. \A j \in Key : Verdict(j)' = Verdict(j)
    BY <1>1 DEF Verdict
  <2> QED
    BY <1>1, <2>1 DEF FlushedKeys, Verdicts
<1>8. Promises[h] = "none" /\ h \in Range(submitted)
  BY <1>1, <1>2 DEF Promises, Promise
<1> HIDE DEF v
<1>9. Promised!Tell(ob.head, v)
  BY <1>2, <1>5, <1>6, <1>7, <1>8 DEF Promised!Tell, Promised!Range, Range, FlushedKeys, Verdicts, Promises
<1> QED
  BY <1>5, <1>9

LEMMA PromisedSubmit ==
    ASSUME SyncInv, NEW k \in Key, Joins(k)
    PROVE  Promised!Submit(k)
<1>1. /\ k \notin Range(submitted) /\ submitted' = Append(submitted, k)
      /\ \/ k \in Flushes /\ direct[k] = "sent" /\ FlushRetried(k)
         \/ direct' = direct /\ k \notin Used
      /\ UNCHANGED <<answer, told>>
  BY JoinTypes DEF SyncInv, server
<1>2. FlushedKeys' = FlushedKeys
  <2>1. CASE direct' = direct
    BY <2>1 DEF FlushedKeys
  <2>2. CASE direct[k] = "sent" /\ FlushRetried(k)
    BY <2>2 DEF FlushRetried, FlushedKeys, SyncInv, TypeOK
  <2> QED
    BY <1>1, <2>1, <2>2
<1>3. \A j \in Key : Verdict(j)' = Verdict(j) /\ Promise(j)' = Promise(j)
  BY <1>1 DEF Verdict, Promise
<1>4. Verdicts' = Verdicts /\ Promises' = Promises
  BY <1>3 DEF Verdicts, Promises
<1> QED
  BY <1>1, <1>2, <1>4 DEF Promised!Submit, Promised!Range, Range, FlushedKeys, Verdicts, Promises

LEMMA PromisedFlush ==
    ASSUME SyncInv, NEW k \in Flushes, Bypasses(k)
    PROVE  Promised!Flush(k) \/ UNCHANGED Promised!vars
<1>1. /\ UNCHANGED <<answer, submitted, told>>
      /\ \A j \in Flushes \ {k} : direct'[j] = direct[j]
      /\ direct'[k] # "no"
      /\ k \notin Used \/ direct[k] # "no"
  BY BypassTypes DEF SyncInv, server
<1>2. FlushedKeys' = FlushedKeys \cup {k}
  BY <1>1 DEF FlushedKeys
<1>3. CASE k \in FlushedKeys
  BY <1>1, <1>2, <1>3, PromisedStutters
<1>4. CASE k \notin FlushedKeys
  <2>1. k \notin Range(submitted)
    BY <1>1, <1>4 DEF FlushedKeys, Used
  <2>2. \A j \in Key : Verdict(j)' = Verdict(j) /\ Promise(j)' = Promise(j)
    BY <1>1 DEF Verdict, Promise
  <2>3. Verdicts' = Verdicts /\ Promises' = Promises
    BY <2>2 DEF Verdicts, Promises
  <2>4. Promised!Flush(k)
    BY <1>1, <1>2, <1>4, <2>1, <2>3 DEF Promised!Flush, Promised!Range, Range, FlushedKeys, Verdicts, Promises
  <2> QED
    BY <2>4
<1> QED
  BY <1>3, <1>4

LEMMA PromisedNext ==
    ASSUME SyncInv, [Next]_vars
    PROVE  [Promised!Next]_(Promised!vars)
<1>1. CASE UNCHANGED vars
  <2>1. UNCHANGED <<submitted, answer, told, direct>>
    BY <1>1 DEF vars, server
  <2> QED
    BY <2>1, PromisedStutters DEF FlushedKeys
<1>2. CASE (\E k \in Key, ok \in BOOLEAN : Process(k, ok))
  BY <1>2, PromisedDecide DEF Promised!Next
<1>3. CASE OtherDevice \/ Tick \/ GetSteps \/ PhaseSteps \/ PumpSteps
  <2>1. UNCHANGED <<submitted, answer, told, direct>>
    BY <1>3
       DEF OtherDevice, Tick, GetSteps, ServeGet, GetAccepted, GetFailed, GetClientBug, DeferredTimer,
           Trigger, PauseEnds, AdoptRead, AdoptReadFails, PhaseSteps, PostIgnored, PostAccepted, PostFailed,
           PostPaused, AdoptPost, AdoptPostFails, Stop, PumpSteps, OutboxTimer, Online, Start, server
  <2> QED
    BY <2>1, PromisedStutters DEF FlushedKeys
<1>4. ASSUME NEW k \in Key, Joins(k) PROVE Promised!Next
  BY <1>4, PromisedSubmit DEF Promised!Next
<1>5. ASSUME NEW k \in Flushes, Bypasses(k) PROVE [Promised!Next]_(Promised!vars)
  BY <1>5, PromisedFlush DEF Promised!Next, Key
<1>6. ASSUME NEW outcome \in Outcomes, Settles(outcome) PROVE Promised!Next
  <2>1. ob.head \in Key
    BY <1>6, SettleTypes DEF SyncInv
  <2> QED
    BY <1>6, <2>1, PromisedTell DEF Promised!Next
<1> QED
  BY <1>1, <1>2, <1>3, <1>4, <1>5, <1>6, Families DEF ServerSteps

\* outbox.ts W-10, W-11: over a network that loses, delays and repeats, through pauses, stops and
\* restarts, every batch gets one verdict, in the order of submission, and its sender is told that one.
THEOREM OutboxImplementsIntents == Spec => KeepsItsPromise
<1>1. Spec => Promised!Init /\ [][Promised!Next]_(Promised!vars)
  BY PromisedInit, PromisedNext, SyncInvariant, PTL DEF Spec
<1> QED
  BY <1>1 DEF KeepsItsPromise, Promised!Spec
=============================================================================
