-------------------------------- MODULE Sync --------------------------------
(***************************************************************************)
(* The sync layer of one page and the world it plays: the outbox           *)
(* (outbox.ts), the GET loop, the handler of every response and the        *)
(* adoption of snapshots (store.ts), over a network that loses, delays and *)
(* repeats requests.  The identity does not change here.                   *)
(*                                                                         *)
(* The server is what Worlds shows of it: a key's first request that is    *)
(* processed decides it, every later one gets the same answer.  A request  *)
(* the client gave up on may still be processed, now or much later: a key  *)
(* in `sent' may reach the server at any time, any number of times.        *)
(* Time is left out: a timer that is set may fire, a pause that is set may *)
(* end.  GETs on a boundary, on focus, on visible and on online may happen *)
(* whenever nothing is in flight.                                          *)
(***************************************************************************)
EXTENDS Naturals, Sequences, FiniteSets, Functions

CONSTANTS
    Spends,     \* keys of intents that go through the outbox, numbered as they are made
    Flushes,    \* keys of tap flushes sent with keepalive
    None,
    MaxReads,   \* bound: GET bodies whose content is loading
    MaxEvents   \* bound: keys used, other devices' batches and clock ticks together

Key == Spends \cup Flushes

ASSUME SyncAssumption ==
    /\ None \notin Key /\ Spends \cap Flushes = {} /\ Spends \subseteq Nat
    /\ MaxReads \in Nat /\ MaxEvents \in Nat

VARIABLES
    version,   \* the server: the world's state_version
    others,    \* batches of other devices so far
    clock,     \* the server's clock
    answer,    \* answer[k]: NoAnswer, or the answer stored for key k
    sent,      \* keys of which a request was sent
    submitted, \* history: keys in the order they were enqueued
    ob,        \* the outbox: [queue, head, phase, timer]
    told,      \* told[k]: how the promise of enqueue(k) settled
    direct,    \* direct[k]: a keepalive flush under way
    get,       \* the GET: [phase, body] and the deferred GET timer
    reads,     \* GET bodies whose content is loading
    snapshot,  \* the adopted snapshot
    settling,  \* #settlingId
    missed,    \* history: batches that settled although their adoption failed
    paused,    \* #pausedUntil is in the future
    stopped

server == <<version, others, clock, answer>>
view == <<snapshot, settling, missed>>
vars == <<server, sent, submitted, ob, told, direct, get, reads, view, paused, stopped>>

NoAnswer == [ok |-> FALSE, version |-> 0, at |-> 0, known |-> FALSE]
Answer(ok, v, at) == [ok |-> ok, version |-> v, at |-> at, known |-> TRUE]
Body(v, at, from) == [version |-> v, at |-> at, from |-> from]
NoSnapshot == Body(0, 0, None)
Queued == Range(ob.queue) \cup ({ob.head} \ {None})

Used == Range(submitted) \cup {k \in Flushes : direct[k] # "no"}
WithinBound == Cardinality(Used) + others + clock < MaxEvents

Init ==
    /\ version = 1 /\ others = 0 /\ clock = 0
    /\ answer = [k \in Key |-> NoAnswer]
    /\ sent = {} /\ submitted = <<>>
    /\ ob = [queue |-> <<>>, head |-> None, phase |-> "idle", timer |-> FALSE]
    /\ told = [k \in Key |-> "none"]
    /\ direct = [k \in Flushes |-> "no"]
    /\ get = [phase |-> "no", body |-> NoSnapshot, deferred |-> FALSE]
    /\ reads = {} /\ snapshot = NoSnapshot /\ settling = None /\ missed = {}
    /\ paused = FALSE /\ stopped = TRUE

-----------------------------------------------------------------------------
(***************************************************************************)
(* The server.  A request's clock reading may be older than its commit.    *)
(***************************************************************************)
Stamps == {at \in {clock - 1, clock} : at >= 0}

Process(k, ok) ==
    /\ k \in sent /\ ~answer[k].known
    /\ version' = IF ok THEN version + 1 ELSE version
    /\ \E at \in Stamps : answer' = [answer EXCEPT ![k] = Answer(ok, version', at)]
    /\ UNCHANGED <<others, clock, sent, submitted, ob, told, direct, get, reads, view, paused, stopped>>

OtherDevice ==
    /\ WithinBound
    /\ others' = others + 1 /\ version' = version + 1
    /\ UNCHANGED <<clock, answer, sent, submitted, ob, told, direct, get, reads, view, paused, stopped>>

Tick ==
    /\ WithinBound
    /\ clock' = clock + 1
    /\ UNCHANGED <<version, others, answer, sent, submitted, ob, told, direct, get, reads, view, paused, stopped>>

ServeGet ==
    /\ get.phase = "sent"
    /\ \E at \in Stamps : get' = [get EXCEPT !.phase = "served", !.body = Body(version, at, None)]
    /\ UNCHANGED <<server, sent, submitted, ob, told, direct, reads, view, paused, stopped>>

-----------------------------------------------------------------------------
(***************************************************************************)
(* The two loops: pump() sends the next batch, wantGet() the next GET.     *)
(***************************************************************************)
Pump(o, hold, off) ==
    IF off \/ o.phase # "idle" \/ o.timer \/ (o.head = None /\ o.queue = <<>>) THEN o
    ELSE LET p == IF o.head = None
                  THEN [o EXCEPT !.head = Head(o.queue), !.queue = Tail(o.queue)]
                  ELSE o IN
         IF hold THEN [p EXCEPT !.timer = TRUE] ELSE [p EXCEPT !.phase = "sent"]

\* Every change of the outbox ends in pump(); what it sends is on the network at once.
Outbox(o, hold, off) ==
    /\ ob' = Pump(o, hold, off)
    /\ sent' = IF ob'.phase = "sent" THEN sent \cup {ob'.head} ELSE sent

WantGet(g, hold, off) ==
    IF off \/ g.phase # "no" THEN g
    ELSE IF hold THEN [g EXCEPT !.deferred = TRUE]
    ELSE [g EXCEPT !.phase = "sent", !.deferred = FALSE]

\* The head is settled: its promise resolves, and the view's settling mark goes with it.
SettleHead(outcome, g) ==
    /\ told' = [told EXCEPT ![ob.head] = outcome]
    /\ settling' = IF settling = ob.head THEN None ELSE settling
    /\ Outbox([ob EXCEPT !.head = None, !.phase = "idle"], paused, stopped)
    /\ get' = g

Fresh(k) == k \notin Used /\ WithinBound

Enqueued(k) ==
    /\ submitted' = Append(submitted, k)
    /\ Outbox([ob EXCEPT !.queue = Append(@, k)], paused, stopped)

-----------------------------------------------------------------------------
(***************************************************************************)
(* Intents.  A batch may be queued while stopped or paused.                *)
(***************************************************************************)
Send(k) ==
    /\ k \in Spends /\ Fresh(k)
    /\ \A j \in Spends : j < k => j \in Used
    /\ Enqueued(k)
    /\ UNCHANGED <<server, told, direct, get, reads, view, paused, stopped>>

\* flushTaps({keepalive}): straight out, unless a pause holds.
FlushKeepalive(k) ==
    /\ ~stopped /\ k \in Flushes /\ Fresh(k)
    /\ IF paused
       THEN Enqueued(k) /\ UNCHANGED direct
       ELSE /\ direct' = [direct EXCEPT ![k] = "sent"]
            /\ sent' = sent \cup {k}
            /\ UNCHANGED <<submitted, ob>>
    /\ UNCHANGED <<server, told, get, reads, view, paused, stopped>>

-----------------------------------------------------------------------------
(***************************************************************************)
(* Answers to the outbox's request.  One that lands after stop() settles   *)
(* nothing: the head is kept for start().                                  *)
(***************************************************************************)
PostIgnored ==
    /\ ob.phase = "sent" /\ stopped
    /\ ob' = [ob EXCEPT !.phase = "idle"]
    /\ UNCHANGED <<server, sent, submitted, told, direct, get, reads, view, paused, stopped>>

PostAccepted ==
    /\ ob.phase = "sent" /\ ~stopped /\ answer[ob.head].ok
    /\ ob' = [ob EXCEPT !.phase = "adopting"]
    /\ UNCHANGED <<server, sent, submitted, told, direct, get, reads, view, paused, stopped>>

PostRejected ==
    /\ ob.phase = "sent" /\ ~stopped /\ answer[ob.head].known /\ ~answer[ob.head].ok
    /\ SettleHead("rejected", WantGet(get, paused, stopped))
    /\ UNCHANGED <<server, submitted, direct, reads, snapshot, missed, paused, stopped>>

\* An unexpected 4xx, whatever became of the batch: dropped and re-synced.
PostClientBug ==
    /\ ob.phase = "sent" /\ ~stopped
    /\ SettleHead("client-bug", WantGet(get, paused, stopped))
    /\ UNCHANGED <<server, submitted, direct, reads, snapshot, missed, paused, stopped>>

\* Mutant: a failed batch goes to the back of the queue.
PostFailedRequeue ==
    /\ ob.phase = "sent" /\ ~stopped
    /\ Outbox([ob EXCEPT !.phase = "idle", !.head = None, !.queue = Append(@, ob.head)], paused, stopped)
    /\ UNCHANGED <<server, submitted, told, direct, get, reads, view, paused, stopped>>

\* Mutant: the retry is not armed.
PostFailedForgets ==
    /\ ob.phase = "sent" /\ ~stopped
    /\ ob' = [ob EXCEPT !.phase = "idle"]
    /\ UNCHANGED <<server, sent, submitted, told, direct, get, reads, view, paused, stopped>>

\* A network error or a 5xx: the same batch again, under the same key, after a backoff.
PostFailed ==
    /\ ob.phase = "sent" /\ ~stopped
    /\ ob' = [ob EXCEPT !.phase = "idle", !.timer = TRUE]
    /\ UNCHANGED <<server, sent, submitted, told, direct, get, reads, view, paused, stopped>>

\* 429 or 503: one pause for the outbox and the GETs.
PostPaused ==
    /\ ob.phase = "sent" /\ ~stopped
    /\ ob' = [ob EXCEPT !.phase = "idle", !.timer = TRUE]
    /\ paused' = TRUE
    /\ UNCHANGED <<server, sent, submitted, told, direct, get, reads, view, stopped>>

-----------------------------------------------------------------------------
(***************************************************************************)
(* Adoption: load the content, then compare with what is shown.            *)
(***************************************************************************)
AdoptableByTime(b) == snapshot = NoSnapshot \/ b.at >= snapshot.at
IsAdoptable(b) ==
    \/ snapshot = NoSnapshot
    \/ b.version > snapshot.version
    \/ b.version = snapshot.version /\ b.at >= snapshot.at

\* A good response makes a deferred GET moot, unless it waits out a pause.
Adopted(b) ==
    /\ snapshot' = IF IsAdoptable(b) THEN b ELSE snapshot
    /\ get' = [get EXCEPT !.deferred = @ /\ paused]

PostBody(k) == Body(answer[k].version, answer[k].at, k)

\* Mutant: the mark is never set.
SettlingNever(k, b) == settling
SettlingOf(k, b) == IF IsAdoptable(b) THEN k ELSE settling

AdoptPost ==
    /\ ob.phase = "adopting" /\ ~stopped
    /\ Adopted(PostBody(ob.head))
    /\ settling' = SettlingOf(ob.head, PostBody(ob.head))
    /\ ob' = [ob EXCEPT !.phase = "adopted"]
    /\ UNCHANGED <<server, sent, submitted, told, direct, reads, missed, paused, stopped>>

\* The content does not load, or the store was stopped meanwhile.  The batch settles anyway.
AdoptPostFails ==
    /\ ob.phase = "adopting"
    /\ get' = [get EXCEPT !.deferred = @ \/ ~stopped]
    /\ missed' = missed \cup {ob.head}
    /\ ob' = [ob EXCEPT !.phase = "adopted"]
    /\ UNCHANGED <<server, sent, submitted, told, direct, reads, snapshot, settling, paused, stopped>>

SettleAdopted ==
    /\ ob.phase = "adopted"
    /\ SettleHead("adopt", get)
    /\ UNCHANGED <<server, submitted, direct, reads, snapshot, missed, paused, stopped>>

-----------------------------------------------------------------------------
(***************************************************************************)
(* Answers to a keepalive flush.                                           *)
(***************************************************************************)
FlushAccepted(k) ==
    /\ direct[k] = "sent" /\ ~stopped /\ answer[k].ok
    /\ direct' = [direct EXCEPT ![k] = "adopting"]
    /\ UNCHANGED <<server, sent, submitted, ob, told, get, reads, view, paused, stopped>>

FlushAdopted(k) ==
    /\ direct[k] = "adopting"
    /\ direct' = [direct EXCEPT ![k] = "done"]
    /\ \/ ~stopped /\ Adopted(PostBody(k))
       \/ get' = [get EXCEPT !.deferred = @ \/ ~stopped] /\ UNCHANGED snapshot
    /\ UNCHANGED <<server, sent, submitted, ob, told, reads, settling, missed, paused, stopped>>

\* Rejected, or an unexpected 4xx: a re-sync.
FlushRefused(k) ==
    /\ direct[k] = "sent" /\ ~stopped
    /\ direct' = [direct EXCEPT ![k] = "done"]
    /\ get' = WantGet(get, paused, stopped)
    /\ UNCHANGED <<server, sent, submitted, ob, told, reads, view, paused, stopped>>

\* A failure or a pause: the outbox takes the batch over, under the same key.
FlushRetried(k) ==
    /\ direct[k] = "sent" /\ ~stopped
    /\ direct' = [direct EXCEPT ![k] = "done"]
    /\ paused' \in {paused, TRUE}
    /\ submitted' = Append(submitted, k)
    /\ Outbox([ob EXCEPT !.queue = Append(@, k)], paused', stopped)
    /\ UNCHANGED <<server, told, get, reads, view, stopped>>

FlushIgnored(k) ==
    /\ direct[k] = "sent" /\ stopped
    /\ direct' = [direct EXCEPT ![k] = "done"]
    /\ UNCHANGED <<server, sent, submitted, ob, told, get, reads, view, paused, stopped>>

-----------------------------------------------------------------------------
(***************************************************************************)
(* Answers to a GET.  #getting is cleared before the adoption's content    *)
(* load, so several reads may be loading.                                  *)
(***************************************************************************)
GetIdle == [get EXCEPT !.phase = "no", !.body = NoSnapshot]

GetAccepted ==
    /\ get.phase = "served" /\ Cardinality(reads) < MaxReads
    /\ get' = GetIdle
    /\ reads' = IF stopped THEN reads ELSE reads \cup {get.body}
    /\ UNCHANGED <<server, sent, submitted, ob, told, direct, view, paused, stopped>>

GetFailed ==
    /\ get.phase # "no"
    /\ get' = [GetIdle EXCEPT !.deferred = @ \/ ~stopped]
    /\ paused' \in {paused, paused \/ ~stopped}
    /\ UNCHANGED <<server, sent, submitted, ob, told, direct, reads, view, stopped>>

\* An unexpected 4xx stops the polling until a trigger comes.
GetClientBug ==
    /\ get.phase # "no"
    /\ get' = GetIdle
    /\ UNCHANGED <<server, sent, submitted, ob, told, direct, reads, view, paused, stopped>>

AdoptRead(b) ==
    /\ b \in reads /\ ~stopped
    /\ reads' = reads \ {b}
    /\ Adopted(b)
    /\ UNCHANGED <<server, sent, submitted, ob, told, direct, settling, missed, paused, stopped>>

AdoptReadFails(b) ==
    /\ b \in reads
    /\ reads' = reads \ {b}
    /\ get' = [get EXCEPT !.deferred = @ \/ ~stopped]
    /\ UNCHANGED <<server, sent, submitted, ob, told, direct, view, paused, stopped>>

-----------------------------------------------------------------------------
(***************************************************************************)
(* Timers, triggers and the store's lifecycle.                             *)
(***************************************************************************)
OutboxTimer ==
    /\ ob.timer
    /\ Outbox([ob EXCEPT !.timer = FALSE], paused, stopped)
    /\ UNCHANGED <<server, submitted, told, direct, get, reads, view, paused, stopped>>

DeferredTimer ==
    /\ get.deferred
    /\ get' = WantGet([get EXCEPT !.deferred = FALSE], paused, stopped)
    /\ UNCHANGED <<server, sent, submitted, ob, told, direct, reads, view, paused, stopped>>

\* Boundary, focus, visible.
Trigger ==
    /\ ~stopped
    /\ get' = WantGet(get, paused, stopped)
    /\ UNCHANGED <<server, sent, submitted, ob, told, direct, reads, view, paused, stopped>>

\* onOnline: the outbox is kicked, and a deferred GET goes now unless a pause holds.
Online ==
    /\ ~stopped
    /\ Outbox([ob EXCEPT !.timer = FALSE], paused, stopped)
    /\ get' = WantGet(get, paused, stopped)
    /\ UNCHANGED <<server, submitted, told, direct, reads, view, paused, stopped>>

PauseEnds ==
    /\ paused
    /\ paused' = FALSE
    /\ UNCHANGED <<server, sent, submitted, ob, told, direct, get, reads, view, stopped>>

Stop ==
    /\ ~stopped
    /\ stopped' = TRUE
    /\ ob' = [ob EXCEPT !.timer = FALSE]
    /\ get' = [get EXCEPT !.deferred = FALSE]
    /\ UNCHANGED <<server, sent, submitted, told, direct, reads, view, paused>>

\* The end of boot, and every later start(): the outbox runs and the world is read.
Start ==
    /\ stopped
    /\ stopped' = FALSE
    /\ Outbox(ob, paused, FALSE)
    /\ get' = WantGet(get, paused, FALSE)
    /\ UNCHANGED <<server, submitted, told, direct, reads, view, paused>>

-----------------------------------------------------------------------------
Next ==
    \/ \E k \in Key, ok \in BOOLEAN : Process(k, ok)
    \/ OtherDevice \/ Tick \/ ServeGet
    \/ \E k \in Spends : Send(k)
    \/ PostIgnored \/ PostAccepted \/ PostRejected \/ PostClientBug \/ PostFailed \/ PostPaused
    \/ AdoptPost \/ AdoptPostFails \/ SettleAdopted
    \/ \E k \in Flushes :
        \/ FlushKeepalive(k) \/ FlushAccepted(k) \/ FlushAdopted(k)
        \/ FlushRefused(k) \/ FlushRetried(k) \/ FlushIgnored(k)
    \/ GetAccepted \/ GetFailed \/ GetClientBug
    \/ \E b \in reads : AdoptRead(b) \/ AdoptReadFails(b)
    \/ OutboxTimer \/ DeferredTimer \/ Trigger \/ Online \/ PauseEnds
    \/ Stop \/ Start

\* Timers fire and pauses end; when a GET's answer renews the pause the outbox's timer, due
\* when the old one ended, has fired before.  A request that is sent again and again is processed once, and
\* once the answer exists it gets through one of the times it is asked for.
Fairness ==
    /\ SF_vars(OutboxTimer) /\ WF_vars(PauseEnds)
    /\ \A k \in Key : WF_vars(\E ok \in BOOLEAN : Process(k, ok))
    /\ SF_vars(PostAccepted) /\ SF_vars(PostRejected)
    /\ WF_vars(AdoptPost \/ AdoptPostFails) /\ WF_vars(SettleAdopted)

Spec == Init /\ [][Next]_vars
FairSpec == Spec /\ Fairness

-----------------------------------------------------------------------------
Bodies == [version : Nat, at : Nat, from : Key \cup {None}]

TypeOK ==
    /\ version \in Nat \ {0} /\ others \in Nat /\ clock \in Nat
    /\ answer \in [Key -> [ok : BOOLEAN, version : Nat, at : Nat, known : BOOLEAN]]
    /\ sent \subseteq Key /\ submitted \in Seq(Key)
    /\ ob \in [queue : Seq(Key), head : Key \cup {None}, timer : BOOLEAN,
               phase : {"idle", "sent", "adopting", "adopted"}]
    /\ (ob.head = None \/ ob.timer) => ob.phase = "idle"
    /\ told \in [Key -> {"none", "adopt", "rejected", "client-bug"}]
    /\ direct \in [Flushes -> {"no", "sent", "adopting", "done"}]
    /\ get \in [phase : {"no", "sent", "served"}, body : Bodies, deferred : BOOLEAN]
    /\ reads \subseteq Bodies /\ snapshot \in Bodies
    /\ settling \in Key \cup {None} /\ missed \subseteq Key
    /\ paused \in BOOLEAN /\ stopped \in BOOLEAN
    /\ stopped => ~ob.timer /\ ~get.deferred

\* The outbox keeps its promise: see Intents.  client-bug is the abstract "dropped".
Verdict(k) == IF answer[k].ok THEN "applied" ELSE IF answer[k].known THEN "refused" ELSE "open"
Promise(k) ==
    CASE told[k] = "adopt" -> "applied" [] told[k] = "rejected" -> "refused"
      [] told[k] = "client-bug" -> "dropped" [] OTHER -> "none"
Promised ==
    INSTANCE Intents WITH
        flushed <- {k \in Flushes : direct[k] # "no"},
        verdict <- [k \in Key |-> Verdict(k)],
        told <- [k \in Key |-> Promise(k)]
KeepsItsPromise == Promised!Spec

\* What the page lists as pending, and what its snapshot already counts.
Listed(k) == k \in Queued /\ k # settling
Counted(k) == snapshot.version >= answer[k].version

\* An applied batch is on the page: still listed as pending, or counted by the snapshot.
\* store.ts send(): "this resolves with the response's snapshot already in the view".
ListedOrCounted ==
    \A k \in Range(submitted) :
        answer[k].ok => Listed(k) \/ Counted(k) \/ k \in missed \/ told[k] = "client-bug"

\* ... and not both because of one response: "its actions are in the snapshot already, so the
\* view stops counting it as pending from that adoption" (store.ts, #settlingId).
NotCountedTwice == \A k \in Key : Listed(k) => snapshot.from # k

\* What the page shows never goes back, whatever order answers land and load in.
NeverGoesBack ==
    [][snapshot # NoSnapshot =>
        \/ snapshot'.version > snapshot.version
        \/ snapshot'.version = snapshot.version /\ snapshot'.at >= snapshot.at]_vars

\* In a page that keeps running every queued batch is settled in the end, behind any number
\* of failures, pauses and restarts.
EverySpendSettles ==
    <>[]~stopped => \A k \in Key : k \in Range(submitted) ~> told[k] # "none"

\* store.ts #adopt, #settlingId: an applied batch is on the page once, neither in no place while
\* its content loads nor in two places because of one response.
SpendsCounted == TypeOK /\ ListedOrCounted /\ NotCountedTwice
=============================================================================
