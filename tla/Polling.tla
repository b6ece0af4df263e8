------------------------------ MODULE Polling ------------------------------
(***************************************************************************)
(* apps/web/src/sync/store.ts: what makes the page ask for its world       *)
(* again. There is one boundary timer (#arm, with nextFetchAt of           *)
(* refetch.ts), one deferred GET (#defer) and one GET in flight; the page  *)
(* is hidden, shown, focused, paused and stopped; and every answer of a    *)
(* GET or a POST leaves a timer behind, or none. Sync says what an answer  *)
(* means, this module who asks next. The content of an answer is cached,   *)
(* or its load fails at once.                                              *)
(***************************************************************************)
EXTENDS Integers

CONSTANTS
    MaxVersion, MaxReads   \* bounds: batches applied, answers given

NoSnapshot == [version |-> 0, at |-> 0, moving |-> FALSE]

VARIABLES
    world,     \* at the server: its version, and how many answers it has given
    page,      \* running, visible, paused (429, 503), boundary and deferred timers, snapshot
    get, post, \* the GET and the POST in flight: phase and body
    silence    \* history: what took the last re-trigger away, or "none"

polling == <<world, page, get, post, silence>>

Idle == [phase |-> "no", body |-> NoSnapshot]
Sent == [phase |-> "sent", body |-> NoSnapshot]
NoWait == "no"

PollingInit(runs) ==
    /\ world = [version |-> 1, at |-> 0]
    /\ page = [running |-> runs, visible |-> TRUE, paused |-> FALSE, boundary |-> FALSE,
               deferred |-> NoWait, snapshot |-> NoSnapshot]
    /\ get = IF runs THEN Sent ELSE Idle
    /\ post = Idle /\ silence = "none"

----------------------------------------------------------------------------

\* nextFetchAt: a snapshot at its plateau, or without a boundary, has no timer.
NextFetch(s) == s.version > 0 /\ s.moving

Arm(q) == [q EXCEPT !.boundary = q.running /\ q.visible /\ NextFetch(q.snapshot)]

\* One deferred GET, forced as soon as one of those it stands for was.
Defer(q, force) ==
    IF q.running
    THEN [q EXCEPT !.deferred = IF force \/ @ = "forced" THEN "forced" ELSE "weak"] ELSE q

\* `fresh`: the snapshot is younger than MIN_REPOLL_MS.
Asks(q, force, fresh) ==
    /\ q.running /\ get.phase = "no" /\ ~q.paused
    /\ force \/ q.snapshot.version = 0 \/ ~fresh

WantGet(q, force, fresh) ==
    /\ page' = IF Asks(q, force, fresh) THEN [q EXCEPT !.deferred = NoWait]
               ELSE IF q.paused /\ get.phase = "no" THEN Defer(q, force) ELSE q
    /\ get' = IF Asks(q, force, fresh) THEN Sent ELSE get

Adoptable(old, new) ==
    \/ old.version = 0 \/ new.version > old.version
    \/ new.version = old.version /\ new.at >= old.at

\* A pending retry is moot after any good answer, bar one waiting out a pause.
Heard(q) == [q EXCEPT !.deferred = IF q.paused THEN @ ELSE NoWait]

\* Mutant of Adopted: only what is adopted arms the timer again.
AdoptedOnly(q, body, cause) ==
    IF Adoptable(q.snapshot, body) THEN Arm([Heard(q) EXCEPT !.snapshot = body]) ELSE Heard(q)

\* #adopt, and #runGet's re-arm from the snapshot a GET lost to.
Adopted(q, body, cause) ==
    IF Adoptable(q.snapshot, body) THEN Arm([Heard(q) EXCEPT !.snapshot = body])
    ELSE IF cause = "get" THEN Arm(Heard(q)) ELSE Heard(q)

\* A weak deferred GET asks nothing of a young snapshot.
Waiting(q) == q.boundary \/ q.deferred = "forced" \/ (q.deferred # NoWait /\ q.snapshot.version = 0)

\* The last re-trigger has gone, and why.
Silenced(cause) ==
    silence' = IF Waiting(page') \/ get'.phase # "no" THEN "none"
               ELSE IF Waiting(page) \/ get.phase # "no" THEN cause ELSE silence

----------------------------------------------------------------------------
\* The server, and the network.

Answer(moving) == [version |-> world.version, at |-> world.at + 1, moving |-> moving]

GetServed(moving) ==
    /\ get.phase = "sent" /\ world.at < MaxReads
    /\ get' = [phase |-> "served", body |-> Answer(moving)]
    /\ world' = [world EXCEPT !.at = @ + 1]
    /\ UNCHANGED <<page, post, silence>>

\* A batch: applied, or rejected by the engine.
PostSent ==
    /\ page.running /\ page.snapshot.version > 0 /\ post.phase = "no"
    /\ post' = Sent
    /\ UNCHANGED <<world, page, get, silence>>

PostServed(moving) ==
    /\ post.phase = "sent" /\ world.version < MaxVersion /\ world.at < MaxReads
    /\ world' = [version |-> world.version + 1, at |-> world.at + 1]
    /\ post' = [phase |-> "served", body |-> [Answer(moving) EXCEPT !.version = @ + 1]]
    /\ UNCHANGED <<page, get, silence>>

----------------------------------------------------------------------------
\* Answers to the GET: #getting ends before anything else.

GetAnswered(q) ==
    /\ page' = IF page.running THEN q ELSE page
    /\ get' = Idle

GetAdopted ==
    /\ get.phase = "served"
    /\ GetAnswered(Adopted(page, get.body, "get"))
    /\ UNCHANGED <<world, post>>
    /\ Silenced("nothing to wait for")

\* No answer, a 5xx, or one whose content does not load.
GetFailed ==
    /\ get.phase # "no"
    /\ GetAnswered(Defer(page, TRUE))
    /\ UNCHANGED <<world, post>>
    /\ Silenced("stopped")

\* 429 and 503.
GetPaused ==
    /\ get.phase = "sent"
    /\ GetAnswered(Defer([page EXCEPT !.paused = TRUE], TRUE))
    /\ UNCHANGED <<world, post>>
    /\ Silenced("stopped")

\* Another 4xx: polling stops until focus, visible or online.
GetClientBug ==
    /\ get.phase = "sent"
    /\ GetAnswered([page EXCEPT !.boundary = FALSE])
    /\ UNCHANGED <<world, post>>
    /\ Silenced("client bug")

----------------------------------------------------------------------------
\* Answers to the POST. A stopped outbox reports nothing and keeps its batch.

PostAdopted ==
    /\ post.phase = "served" /\ page.running
    /\ page' = Adopted(page, post.body, "post")
    /\ post' = Idle
    /\ UNCHANGED <<world, get>>
    /\ Silenced("stale answer")

PostAdoptFails ==
    /\ post.phase = "served" /\ page.running
    /\ page' = Defer(page, TRUE) /\ post' = Idle
    /\ UNCHANGED <<world, get>>
    /\ Silenced("stopped")

\* Rejected, or a client bug: the page reads what the world is.
PostRefused ==
    /\ post.phase = "sent" /\ page.running
    /\ WantGet(page, TRUE, FALSE) /\ post' = Idle
    /\ UNCHANGED world
    /\ Silenced("stopped")

\* The outbox waits and sends the batch again.
PostPaused ==
    /\ post.phase = "sent" /\ page.running /\ ~page.paused
    /\ page' = [page EXCEPT !.paused = TRUE]
    /\ UNCHANGED <<world, get, post, silence>>

----------------------------------------------------------------------------
\* Timers and triggers.

BoundaryFires ==
    /\ page.boundary
    /\ WantGet([page EXCEPT !.boundary = FALSE], TRUE, FALSE)
    /\ UNCHANGED <<world, post>>
    /\ Silenced("stopped")

DeferredFires(fresh) ==
    /\ page.deferred # NoWait
    /\ WantGet([page EXCEPT !.deferred = NoWait], page.deferred = "forced", fresh)
    /\ UNCHANGED <<world, post>>
    /\ Silenced("stopped")

PauseEnds ==
    /\ page.paused
    /\ page' = [page EXCEPT !.paused = FALSE]
    /\ UNCHANGED <<world, get, post, silence>>

Hide ==
    /\ page.visible
    /\ page' = [page EXCEPT !.visible = FALSE, !.boundary = FALSE]
    /\ UNCHANGED <<world, get, post>>
    /\ Silenced("hidden")

\* A GET if the snapshot is old, or else its timer.
Show(fresh) ==
    LET shown == [page EXCEPT !.visible = TRUE]
    IN  /\ ~page.visible
        /\ \/ /\ Asks(shown, FALSE, fresh) \/ get.phase # "no"
              /\ WantGet(shown, FALSE, fresh)
           \/ /\ ~Asks(shown, FALSE, fresh) /\ get.phase = "no"
              /\ page' = Arm(IF page.paused THEN Defer(shown, FALSE) ELSE shown)
              /\ UNCHANGED get
        /\ UNCHANGED <<world, post>>
        /\ Silenced("shown")

Focus(fresh) ==
    /\ WantGet(page, FALSE, fresh)
    /\ UNCHANGED <<world, post>>
    /\ Silenced("stopped")

\* A deferred GET goes now, unless a pause holds.
Online(fresh) ==
    LET now == page.deferred # NoWait /\ ~page.paused
    IN  /\ WantGet(IF now THEN [page EXCEPT !.deferred = NoWait] ELSE page,
                   now /\ page.deferred = "forced", fresh)
        /\ UNCHANGED <<world, post>>
        /\ Silenced("online")

Stop ==
    /\ page.running
    /\ page' = [page EXCEPT !.running = FALSE, !.boundary = FALSE, !.deferred = NoWait]
    /\ UNCHANGED <<world, get, post>>
    /\ Silenced("stopped")

Start ==
    /\ ~page.running
    /\ WantGet([page EXCEPT !.running = TRUE], TRUE, FALSE)
    /\ UNCHANGED <<world, post>>
    /\ Silenced("stopped")

PollingNext ==
    \/ \E moving \in BOOLEAN : GetServed(moving) \/ PostServed(moving)
    \/ GetAdopted \/ GetFailed \/ GetPaused \/ GetClientBug
    \/ PostSent \/ PostAdopted \/ PostAdoptFails \/ PostRefused \/ PostPaused
    \/ BoundaryFires \/ PauseEnds \/ Hide \/ Stop \/ Start
    \/ \E fresh \in BOOLEAN : DeferredFires(fresh) \/ Show(fresh) \/ Focus(fresh) \/ Online(fresh)

----------------------------------------------------------------------------

\* Somebody will ask again.
Asking == Waiting(page) \/ get.phase # "no"

\* There is something to ask for: a world not loaded yet, or one that moves on.
Live == page.running /\ page.visible /\ (page.snapshot.version = 0 \/ page.snapshot.moving)

\* store.ts:1265-1285, 1465-1484: a page in sight of a world that moves has a timer or a GET,
\* through lost, late and refused answers, pauses, hiding and restarts in any order, unless a
\* client bug stopped the polling or a stale answer to a POST took the last retry away.
PollsOn == Live => Asking \/ silence \in {"client bug", "stale answer"}

\* store.ts:1281-1283: nothing else re-arms, for a failure's retry is its re-trigger.
\* The code does not hold it; no run checks it.
KeepsPolling == Live => Asking \/ silence = "client bug"
=============================================================================
