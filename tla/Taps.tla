-------------------------------- MODULE Taps --------------------------------
(***************************************************************************)
(* The crank: apps/web/src/sync/store.ts with the accumulator of taps.ts.  *)
(* A press counts one tap and repeats while it is held; one timer flushes  *)
(* what is pending as a batch of its own; hiding the page, signing in and  *)
(* a stop end the hold. Timers may fire late and never early, as in a      *)
(* throttled tab. The unit of time is TAP_REPEAT_MS.                       *)
(***************************************************************************)
EXTENDS Integers

CONSTANTS
    AfterRelease, Every,   \* TAP_FLUSH_AFTER_RELEASE_MS, TAP_FLUSH_EVERY_MS
    PerUnit,               \* taps the engine grants a unit of elapsed time
    MaxClock               \* bound: the last instant

\* constants.ts:20-24; the engine grants a tap each half of TAP_REPEAT_MS (economy.ts:16).
ASSUME Pace == AfterRelease \in Nat /\ Every \in Nat /\ PerUnit \in Nat /\ PerUnit >= 2

Largest(a, b) == IF a > b THEN a ELSE b

Unset == -1        \* a timer that is not set
Forever == -Every - 1   \* lastFlushAt before the first flush

VARIABLES
    now, running,
    hold,      \* holding, pressAt, when the repeat is due
    taps,      \* the accumulator: pending, origin; lastTapAt, lastFlushAt, when the flush is due
    batch,     \* the last batch handed over: count, clientElapsedMs, by, the gap to the one before
    ledger     \* history: taps made and sent, when the last hold ended

crank == <<now, running, hold, taps, batch, ledger>>

NoBatch == [count |-> 0, elapsed |-> 0, by |-> "nobody", gap |-> Every]

TapsInit ==
    /\ now = 0 /\ running = TRUE
    /\ hold = [on |-> FALSE, pressAt |-> 0, repeat |-> Unset]
    /\ taps = [pending |-> 0, origin |-> 0, lastTapAt |-> Unset, lastFlushAt |-> Forever, due |-> Unset]
    /\ batch = NoBatch
    /\ ledger = [made |-> 0, sent |-> 0, idleSince |-> 0]

----------------------------------------------------------------------------

Tapped(t) == [t EXCEPT !.pending = @ + 1, !.lastTapAt = now]

\* #armFlush only ever moves the flush earlier.
ArmFlush(t, due) == IF t.due # Unset /\ t.due <= due THEN t ELSE [t EXCEPT !.due = due]

\* #take, under a hold or not: what it leaves of the accumulator and the timer.
Taken(t, h) ==
    LET cleared == [t EXCEPT !.due = Unset]
        flushed == IF t.pending = 0 THEN cleared
                   ELSE [cleared EXCEPT !.pending = 0, !.origin = now, !.lastFlushAt = now]
    IN  IF h.on
        THEN ArmFlush(flushed, Largest(Largest(flushed.lastFlushAt, h.pressAt), now) + Every)
        ELSE flushed

\* The batch a take hands to the outbox, or straight to the network.
HandOver(t, by) ==
    /\ batch' = IF t.pending = 0 THEN batch
                ELSE [count |-> t.pending, elapsed |-> now - t.origin, by |-> by,
                      gap |-> now - t.lastFlushAt]
    /\ ledger' = [ledger EXCEPT !.sent = @ + t.pending, !.idleSince = IF hold.on THEN now ELSE @]

LetGo == [hold EXCEPT !.on = FALSE, !.repeat = Unset]

\* Mutant of ReleaseDue: the flush 300 ms after a release, as W-12 has it.
ReleaseSoon(t) == now + AfterRelease

ReleaseDue(t) == Largest(now + AfterRelease, t.lastFlushAt + Every)

\* releaseTap's own part of the accumulator.
Released(t) ==
    IF t.pending = 0 THEN [t EXCEPT !.due = Unset] ELSE ArmFlush(t, ReleaseDue(t))

----------------------------------------------------------------------------

\* pressTap: two presses are never the same instant.
Press ==
    /\ running /\ ~hold.on /\ taps.lastTapAt < now
    /\ hold' = [on |-> TRUE, pressAt |-> now, repeat |-> now + 1]
    /\ taps' = ArmFlush(Tapped(taps), Largest(taps.lastFlushAt, now) + Every)
    /\ ledger' = [ledger EXCEPT !.made = @ + 1]
    /\ UNCHANGED <<now, running, batch>>

Release ==
    /\ hold.on
    /\ hold' = LetGo
    /\ taps' = Released(taps)
    /\ ledger' = [ledger EXCEPT !.idleSince = now]
    /\ UNCHANGED <<now, running, batch>>

RepeatFires ==
    /\ hold.repeat # Unset /\ hold.repeat <= now
    /\ taps' = Tapped(taps)
    /\ hold' = [hold EXCEPT !.repeat = now + 1]
    /\ ledger' = [ledger EXCEPT !.made = @ + 1]
    /\ UNCHANGED <<now, running, batch>>

FlushFires ==
    /\ taps.due # Unset /\ taps.due <= now
    /\ taps' = Taken(taps, hold)
    /\ HandOver(taps, "timer")
    /\ UNCHANGED <<now, running, hold>>

\* Hidden, or pagehide: the hold ends and the taps go with keepalive, past the floor.
Leave ==
    /\ running
    /\ hold' = LetGo
    /\ taps' = Taken(IF hold.on THEN Released(taps) ELSE taps, LetGo)
    /\ HandOver(taps, "keepalive")
    /\ UNCHANGED <<now, running>>

\* beginSignIn and #hold: the taps belong to the world they were made in.
SignIn ==
    /\ running
    /\ hold' = LetGo
    /\ taps' = Taken(taps, LetGo)
    /\ HandOver(taps, "sign-in")
    /\ UNCHANGED <<now, running>>

Halt ==
    /\ running
    /\ running' = FALSE
    /\ hold' = LetGo
    /\ taps' = [taps EXCEPT !.due = Unset]
    /\ UNCHANGED <<now, batch, ledger>>

\* start: the taps that stop() left pending still go out.
Restart ==
    /\ ~running
    /\ running' = TRUE
    /\ taps' = IF taps.pending > 0 /\ ~hold.on
               THEN ArmFlush(taps, Largest(now, taps.lastFlushAt + Every)) ELSE taps
    /\ ledger' = [ledger EXCEPT !.idleSince = now]
    /\ UNCHANGED <<now, hold, batch>>

Later ==
    /\ now < MaxClock
    /\ now' = now + 1
    /\ UNCHANGED <<running, hold, taps, batch, ledger>>

TapsNext ==
    \/ Press \/ Release \/ RepeatFires \/ FlushFires \/ Leave \/ SignIn \/ Halt \/ Restart \/ Later

----------------------------------------------------------------------------

\* A tap is pending or handed over, never both and never neither.
EveryTapCounts == ledger.made = ledger.sent + taps.pending

\* Pending taps have a flush on its way: while held within a period of now, and once let go
\* within a period of the release.
FlushOnItsWay ==
    running /\ taps.pending > 0 =>
        /\ taps.due # Unset
        /\ taps.due <= (IF hold.on THEN now ELSE ledger.idleSince) + Every

\* What the player's hand did is within what the engine grants for the elapsed time, but for
\* the one tap of a flush in the instant of the one before it.
NothingDiscarded ==
    batch.count <= PerUnit * batch.elapsed + (IF batch.elapsed = 0 THEN 1 ELSE 0)

\* store.ts:444-540, taps.ts: presses, releases, late timers, hiding, signing in and restarts in
\* any order lose no tap, leave none without a flush, and earn no discard by the engine.
TapsKept == EveryTapCounts /\ FlushOnItsWay /\ NothingDiscarded

\* store.ts:503-504 and Q-11: a flush by the timer comes a period after any flush before it,
\* whichever press, release or restart set the timer, and whatever went out in between.
FlushesApart == batch.by = "timer" => batch.gap >= Every

\* store.ts:444-540: every tap counts once, soon, and not too soon for the engine to grant it.
CrankHolds == TapsKept /\ FlushesApart
=============================================================================
