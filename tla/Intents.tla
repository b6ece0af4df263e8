------------------------------ MODULE Intents ------------------------------
(***************************************************************************)
(* What the outbox promises (apps/web/src/sync/outbox.ts, W-10 and W-11),  *)
(* with no network in it: intents get one verdict each, in the order they  *)
(* were submitted, and their sender is told that verdict.  An intent whose *)
(* sender was told it is dropped has no promise left: it may still be      *)
(* applied, and later intents do not wait for it.  A keepalive tap flush   *)
(* (Q-11) bypasses the queue, and so the order.                            *)
(***************************************************************************)
EXTENDS Naturals, Sequences, Functions

CONSTANT Key  \* idempotency keys: one per intent

VARIABLES
    submitted, \* the keys of queued intents, in order
    flushed,   \* the keys sent around the queue
    verdict,   \* verdict[k]: "open", "applied" or "refused"
    told       \* told[k]: "none", "applied", "refused" or "dropped"

vars == <<submitted, flushed, verdict, told>>

Init ==
    /\ submitted = <<>> /\ flushed = {}
    /\ verdict = [k \in Key |-> "open"]
    /\ told = [k \in Key |-> "none"]

Submit(k) ==
    /\ k \notin Range(submitted)
    /\ submitted' = Append(submitted, k)
    /\ UNCHANGED <<flushed, verdict, told>>

Flush(k) ==
    /\ k \notin Range(submitted) \cup flushed
    /\ flushed' = flushed \cup {k}
    /\ UNCHANGED <<submitted, verdict, told>>

\* Whatever was submitted before k is decided or given up.
InTurn(k) ==
    \E n \in DOMAIN submitted :
        /\ submitted[n] = k
        /\ \A m \in 1 .. (n - 1) :
            verdict[submitted[m]] # "open" \/ told[submitted[m]] = "dropped"

Decide(k, v) ==
    /\ verdict[k] = "open"
    /\ k \in flushed \/ InTurn(k)
    /\ verdict' = [verdict EXCEPT ![k] = v]
    /\ UNCHANGED <<submitted, flushed, told>>

Tell(k, v) ==
    /\ k \in Range(submitted) /\ told[k] = "none"
    /\ v \in {verdict[k], "dropped"} \ {"open"}
    /\ told' = [told EXCEPT ![k] = v]
    /\ UNCHANGED <<submitted, flushed, verdict>>

Next ==
    \E k \in Key :
        \/ Submit(k) \/ Flush(k)
        \/ \E v \in {"applied", "refused"} : Decide(k, v)
        \/ \E v \in {"applied", "refused", "dropped"} : Tell(k, v)

Spec == Init /\ [][Next]_vars
=============================================================================
