------------------------------ MODULE Accounts ------------------------------
(***************************************************************************)
(* Who owns a world: identity resolution and lazy creation (identity.ts,   *)
(* createPlayerWithWorld), claiming a guest's world (claimGuest), batches  *)
(* that touch their player (applyActions) and the deletion of stale guests *)
(* (deleteStaleGuests), run by concurrent Postgres transactions.           *)
(*                                                                         *)
(* The transactions are READ COMMITTED: a statement sees committed rows, a *)
(* writer waits for the row's lock and then looks at the newest committed  *)
(* version, and an insert or update of a unique key waits for the          *)
(* transaction that wrote the same key.  What a transaction writes becomes *)
(* visible when it commits; its locks are released when it ends.  When two *)
(* transactions wait for each other Postgres aborts one of them.           *)
(*                                                                         *)
(* A guest's player has the id of its token, an account's lazily created   *)
(* player the id of its account.                                           *)
(***************************************************************************)
EXTENDS Naturals, FiniteSets

CONSTANTS
    Users,   \* SuperTokens user ids
    Guests,  \* guest tokens that were ever issued
    Tx,      \* transactions: requests, and at most one cleanup
    Cleaner, \* the transaction of the cleanup job
    None     \* null, or no credential

ASSUME IdAssumption ==
    /\ Users \cap Guests = {} /\ None \notin Users \cup Guests
    /\ Cleaner \in Tx

PlayerId == Users \cup Guests

VARIABLES
    player,  \* committed players rows: NoPlayer or [user, token, claimed, stale]
    world,   \* world[p]: p's main world is committed
    tx       \* what each transaction is doing

vars == <<player, world, tx>>

NoPlayer == [user |-> None, token |-> None, claimed |-> None, stale |-> FALSE]
Player(user, token, claimed, stale) ==
    [user |-> user, token |-> token, claimed |-> claimed, stale |-> stale]
Exists(p) == player[p] # NoPlayer

OwnedBy(u) == {p \in PlayerId : Exists(p) /\ player[p].user = u}
HasToken(g) == {p \in PlayerId : Exists(p) /\ player[p].token = g}

\* pc: where the transaction is; holds: its locks; todo: rows its statement has left.
Fresh == [pc |-> "new", user |-> None, token |-> None, pid |-> None,
          holds |-> {}, todo |-> {}, out |-> "none"]

PlayerLock(p) == <<"players", p>>
WorldLock(p) == <<"player_worlds", p>>
UserKey(u) == <<"supertokens_user_id", u>>

Free(t, lock) == \A s \in Tx \ {t} : lock \notin tx[s].holds

Goto(t, pc) == [tx EXCEPT ![t].pc = pc]
Acquire(t, lock, pc) == [tx EXCEPT ![t].pc = pc, ![t].holds = @ \cup {lock}]
Finish(t, out) == [tx EXCEPT ![t].pc = "done", ![t].out = out, ![t].holds = {}, ![t].todo = {}]

Init ==
    /\ \E issued \in SUBSET Guests, stale \in SUBSET Guests :
        player = [p \in PlayerId |->
                    IF p \in issued THEN Player(None, p, None, p \in stale) ELSE NoPlayer]
    /\ world = [p \in PlayerId |-> Exists(p)]
    /\ tx = [t \in Tx |-> Fresh]

-----------------------------------------------------------------------------
(***************************************************************************)
(* POST /api/guests: one transaction of two inserts nobody else can touch. *)
(***************************************************************************)
CreateGuest(g) ==
    /\ ~Exists(g)
    /\ \A p \in PlayerId : player[p].claimed # g   \* tokens are random: never issued twice
    /\ \A t \in Tx : tx[t].pc # "new" => tx[t].token # g
    /\ player' = [player EXCEPT ![g] = Player(None, g, None, FALSE)]
    /\ world' = [world EXCEPT ![g] = TRUE]
    /\ UNCHANGED tx

-----------------------------------------------------------------------------
(***************************************************************************)
(* POST /api/actions.  Authentication: a session wins over a guest token.  *)
(***************************************************************************)
AuthenticateByToken(u, g) == IF g # None THEN HasToken(g) ELSE OwnedBy(u)
Authenticate(u, g) == IF u # None THEN OwnedBy(u) ELSE HasToken(g)

Act(t, u, g) ==
    LET found == Authenticate(u, g)
        begun == [Fresh EXCEPT !.user = u, !.token = g] IN
    /\ tx[t].pc = "new" /\ t # Cleaner
    /\ u # None \/ g # None
    /\ tx' = [tx EXCEPT ![t] =
                IF found # {}
                THEN [begun EXCEPT !.pc = "lock world", !.pid = CHOOSE p \in found : TRUE]
                ELSE IF u # None THEN [begun EXCEPT !.pc = "create"]
                ELSE [begun EXCEPT !.pc = "done", !.out = "401"]]
    /\ UNCHANGED <<player, world>>

\* createPlayerWithWorld for an account: the insert of the player row.  A unique
\* violation is caught outside the transaction, and the winner's player is read.
InsertPlayer(t) ==
    LET u == tx[t].user IN
    /\ tx[t].pc = "create"
    /\ Free(t, UserKey(u))
    /\ tx' = IF OwnedBy(u) # {}
             THEN [tx EXCEPT ![t].pc = "lock world", ![t].pid = CHOOSE p \in OwnedBy(u) : TRUE]
             ELSE Acquire(t, UserKey(u), "commit create")
    /\ UNCHANGED <<player, world>>

CommitCreate(t) ==
    LET u == tx[t].user IN
    /\ tx[t].pc = "commit create"
    /\ player' = [player EXCEPT ![u] = Player(u, None, None, FALSE)]
    /\ world' = [world EXCEPT ![u] = TRUE]
    /\ tx' = [tx EXCEPT ![t].pc = "lock world", ![t].pid = u, ![t].holds = {}]

\* applyActions: select ... for update.  A world deleted meanwhile is a 404.
LockWorld(t) ==
    LET p == tx[t].pid IN
    /\ tx[t].pc = "lock world"
    /\ Free(t, WorldLock(p))
    /\ tx' = IF world[p] THEN Acquire(t, WorldLock(p), "batch") ELSE Finish(t, "404")
    /\ UNCHANGED <<player, world>>

\* Mutant: the early return leaves the transaction open.
RejectHolding(t) ==
    /\ tx[t].pc = "batch"
    /\ tx' = [tx EXCEPT ![t].pc = "done", ![t].out = "409"]
    /\ UNCHANGED <<player, world>>

\* The batch is rejected, or its key was seen: nothing about the player changes.
RejectBatch(t) ==
    /\ tx[t].pc = "batch"
    /\ tx' = Finish(t, "409")
    /\ UNCHANGED <<player, world>>

AcceptBatch(t) ==
    /\ tx[t].pc = "batch"
    /\ tx' = Goto(t, "touch player")
    /\ UNCHANGED <<player, world>>

\* update players set last_seen_at, which takes the player's row lock.
TouchPlayer(t) ==
    /\ tx[t].pc = "touch player"
    /\ Free(t, PlayerLock(tx[t].pid))
    /\ tx' = Acquire(t, PlayerLock(tx[t].pid), "commit batch")
    /\ UNCHANGED <<player, world>>

CommitBatch(t) ==
    LET p == tx[t].pid IN
    /\ tx[t].pc = "commit batch"
    /\ player' = IF Exists(p) THEN [player EXCEPT ![p].stale = FALSE] ELSE player
    /\ tx' = Finish(t, "200")
    /\ UNCHANGED world

-----------------------------------------------------------------------------
(***************************************************************************)
(* POST /api/auth/claim: attach a guest's player to an account.            *)
(***************************************************************************)
\* The account's own player, if any, decides; a repeat of its own claim succeeds.
OwnAnswer(own, g) == IF player[own].claimed = g THEN "claimed" ELSE "already-has-world"

Claim(t, u, g) ==
    LET begun == [Fresh EXCEPT !.user = u, !.token = g] IN
    /\ tx[t].pc = "new" /\ t # Cleaner
    /\ tx' = [tx EXCEPT ![t] =
                IF OwnedBy(u) = {}
                THEN [begun EXCEPT !.pc = "lock guest"]
                ELSE LET own == CHOOSE p \in OwnedBy(u) : TRUE IN
                     [begun EXCEPT !.pc = "done", !.pid = own, !.out = OwnAnswer(own, g)]]
    /\ UNCHANGED <<player, world>>

\* select ... where guest_token = g and supertokens_user_id is null for update: the
\* token of a claimed or deleted guest is gone for good.
LockGuest(t) ==
    LET g == tx[t].token IN
    /\ tx[t].pc = "lock guest"
    /\ Free(t, PlayerLock(g))
    /\ tx' = IF HasToken(g) # {} THEN Acquire(t, PlayerLock(g), "attach") ELSE Finish(t, "unknown-guest")
    /\ UNCHANGED <<player, world>>

\* Mutant: without the unique key on supertokens_user_id.
AttachAnyway(t) ==
    /\ tx[t].pc = "attach"
    /\ tx' = Goto(t, "commit claim")
    /\ UNCHANGED <<player, world>>

\* update players set supertokens_user_id = u: a unique violation rolls back.
AttachGuest(t) ==
    LET u == tx[t].user IN
    /\ tx[t].pc = "attach"
    /\ Free(t, UserKey(u))
    /\ tx' = IF OwnedBy(u) # {}
             THEN Finish(t, "already-has-world")
             ELSE Acquire(t, UserKey(u), "commit claim")
    /\ UNCHANGED <<player, world>>

\* The row a committed claim leaves.
Claimed(u, g) == [player[g] EXCEPT !.user = u, !.token = None, !.claimed = g]

CommitClaim(t) ==
    LET u == tx[t].user  g == tx[t].token IN
    /\ tx[t].pc = "commit claim"
    /\ player' = [player EXCEPT ![g] = Claimed(u, g)]
    /\ tx' = [Finish(t, "claimed") EXCEPT ![t].pid = g]
    /\ UNCHANGED world

-----------------------------------------------------------------------------
(***************************************************************************)
(* deleteStaleGuests.  The delete collects its rows from one snapshot,     *)
(* locks them one by one and looks again at each before deleting it.       *)
(***************************************************************************)
StaleGuest(p) == Exists(p) /\ player[p].user = None /\ player[p].stale

StartDelete ==
    /\ tx[Cleaner].pc = "new"
    /\ tx' = [tx EXCEPT ![Cleaner].pc = "delete",
                        ![Cleaner].todo = {p \in PlayerId : StaleGuest(p)}]
    /\ UNCHANGED <<player, world>>

\* The where clause, evaluated again on the newest row once its lock is held.
RecheckExists(p) == Exists(p)
Recheck(p) == StaleGuest(p)

DeleteRow(p) ==
    /\ tx[Cleaner].pc = "delete" /\ p \in tx[Cleaner].todo
    /\ Free(Cleaner, PlayerLock(p))
    /\ tx' = [tx EXCEPT ![Cleaner].todo = @ \ {p},
                        ![Cleaner].holds = IF Recheck(p) THEN @ \cup {PlayerLock(p)} ELSE @]
    /\ UNCHANGED <<player, world>>

Doomed == {p \in PlayerId : PlayerLock(p) \in tx[Cleaner].holds}

\* on delete cascade runs when the statement has deleted its rows.
StartCascade ==
    /\ tx[Cleaner].pc = "delete" /\ tx[Cleaner].todo = {}
    /\ tx' = [tx EXCEPT ![Cleaner].pc = "cascade", ![Cleaner].todo = Doomed]
    /\ UNCHANGED <<player, world>>

CascadeWorld(p) ==
    /\ tx[Cleaner].pc = "cascade" /\ p \in tx[Cleaner].todo
    /\ Free(Cleaner, WorldLock(p))
    /\ tx' = [tx EXCEPT ![Cleaner].todo = @ \ {p}, ![Cleaner].holds = @ \cup {WorldLock(p)}]
    /\ UNCHANGED <<player, world>>

CommitDelete ==
    /\ tx[Cleaner].pc = "cascade" /\ tx[Cleaner].todo = {}
    /\ player' = [p \in PlayerId |-> IF p \in Doomed THEN NoPlayer ELSE player[p]]
    /\ world' = [p \in PlayerId |-> world[p] /\ p \notin Doomed]
    /\ tx' = Finish(Cleaner, "deleted")

-----------------------------------------------------------------------------
(***************************************************************************)
(* Waiting.  The lock a transaction's current statement wants, and the     *)
(* deadlock detector: of two transactions that wait for each other, either *)
(* is aborted.                                                             *)
(***************************************************************************)
Wants(t) ==
    CASE tx[t].pc = "lock world"   -> {WorldLock(tx[t].pid)}
      [] tx[t].pc = "touch player" -> {PlayerLock(tx[t].pid)}
      [] tx[t].pc = "lock guest"   -> {PlayerLock(tx[t].token)}
      [] tx[t].pc \in {"create", "attach"} -> {UserKey(tx[t].user)}
      [] tx[t].pc = "delete"       -> {PlayerLock(p) : p \in tx[t].todo}
      [] tx[t].pc = "cascade"      -> {WorldLock(p) : p \in tx[t].todo}
      [] OTHER                     -> {}

WaitsFor(t, s) == Wants(t) \cap tx[s].holds # {}

AbortVictim(t) ==
    /\ \E s \in Tx \ {t} : WaitsFor(t, s) /\ WaitsFor(s, t)
    /\ tx' = Finish(t, "deadlock")
    /\ UNCHANGED <<player, world>>

Running(t) == tx[t].pc \notin {"new", "done"}

\* A statement times out, the connection drops or the process dies: a rollback.
Abort(t) ==
    /\ Running(t)
    /\ tx' = Finish(t, "500")
    /\ UNCHANGED <<player, world>>

-----------------------------------------------------------------------------
Step(t) ==
    \/ InsertPlayer(t) \/ CommitCreate(t)
    \/ LockWorld(t) \/ RejectBatch(t) \/ AcceptBatch(t) \/ TouchPlayer(t) \/ CommitBatch(t)
    \/ LockGuest(t) \/ AttachGuest(t) \/ CommitClaim(t)
    \/ AbortVictim(t)
CleanerStep ==
    \/ StartDelete
    \/ \E p \in PlayerId : DeleteRow(p) \/ CascadeWorld(p)
    \/ StartCascade \/ CommitDelete

Finished ==
    /\ \A t \in Tx : tx[t].pc = "done"
    /\ \A g \in Guests : ~ENABLED CreateGuest(g)
    /\ UNCHANGED vars

Next ==
    \/ \E g \in Guests : CreateGuest(g)
    \/ \E t \in Tx :
        \/ \E u \in Users \cup {None}, g \in Guests \cup {None} : Act(t, u, g)
        \/ \E u \in Users, g \in Guests : Claim(t, u, g)
        \/ Step(t) \/ Abort(t)
    \/ CleanerStep
    \/ Finished

\* Postgres runs every statement it has accepted, and wakes whoever waited for a lock.
Fairness ==
    /\ \A t \in Tx : WF_vars(Step(t))
    /\ WF_vars(CleanerStep)

Spec == Init /\ [][Next]_vars
FairSpec == Spec /\ Fairness

-----------------------------------------------------------------------------
Rows ==
    {NoPlayer}
    \cup [user : {None}, token : Guests, claimed : {None}, stale : BOOLEAN]
    \cup [user : Users, token : {None}, claimed : Guests \cup {None}, stale : BOOLEAN]

\* Every row has exactly one credential (the table's check), and a committed player has a
\* committed world.
TypeOK ==
    /\ player \in [PlayerId -> Rows]
    /\ world = [p \in PlayerId |-> Exists(p)]
    /\ \A t \in Tx :
        /\ tx[t].user \in Users \cup {None} /\ tx[t].token \in Guests \cup {None}
        /\ tx[t].pid \in PlayerId \cup {None}
        /\ tx[t].todo \subseteq PlayerId

\* However lazy creation and claims race, an account ends with one player, and a guest's
\* token is redeemed by one account.
OneWorldPerAccount ==
    /\ \A u \in Users : Cardinality(OwnedBy(u)) <= 1
    /\ \A g \in Guests : Cardinality({p \in PlayerId : player[p].claimed = g}) <= 1

\* What a claim is told stays true: a claimed guest is that account's from then on; an
\* account told it has a world has one it did not get from this guest; a guest reported
\* unknown cannot be claimed by anyone any more.
ClaimAnswersTrue ==
    \A t \in Tx :
        LET u == tx[t].user  g == tx[t].token IN
        /\ tx[t].out = "claimed" => player[g].user = u /\ player[g].claimed = g
        /\ tx[t].out = "already-has-world" => \E p \in OwnedBy(u) : player[p].claimed # g
        /\ tx[t].out = "unknown-guest" => HasToken(g) = {}

\* A batch lands in the world of whoever sent it: a session's in its account's one world,
\* a guest's in the world its token was issued for, even if it is claimed on the way.
BatchReachesOwner ==
    \A t \in Tx : tx[t].out \in {"200", "409"} =>
        /\ tx[t].user # None => player[tx[t].pid].user = tx[t].user
        /\ tx[t].user = None => tx[t].pid = tx[t].token

\* An account's player and world are never deleted, not even when the claim commits while
\* the cleanup is waiting for the row.
AccountsKept ==
    [][\A p \in PlayerId : Exists(p) /\ player[p].user # None =>
            player'[p].user = player[p].user /\ world'[p]]_vars

\* A guest whose batch has committed is not deleted by a cleanup already under way.
FreshGuestsKept ==
    [][\A p \in PlayerId : Exists(p) /\ ~player[p].stale => player'[p] # NoPlayer]_vars

\* Whoever waits for a lock gets it or is told: every request and the cleanup end.
EveryoneAnswered == \A t \in Tx : Running(t) ~> tx[t].pc = "done"

\* apps/api/README.md: "The same account repeating the same claim (its first response lost)
\* gets 200 with the world it claimed".
\* The code does not hold it; no run checks it.
RepeatedClaimSucceeds ==
    \A t, s \in Tx :
        /\ tx[t].user = tx[s].user /\ tx[t].token = tx[s].token
        /\ tx[t].out = "claimed"
        => tx[s].out # "unknown-guest"

\* worlds.ts createPlayer, claim: whatever races, who owns a world is settled once, and a
\* claim's answer never turns false.
OwnersRight == TypeOK /\ OneWorldPerAccount /\ ClaimAnswersTrue

\* cleanup.ts deleteStaleGuests takes neither an account nor a guest that has come back, though
\* it chose its victims before it had their rows.
OnlyStaleGuestsDeleted == AccountsKept /\ FreshGuestsKept
=============================================================================
