----------------------------- MODULE GameStore -----------------------------
(***************************************************************************)
(* Whose world a page plays (store.ts, "Identity"): the boot, guests, the  *)
(* sign-in callback, the claim of the guest's world, the park, sign-out,   *)
(* lost sessions and expired guests, for one browser with one account, its *)
(* stored tokens and session cookie, and the server that answers it.       *)
(*                                                                         *)
(* A page may be closed or left at any point; what it sent may still be    *)
(* processed.  A request carries what the browser holds when it is sent: a *)
(* session cookie wins over the guest token (R-13), also on a page that    *)
(* plays as a guest because it could not read its session.                 *)
(*                                                                         *)
(* The client is one record c, and the store's methods are operators on    *)
(* it.  The world epoch only tells requests of the world on screen from    *)
(* older ones, so a request carries the flag `fresh' and #resetWorld       *)
(* clears it in all of them.  Retries and backoffs are requests that may   *)
(* be sent again; snapshots of one world and their order are in Sync.      *)
(***************************************************************************)
EXTENDS Naturals, Sequences, FiniteSets, Functions

CONSTANTS
    Guests,   \* guest tokens, and the worlds made with them
    Batches,  \* batches, by their keys
    Own,      \* the world lazily made for the account
    Session,  \* the credential of a request with the session's cookie
    None

ASSUME GameStoreAssumption ==
    /\ None \notin Guests \cup Batches \cup {Own, Session}
    /\ Guests \cap {Own, Session} = {} /\ Own # Session
    /\ None \notin {"unknown", "guest", "session"}

World == Guests \cup {Own}
Cred == Guests \cup {Session, None}

VARIABLES
    guest,   \* guest[g]: "free", "live", "claimed" or "gone" (deleted, or never received)
    acct,    \* the account's world
    applied, \* <<batch, world>> pairs the server has applied
    wire,    \* requests that were sent and may be processed at any time, any number of times
    made,    \* made[b]: the world on screen when b was made
    carried, \* history: batches pending when the player started a new factory
    hurried, \* history: guests made by a page that had a retry armed too many (c.raced)
    astray,  \* history: batches made by a guest's page whose session was alive (c.misread)
    c        \* the browser: its page (raced is history), its stored tokens and its cookie

server == <<guest, acct, applied>>
history == <<made, carried, hurried, astray>>
vars == <<server, wire, history, c>>

NoRequest == [fresh |-> FALSE, as |-> None, cred |-> None]

\* A page that is not there.  `raced' and `misread' are history.  Raced: it has left one session
\* twice, or started a new factory while a creation's retry was armed, and a guest may replace
\* the one it has.  Misread: it went on as a guest while its session's cookie was alive.
Closed(token, parked, cookie, callback) ==
    [boot |-> "closed", identity |-> "unknown", auth |-> "idle",
     pending |-> FALSE, claim |-> NoRequest, leaving |-> FALSE, awaits |-> FALSE, asking |-> FALSE,
     raced |-> FALSE, misread |-> FALSE, halted |-> FALSE, notFound |-> FALSE,
     fromPark |-> FALSE, shown |-> None,
     guesting |-> NoRequest, again |-> FALSE, get |-> NoRequest, loads |-> {},
     queue |-> <<>>, flight |-> NoRequest, held |-> TRUE,
     token |-> token, parked |-> parked, cookie |-> cookie, callback |-> callback]

Init ==
    /\ guest = [g \in Guests |-> "free"]
    /\ acct = None /\ applied = {} /\ wire = {}
    /\ made = [b \in Batches |-> None] /\ carried = {} /\ hurried = {} /\ astray = {}
    /\ c = Closed(None, None, FALSE, FALSE)

-----------------------------------------------------------------------------
(***************************************************************************)
(* The store's methods, on the client record.                              *)
(***************************************************************************)
Request(x) ==
    [fresh |-> TRUE, as |-> x.identity, cred |-> IF x.cookie THEN Session ELSE x.token]

HasIdentity(x) == x.identity = "session" \/ (x.identity = "guest" /\ x.token # None)

\* Mutant: a sign-in that decides the world does not hold the GET.
WantGetHeld(x) ==
    IF x.halted \/ x.get # NoRequest \/ ~HasIdentity(x) THEN x
    ELSE [x EXCEPT !.get = Request(x)]
WantGet(x) ==
    IF x.halted \/ x.get # NoRequest \/ x.auth # "idle" \/ ~HasIdentity(x) THEN x
    ELSE [x EXCEPT !.get = Request(x)]

CreateGuest(x) ==
    IF x.guesting # NoRequest \/ x.auth # "idle" \/ x.identity = "session" THEN x
    ELSE [x EXCEPT !.guesting = Request(x)]

Resume(x) == IF x.identity = "session" \/ x.token # None THEN WantGet(x) ELSE CreateGuest(x)

\* The outbox sends its head unless it is held or has a request out.
Pump(x) ==
    IF x.held \/ x.flight # NoRequest \/ x.queue = <<>> THEN x ELSE [x EXCEPT !.flight = Request(x)]
StartOutbox(x) == Pump([x EXCEPT !.held = FALSE])

\* Mutant: nothing is dropped.
ClearNothing(x) == x
\* Drops every batch that is not in flight.
ClearOutbox(x) == [x EXCEPT !.queue = IF x.flight = NoRequest THEN <<>> ELSE <<Head(@)>>]

SettleHead(x) == Pump([x EXCEPT !.queue = Tail(@), !.flight = NoRequest])

Outdated(r) == [r EXCEPT !.fresh = FALSE]
ResetWorld(x) ==
    [x EXCEPT !.shown = None, !.halted = FALSE, !.notFound = FALSE,
              !.flight = Outdated(@), !.get = Outdated(@), !.guesting = Outdated(@),
              !.loads = {[l EXCEPT !.fresh = FALSE] : l \in @}]

\* #park: an occupied park is never overwritten, the token then stays where it is.
Park(x) ==
    IF x.parked \notin {None, x.token} THEN x ELSE [x EXCEPT !.parked = x.token, !.token = None]

Unpark(x) ==
    IF x.parked = None \/ x.token \notin {None, x.parked} THEN x
    ELSE [x EXCEPT !.token = x.parked, !.parked = None, !.fromPark = TRUE]

\* #leaveSession: a sign-out, or a 401 under a session.
LeaveSession(x) ==
    Resume(StartOutbox(Unpark(ResetWorld(
        [ClearOutbox(x) EXCEPT !.identity = "guest", !.auth = "idle", !.raced = @ \/ x.leaving]))))

\* #expire: the wall, unless a session or a parked token explains the answer.
Expire(x, api) ==
    IF x.identity = "session" THEN LeaveSession(x)
    ELSE IF x.fromPark /\ api
    THEN CreateGuest(ResetWorld([ClearOutbox(x) EXCEPT !.token = None, !.fromPark = FALSE]))
    ELSE [ClearOutbox(x) EXCEPT !.halted = TRUE]

\* #handle: an answer for a world left behind, or a refusal of another identity, is ignored.
Ignored(x, r) == ~r.fresh \/ r.as # x.identity

\* #handle for the API's own 401 and a 404.
HandleGone(x, r, status) ==
    IF Ignored(x, r) THEN x
    ELSE IF status = 401 THEN Expire(x, TRUE)
    ELSE IF x.notFound THEN Expire(x, FALSE)
    ELSE WantGet([x EXCEPT !.notFound = TRUE])

\* #adopt: the world on screen, if the page still waits for it.
Adopt(x, r, w) ==
    IF ~r.fresh THEN x
    ELSE [x EXCEPT !.shown = w, !.notFound = FALSE,
                   !.fromPark = @ /\ x.identity # "guest"]

\* Its content may not load, and isAdoptable may keep what is shown: it compares versions,
\* whichever worlds they are of.
Adopted(x, r, w) == {x} \cup {Adopt(x, r, v) : v \in {w} \cup ({x.shown} \ {None})}

\* #settleClaim and #afterClaim.
SettleClaim(x) == [x EXCEPT !.pending = FALSE, !.auth = "idle"]
AfterClaim(x) ==
    LET y == StartOutbox(x) IN IF y.shown = None THEN WantGet(y) ELSE y

\* #claim: without a token there is nothing to claim.
Claim(x) ==
    IF x.claim # NoRequest THEN x
    ELSE IF x.token # None THEN [x EXCEPT !.claim = Request(x)]
    ELSE AfterClaim(ResetWorld(ClearOutbox(SettleClaim(x))))

\* #release: everything resumes as it was.
Release(x) ==
    Resume(StartOutbox([x EXCEPT !.auth = "idle"]))

-----------------------------------------------------------------------------
(***************************************************************************)
(* The network and the server.                                             *)
(***************************************************************************)
\* What was sent and may change the server: a guest's GET does not.
Sent(x) ==
    {[kind |-> "post", batch |-> Head(x.queue), cred |-> x.flight.cred] :
        q \in {x.queue} \ (IF x.flight = NoRequest THEN {x.queue} ELSE {})}
    \cup {[kind |-> "get", batch |-> None, cred |-> Session] : r \in {q \in {x.get} : q.cred = Session}}
    \cup {[kind |-> "claim", batch |-> None, cred |-> x.token] : r \in {x.claim} \ {NoRequest}}

\* What the page does and what it has sent by then.
Becomes(x) == c' = x /\ wire' = wire \cup Sent(x)

\* identityAuth: the world a credential reaches.
Reach(cred) ==
    IF cred = Session THEN (IF acct = None THEN Own ELSE acct)
    ELSE IF cred \in Guests /\ guest[cred] = "live" THEN cred ELSE None

\* A session's first request makes its world.
ServerAnswers(cred) == acct' = IF cred = Session THEN Reach(cred) ELSE acct

ProcessWorld(r) ==
    /\ r \in wire /\ r.kind \in {"get", "post"} /\ Reach(r.cred) # None
    /\ ServerAnswers(r.cred)
    /\ applied' = IF r.kind = "get" THEN applied ELSE applied \cup {<<r.batch, Reach(r.cred)>>}
    /\ UNCHANGED <<guest, wire, history, c>>

\* claimGuest for a live guest and an account without a world: see Accounts.
ProcessClaim(r) ==
    /\ r \in wire /\ r.kind = "claim"
    /\ acct = None /\ guest[r.cred] = "live"
    /\ acct' = r.cred
    /\ guest' = [guest EXCEPT ![r.cred] = "claimed"]
    /\ UNCHANGED <<applied, wire, history, c>>

\* deleteStaleGuests: thirty days idle, so never while its creation's answer is being adopted.
DeleteGuest(g) ==
    /\ guest[g] = "live" /\ \A l \in c.loads : l.by # "guest" \/ l.world # g
    /\ guest' = [guest EXCEPT ![g] = "gone"]
    /\ UNCHANGED <<acct, applied, wire, history, c>>

\* The session is revoked or cannot be refreshed any more.
SessionDies ==
    /\ c.cookie
    /\ c' = [c EXCEPT !.cookie = FALSE]
    /\ UNCHANGED <<server, wire, history>>

-----------------------------------------------------------------------------
(***************************************************************************)
(* The page's life: loaded, booted, closed.  The app never stops the store.*)
(***************************************************************************)
Load ==
    /\ c.boot = "closed"
    /\ \E callback \in {c.callback, FALSE} :
        Becomes([c EXCEPT !.boot = "health", !.callback = callback])
    /\ UNCHANGED <<server, history>>

Close ==
    /\ c.boot # "closed"
    /\ Becomes(Closed(c.token, c.parked, c.cookie, FALSE))
    /\ UNCHANGED <<server, history>>

BootHealth ==
    /\ c.boot = "health"
    /\ Becomes([c EXCEPT !.boot = "session"])
    /\ UNCHANGED <<server, history>>

\* A refresh that fails for a moment reads as no session, though the cookie is still there.
\* Claim first: a GET would make the account an empty world and strand the guest's.
BootSession ==
    /\ c.boot = "session"
    /\ \E session \in {c.cookie, FALSE} :
        LET alone == IF session THEN c ELSE Unpark(c)
            x == [alone EXCEPT !.boot = "done", !.callback = FALSE] IN
        Becomes(
            IF c.callback /\ ~session
            THEN [x EXCEPT !.boot = "callback", !.identity = "guest", !.auth = "held"]
            ELSE IF session /\ c.token # None
            THEN Claim([x EXCEPT !.identity = "session", !.pending = TRUE, !.auth = "held"])
            ELSE Resume(StartOutbox(
                [x EXCEPT !.identity = IF session THEN "session" ELSE "guest",
                          !.misread = c.cookie /\ ~session])))
    /\ UNCHANGED <<server, history>>

\* finishSignIn: the server sets the cookie, and the page learns of it, or is closed before.
SignInCommits ==
    /\ c.boot = "callback" /\ ~c.cookie
    /\ c' = [c EXCEPT !.cookie = TRUE]
    /\ UNCHANGED <<server, wire, history>>

SignInSucceeds ==
    /\ c.boot = "callback" /\ c.cookie
    /\ Becomes(Claim([c EXCEPT !.boot = "done", !.identity = "session", !.pending = TRUE]))
    /\ UNCHANGED <<server, history>>

\* Refused, or thrown by anything after the POST, whose cookie may already be stored.
SignInFails ==
    /\ c.boot = "callback"
    /\ Becomes(Release([c EXCEPT !.boot = "done", !.misread = c.cookie]))
    /\ UNCHANGED <<server, history>>

\* beginSignIn leaves the page only with an empty outbox.
BeginSignIn ==
    /\ c.boot = "done" /\ c.identity = "guest" /\ c.auth = "idle"
    /\ c.queue = <<>>
    /\ Becomes(Closed(c.token, c.parked, c.cookie, TRUE))
    /\ UNCHANGED <<server, history>>

-----------------------------------------------------------------------------
(***************************************************************************)
(* Play.                                                                   *)
(***************************************************************************)
Send(b) ==
    /\ c.shown # None /\ made[b] = None
    /\ made' = [made EXCEPT ![b] = c.shown]
    /\ astray' = IF c.misread THEN astray \cup {b} ELSE astray
    /\ Becomes(Pump([c EXCEPT !.queue = Append(@, b)]))
    /\ UNCHANGED <<server, carried, hurried>>

Resend ==
    /\ c.flight = NoRequest /\ c.queue # <<>> /\ ~c.held
    /\ Becomes(Pump(c))
    /\ UNCHANGED <<server, history>>

Trigger ==
    /\ c.boot = "done"
    /\ Becomes(WantGet(c))
    /\ UNCHANGED <<server, history>>

\* Answers to the head's request.  Once the outbox is held none is reported; an accepted batch
\* settles also when its world's content does not load.
PostIgnored ==
    /\ c.flight # NoRequest /\ c.held
    /\ Becomes([c EXCEPT !.flight = NoRequest])
    /\ UNCHANGED <<server, history>>

PostAdopted ==
    /\ c.flight # NoRequest /\ ~c.held
    /\ \E w \in World :
        /\ <<Head(c.queue), w>> \in applied
        /\ w = IF c.flight.cred = Session THEN acct ELSE c.flight.cred
        /\ \E y \in Adopted(c, c.flight, w) : Becomes(SettleHead(y))
    /\ UNCHANGED <<server, history>>

\* A failure, a pause, or a 401 on a guest's request that is not the API's.
PostFailed ==
    /\ c.flight # NoRequest /\ ~c.held
    /\ Becomes(IF c.flight.fresh THEN [c EXCEPT !.flight = NoRequest] ELSE SettleHead(c))
    /\ UNCHANGED <<server, history>>

\* The API answers 401 to a request whose session or guest is gone, and 404 when the guest
\* goes between the two reads of one request.
Refused(r, status) ==
    IF r.as = "session" THEN status = 401 /\ ~c.cookie
    ELSE r.cred # Session /\ Reach(r.cred) = None /\ (status = 404 => r.cred # None)

PostRefused ==
    /\ c.flight # NoRequest /\ ~c.held
    /\ \E status \in {401, 404} :
        /\ Refused(c.flight, status)
        /\ Becomes(SettleHead(HandleGone(c, c.flight, status)))
    /\ UNCHANGED <<server, history>>

\* Answers to the GET; #getting is cleared first.  Its content loads before it is adopted, an
\* answer for a world left behind asks again.  It may have been taken before its guest went.
GetDone == [c EXCEPT !.get = NoRequest, !.awaits = FALSE]

GetLands ==
    LET w == IF c.get.cred = Session THEN Reach(Session) ELSE c.get.cred IN
    /\ c.get # NoRequest /\ w # None
    /\ ServerAnswers(c.get.cred)
    /\ Becomes(IF c.get.fresh
               THEN [GetDone EXCEPT !.loads = @ \cup
                        {[fresh |-> TRUE, world |-> w, by |-> "get", awaited |-> c.awaits]}]
               ELSE WantGet(GetDone))
    /\ UNCHANGED <<guest, applied, history>>

\* A failure, deferred and tried again by Trigger.
GetFailed ==
    /\ c.get # NoRequest
    /\ Becomes(GetDone)
    /\ UNCHANGED <<server, history>>

GetRefused ==
    /\ c.get # NoRequest
    /\ \E status \in {401, 404} :
        /\ Refused(c.get, status)
        /\ Becomes(IF Ignored(GetDone, c.get) THEN WantGet(GetDone)
                   ELSE HandleGone(GetDone, c.get, status))
    /\ UNCHANGED <<server, history>>

\* The content has loaded, or not.  A guest's creation ends with its world's adoption, and a
\* claim's goes on whatever became of it.
AdoptLoad(l) ==
    /\ l \in c.loads
    /\ LET x == [c EXCEPT !.loads = @ \ {l},
                          !.guesting = IF l.by = "guest" THEN NoRequest ELSE @] IN
       \/ l.by = "claim" /\ \E y \in Adopted(x, l, l.world) : Becomes(AfterClaim(y))
       \/ l.by # "claim" /\ \E y \in Adopted(x, l, l.world) : Becomes(y)
       \/ l.by = "get" /\ ~l.fresh /\ Becomes(WantGet(x))
    /\ UNCHANGED <<server, history>>

-----------------------------------------------------------------------------
(***************************************************************************)
(* Guests, claims, sign-out.                                               *)
(***************************************************************************)
\* A guest made for a world left behind is kept only if a guest is still what is wanted.
Wanted(x, r) ==
    \/ r.fresh /\ r.as = x.identity
    \/ x.identity = "guest" /\ x.auth = "idle" /\ x.token = None

\* The guest's creation is out: its world is not being adopted yet.
Waits(x) == x.guesting # NoRequest /\ \A l \in x.loads : l.by # "guest"

GuestLands(g) ==
    /\ Waits(c) /\ guest[g] = "free"
    /\ guest' = [guest EXCEPT ![g] = IF Wanted(c, c.guesting) THEN "live" ELSE "gone"]
    /\ Becomes(
        IF ~Wanted(c, c.guesting) THEN [c EXCEPT !.guesting = NoRequest]
        ELSE [c EXCEPT !.token = g, !.fromPark = FALSE,
                       !.loads = @ \cup {[fresh |-> TRUE, world |-> g, by |-> "guest",
                                         awaited |-> FALSE]}])
    /\ hurried' = IF c.raced THEN hurried \cup {g} ELSE hurried
    /\ UNCHANGED <<acct, applied, made, carried, astray>>

\* A failure is retried after a while, a 429 or another 4xx halts until the player asks again.
\* Two retries armed at once, which only a raced page has, are one.
GuestFails ==
    /\ Waits(c)
    /\ LET x == [c EXCEPT !.guesting = NoRequest] IN
       \/ ~Wanted(c, c.guesting) /\ Becomes(x)
       \/ Wanted(c, c.guesting) /\ (Becomes([x EXCEPT !.again = TRUE])
                                    \/ Becomes([x EXCEPT !.halted = TRUE]))
    /\ UNCHANGED <<server, history>>

\* The retry's timer, which asks nobody whether a guest is still wanted.
GuestRetry ==
    /\ c.again
    /\ Becomes(CreateGuest([c EXCEPT !.again = FALSE]))
    /\ UNCHANGED <<server, history>>

\* newFactory: a creation's armed retry is left to run.
NewFactory ==
    /\ c.halted /\ c.auth = "idle" /\ c.identity # "session"
    /\ Becomes(CreateGuest(ResetWorld([c EXCEPT !.token = None, !.fromPark = FALSE,
                                             !.raced = @ \/ c.again])))
    /\ carried' = carried \cup Range(c.queue)
    /\ UNCHANGED <<server, made, hurried, astray>>

\* What the server says to the claim, once it is decided.
ClaimAnswer(answer) ==
    CASE answer = "claimed"           -> acct = c.token
      [] answer = "already-has-world" -> acct \notin {None, c.token}
      [] answer = "unknown-guest"     -> guest[c.token] # "live"
      [] answer = "unauthorized"      -> ~c.cookie
      [] OTHER                        -> TRUE

\* Mutant: a refused guest's token is dropped.
TokenDropped(x, answer) == [x EXCEPT !.token = None]
TokenAfter(x, answer) == IF answer = "unknown-guest" THEN [x EXCEPT !.token = None] ELSE Park(x)

\* A claimed world is adopted first, while the session is idle and its outbox still held.
ClaimLands(answer) ==
    LET x == [c EXCEPT !.claim = NoRequest]
        load == [fresh |-> TRUE, world |-> acct, by |-> "claim", awaited |-> FALSE] IN
    /\ c.claim # NoRequest
    /\ ClaimAnswer(answer)
    /\ Becomes(
        CASE answer = "claimed" ->
                SettleClaim([x EXCEPT !.token = None, !.loads = @ \cup {load}])
          [] answer = "unauthorized" -> Release([SettleClaim(x) EXCEPT !.identity = "guest"])
          [] answer = "retry" -> [x EXCEPT !.auth = "claiming"]
          [] OTHER ->
                AfterClaim(ResetWorld(ClearOutbox(SettleClaim(TokenAfter(x, answer))))))
    /\ UNCHANGED <<server, history>>

ClaimRetry ==
    /\ c.pending /\ c.auth = "claiming"
    /\ Becomes(Claim(c))
    /\ UNCHANGED <<server, history>>

\* signOut: hold, wait until nothing is in flight, then ask the server.  A claim's adoption is
\* not waited for.
SignOut ==
    /\ c.boot = "done" /\ c.identity = "session" /\ c.auth = "idle" /\ ~c.leaving
    /\ Becomes([c EXCEPT !.auth = "held", !.held = TRUE, !.leaving = TRUE, !.again = FALSE,
                        !.awaits = c.get # NoRequest,
                        !.loads = {[l EXCEPT !.awaited = l.by # "claim"] : l \in @}])
    /\ UNCHANGED <<server, history>>

SignOutAsks ==
    /\ c.leaving /\ ~c.asking /\ ~c.awaits /\ c.flight = NoRequest
    /\ \A l \in c.loads : ~l.awaited
    /\ Becomes([c EXCEPT !.asking = TRUE])
    /\ UNCHANGED <<server, history>>

SignedOut ==
    /\ c.asking
    /\ LET x == [c EXCEPT !.leaving = FALSE, !.asking = FALSE] IN
       \/ Becomes(LeaveSession([x EXCEPT !.cookie = FALSE]))
       \/ Becomes(Release(x))
    /\ UNCHANGED <<server, history>>

-----------------------------------------------------------------------------
Answers == {"claimed", "already-has-world", "unknown-guest", "unauthorized", "client-bug", "retry"}

Next ==
    \/ \E r \in wire : ProcessWorld(r) \/ ProcessClaim(r)
    \/ \E g \in Guests : DeleteGuest(g) \/ GuestLands(g)
    \/ SessionDies
    \/ Load \/ Close \/ BootHealth \/ BootSession
    \/ SignInCommits \/ SignInSucceeds \/ SignInFails \/ BeginSignIn
    \/ \E b \in Batches : Send(b)
    \/ Resend \/ Trigger
    \/ PostIgnored \/ PostAdopted \/ PostFailed \/ PostRefused
    \/ GetLands \/ GetFailed \/ GetRefused
    \/ \E l \in c.loads : AdoptLoad(l)
    \/ GuestFails \/ GuestRetry \/ NewFactory
    \/ \E answer \in Answers : ClaimLands(answer)
    \/ ClaimRetry \/ SignOut \/ SignOutAsks \/ SignedOut

Spec == Init /\ [][Next]_vars

-----------------------------------------------------------------------------
Requests == [fresh : BOOLEAN, as : {None, "unknown", "guest", "session"}, cred : Cred]

TypeOK ==
    /\ guest \in [Guests -> {"free", "live", "claimed", "gone"}]
    /\ acct \in World \cup {None} /\ applied \subseteq Batches \X World
    /\ made \in [Batches -> World \cup {None}]
    /\ c.boot \in {"closed", "health", "session", "callback", "done"}
    /\ c.identity \in {"unknown", "guest", "session"}
    /\ c.auth \in {"idle", "held", "claiming"}
    /\ {c.get, c.flight, c.guesting, c.claim} \subseteq Requests
    /\ c.flight # NoRequest => c.queue # <<>>
    /\ {c.token, c.parked} \subseteq Guests \cup {None}
    /\ c.shown \in World \cup {None}
    /\ c.pending => c.identity = "session" /\ c.auth # "idle"
    /\ c.claim # NoRequest => c.pending /\ c.token # None

\* A batch is applied in the world it was made for and in no other, whatever signs in, signs
\* out, is claimed, parked or deleted meanwhile (W-14).  Three exceptions, all of the code:
\* batches pending at a new factory, guests made by a raced page (TokenNotReplaced), and
\* batches of a page that plays as a guest because it could not read its session (boot's
\* refresh failed for a moment, or a sign-in threw after its cookie was stored): it shows the
\* account's world while the session lives and sends with the guest's token once it is dead.
BatchStaysHome ==
    \A p \in applied : p[2] = made[p[1]] \/ p[1] \in carried \cup astray \/ p[2] \in hurried

\* The strict form.  store.ts #expire: "Batches made for the lost world must never reach a new
\* one (newFactory)"; #leaveSession: "The account's batches never reach the guest's world".
\* The code holds neither in the cases BatchStaysHome excepts; no run checks it.
BatchReachesItsWorld == \A p \in applied : p[2] = made[p[1]]

\* "W-16: moved, never lost": the token of every guest world that is still a guest's is in
\* the browser, stored or parked, except after a new factory and for a raced page's guests.
WorldNeverLost ==
    carried = {} =>
        \A g \in Guests \ hurried : guest[g] = "live" => g \in {c.token, c.parked}

\* A page that needs a guest is making one or will try again, or stands behind the wall whose
\* button does: no failure, late answer or refused claim leaves it waiting for nobody (the
\* same two exceptions).
GuestOnItsWay ==
    /\ c.boot = "done" /\ c.identity = "guest" /\ c.auth = "idle" /\ c.token = None
    /\ ~c.raced /\ carried = {}
    => c.guesting # NoRequest \/ c.again \/ c.halted

\* S-6: "at most one guest token across both keys", so that no park is ever found occupied by
\* another token and no unparked token finds one in its place.
OneToken == c.token = None \/ c.parked = None

\* store.ts #park: "A token is never dropped unless it is safely in the park".  A 401 that ends
\* the session while a sign-out waits makes a guest at once; its retry's timer is still armed
\* when the sign-out's own end makes another, and then replaces the token of that one.  A new
\* factory, too, leaves the retry armed beside the creation it starts.
TokenNotReplaced == [][c.token # None => c'.token \in {None, c.token}]_vars

\* A guest's world is claimed before the account can get an empty one instead: "a GET first
\* would make the account an empty world and strand the guest's".  Except on a page that could
\* not read its session: it does not claim, its GET carries the cookie all the same (R-13), and
\* the account gets the empty world.
NothingStranded ==
    [][\A r \in wire' \ wire :
        r.kind # "claim" /\ r.cred = Session /\ acct = None
        => c'.token = None \/ guest[c'.token] # "live" \/ c'.misread]_vars

\* store.ts #park, #unpark, #expire: the page never loses the one token of a world, never holds
\* two of them, and never waits for a guest that nobody makes.
GuestSafe == TypeOK /\ WorldNeverLost /\ OneToken /\ GuestOnItsWay
=============================================================================
