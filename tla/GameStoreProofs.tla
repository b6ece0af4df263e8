-------------------------- MODULE GameStoreProofs --------------------------
(***************************************************************************)
(* Every batch reaches the world it was made for, and no guest's token is  *)
(* lost, whatever signs in, signs out, is claimed, parked or deleted, for  *)
(* any number of guests and batches.                                       *)
(*                                                                         *)
(* The store's methods are operators on the page's record x, so the        *)
(* invariant is a predicate of such a record and of its surroundings s,    *)
(* and there is a lemma for each method: what it changes, and that it      *)
(* keeps the core of the invariant.                                        *)
(***************************************************************************)
EXTENDS GameStore, TLAPS

Fields == {"boot", "identity", "auth", "pending", "claim", "leaving", "awaits", "asking", "raced",
           "misread", "halted", "notFound", "fromPark", "shown", "guesting", "again", "get",
           "loads", "queue", "flight", "held", "token", "parked", "cookie", "callback"}
Flags == {"pending", "leaving", "awaits", "asking", "raced", "misread", "halted", "notFound",
          "fromPark", "again", "held", "cookie", "callback"}

\* y is x in every field but those of S.
Same(x, y, S) == \A f \in Fields \ S : y[f] = x[f]

Loads == [fresh : BOOLEAN, world : World, by : {"get", "guest", "claim"}, awaited : BOOLEAN]

\* What the page's fields hold.
Page(x) ==
    /\ DOMAIN x = Fields
    /\ x.boot \in {"closed", "health", "session", "callback", "done"}
    /\ x.identity \in {"unknown", "guest", "session"}
    /\ x.auth \in {"idle", "held", "claiming"}
    /\ \A f \in Flags : x[f] \in BOOLEAN
    /\ {x.claim, x.guesting, x.get, x.flight} \subseteq Requests
    /\ {x.token, x.parked} \subseteq Guests \cup {None}
    /\ x.shown \in World \cup {None}
    /\ x.loads \subseteq Loads
    /\ x.queue \in Seq(Batches)

\* What is around a page: the server's worlds, the claims that were sent, and the history.
Around ==
    [guest |-> guest, acct |-> acct, made |-> made, carried |-> carried, hurried |-> hurried,
     astray |-> astray,
     claims |-> {g \in Guests : \E r \in wire : r.kind = "claim" /\ r.cred = g}]

Surrounds(s) ==
    /\ s.guest \in [Guests -> {"free", "live", "claimed", "gone"}]
    /\ s.acct \in World \cup {None} /\ s.made \in [Batches -> World \cup {None}]
    /\ s.carried \cup s.astray \subseteq Batches /\ s.hurried \subseteq Guests
    /\ s.acct \in Guests => s.guest[s.acct] = "claimed"
    /\ s.claims \subseteq Guests /\ \A g \in s.claims \cup s.hurried : s.guest[g] # "free"
    /\ \A b \in s.astray : s.made[b] # None

-----------------------------------------------------------------------------
(***************************************************************************)
(* The core of the invariant.                                              *)
(***************************************************************************)
\* Guests may replace each other on a raced page once it has none or a hurried one.
Loose(x, s) == x.raced /\ x.identity = "guest" /\ x.token \in s.hurried \cup {None}

\* The world of the page's identity.
Owner(x, s) == IF x.identity = "session" THEN s.acct ELSE x.token

\* A misread page may have the account's world, too, but then it has a guest, or had one until
\* the player started a new factory.
IsOwn(x, w, s) ==
    IF x.misread THEN x.token # None \/ (s.carried # {} /\ ~x.fromPark) ELSE w = Owner(x, s)

\* What a guest's request carries: its token, or on a misread page the cookie.
Bears(x, cred) == cred = x.token \/ (x.misread /\ cred = Session)

Quiet(x) ==
    x.queue = <<>> /\ x.flight = NoRequest /\ x.get = NoRequest /\ x.loads = {} /\ x.shown = None

\* Before the boot is done nothing happened yet.
Blank(x) ==
    x.boot # "done" =>
        /\ Quiet(x) /\ x.guesting = NoRequest /\ x.claim = NoRequest /\ x.held
        /\ ~x.again /\ ~x.raced /\ ~x.misread /\ ~x.leaving /\ ~x.asking /\ ~x.pending /\ ~x.halted
        /\ x.identity = (IF x.boot = "callback" THEN "guest" ELSE "unknown")
        /\ x.auth = (IF x.boot = "callback" THEN "held" ELSE "idle")
        /\ (x.boot = "callback" => x.parked = None)

\* A session has no guest but the one it is claiming, and does nothing until that is decided.
AsSession(x) ==
    /\ x.identity = "session" =>
        /\ x.guesting = NoRequest /\ ~x.again /\ ~x.raced /\ ~x.misread /\ ~x.halted
        /\ ~x.pending => x.token = None
    /\ x.pending =>
        x.identity = "session" /\ x.auth # "idle" /\ x.held /\ ~x.leaving /\ Quiet(x)
    /\ x.claim # NoRequest => x.pending /\ x.token # None

AsGuest(x) ==
    /\ x.boot = "done" => x.identity # "unknown"
    /\ x.boot = "done" /\ x.identity = "guest" =>
        (x.cookie => x.misread) /\ x.parked = None /\ (~x.raced => x.auth = "idle" /\ ~x.leaving)
    /\ x.token = None \/ x.parked = None
    /\ x.asking => x.leaving

\* A request that is not outdated is the page's identity's, and carries what that identity has.
Asked(x, s) ==
    /\ \A r \in {x.get, x.flight, x.guesting, x.claim} : r # NoRequest => r.as # None
    /\ \A r \in {x.get, x.flight} : r # NoRequest /\ r.fresh =>
        /\ r.as = x.identity
        /\ x.identity = "session" => r.cred \in {None, Session}
    /\ x.guesting # NoRequest => x.guesting.as = "guest"
    /\ x.flight # NoRequest => x.queue # <<>>
    /\ x.flight # NoRequest /\ ~x.flight.fresh => x.identity = "guest"
    /\ x.identity = "guest" /\ ~Loose(x, s) =>
        /\ x.get # NoRequest /\ x.get.fresh => Bears(x, x.get.cred) /\ x.token # None
        /\ x.flight # NoRequest /\ x.flight.fresh =>
            /\ x.flight.cred = None \/ Bears(x, x.flight.cred)
            /\ s.carried = {} => Bears(x, x.flight.cred) /\ x.token # None

\* Nobody makes a guest for a page that has one.
Making(x, s) ==
    x.identity = "guest" /\ ~Loose(x, s) =>
        /\ x.again => x.token = None /\ x.guesting = NoRequest
        /\ Waits(x) => x.token = None

\* What is shown, and what loads for it, is the identity's world.
Shows(x, s) ==
    ~Loose(x, s) =>
        /\ x.shown # None => IsOwn(x, x.shown, s)
        /\ \A l \in x.loads : l.fresh => IsOwn(x, l.world, s)

\* The head whose request is outdated will leave the queue without another.
Leaves(x, i) == i = 1 /\ x.flight # NoRequest /\ ~x.flight.fresh

\* The batch was made for the identity's world, or carried over to the next one.
Fits(x, b, s) == IsOwn(x, s.made[b], s) \/ (x.identity = "guest" /\ b \in s.carried)

Queued(x, s) ==
    \A i \in 1..Len(x.queue) :
        /\ s.made[x.queue[i]] # None
        /\ ~Loose(x, s) /\ ~Leaves(x, i) => Fits(x, x.queue[i], s)
        /\ x.misread <=> x.queue[i] \in s.astray

\* A batch sent with a credential can reach no world but its own.
Home(b, cred, s) ==
    b \notin s.astray =>
        /\ cred = Session => s.acct # None /\ s.made[b] = s.acct
        /\ cred \in Guests => s.made[b] = cred \/ b \in s.carried \/ cred \in s.hurried

FlightHome(x, s) == x.flight # NoRequest => Home(x.queue[1], x.flight.cred, s)

\* A guest that came from the park is there until another takes its place.
FromPark(x, s) ==
    x.identity = "guest" /\ ~Loose(x, s) /\ x.fromPark /\ x.token = None =>
        x.queue = <<>> \/ (Len(x.queue) = 1 /\ Leaves(x, 1))

\* Tokens were given to somebody, and the live ones are kept.
Kept(x, s) ==
    /\ \A g \in Guests : g \in {x.token, x.parked} => s.guest[g] # "free"
    /\ s.carried = {} =>
        /\ \A g \in Guests \ s.hurried : s.guest[g] = "live" => g \in {x.token, x.parked}
        /\ x.halted /\ x.identity = "guest" /\ ~Loose(x, s) =>
            ~x.again /\ ~Waits(x) /\ (x.token # None => s.guest[x.token] # "live")
        /\ ~x.raced => \A l \in x.loads : l.by = "guest" =>
            /\ l.fresh /\ x.identity = "guest" /\ x.token = l.world
            /\ s.guest[l.world] = "live" /\ l.world \notin s.claims

Core(x, s) ==
    /\ Page(x) /\ Blank(x) /\ AsSession(x) /\ AsGuest(x)
    /\ Asked(x, s) /\ Making(x, s) /\ Shows(x, s) /\ Queued(x, s) /\ FlightHome(x, s)
    /\ FromPark(x, s) /\ Kept(x, s)

\* A guest's outbox is open.
Open(x) == x.boot = "done" /\ x.identity = "guest" => ~x.held

\* GuestOnItsWay, of a page.
OnItsWay(x, s) ==
    /\ x.boot = "done" /\ x.identity = "guest" /\ x.auth = "idle" /\ x.token = None
    /\ ~x.raced /\ s.carried = {}
    => x.guesting # NoRequest \/ x.again \/ x.halted

Good(x, s) == Core(x, s) /\ Open(x) /\ OnItsWay(x, s)

\* What was sent and may be processed at any time.
Posted(w, s) ==
    \A r \in w :
        /\ r.kind = "post" => r.batch \in Batches /\ s.made[r.batch] # None /\ Home(r.batch, r.cred, s)
        /\ r.kind = "claim" => r.cred \in Guests

Inv ==
    /\ Surrounds(Around) /\ Good(c, Around) /\ Posted(wire, Around) /\ Sent(c) \subseteq wire
    /\ applied \subseteq Batches \X World
    /\ \A p \in applied : made[p[1]] # None
    /\ BatchStaysHome

-----------------------------------------------------------------------------
(***************************************************************************)
(* Requests, loads and queues.                                             *)
(***************************************************************************)
\* No request is answered under no identity.
LEMMA NoRequestIs ==
    /\ NoRequest \in Requests /\ NoRequest.as = None /\ ~NoRequest.fresh
    /\ \A r \in Requests : r # NoRequest => r.fresh \in BOOLEAN /\ r.cred \in Cred
BY DEF NoRequest, Requests, Cred

\* Outdating a request changes nothing else of it.
LEMMA OutdatedIs ==
    ASSUME NEW r \in Requests, NEW o, o = Outdated(r), r # NoRequest => r.as # None
    PROVE  /\ o \in Requests /\ ~o.fresh /\ o.as = r.as /\ o.cred = r.cred
           /\ o = NoRequest <=> r = NoRequest
<1>1. o \in Requests /\ o.fresh = FALSE /\ o.as = r.as /\ o.cred = r.cred
  BY DEF Requests, Outdated
<1>2. r = NoRequest => o = NoRequest
  <2>1. \A p, q \in Requests : p.fresh = q.fresh /\ p.as = q.as /\ p.cred = q.cred => p = q
    BY DEF Requests
  <2>2. NoRequest.fresh = FALSE /\ NoRequest \in Requests
    BY NoRequestIs DEF NoRequest
  <2> QED  BY <1>1, <2>1, <2>2
<1>3. o = NoRequest => r = NoRequest
  BY <1>1, NoRequestIs
<1> QED  BY <1>1, <1>2, <1>3

\* A request carries the cookie or the token, under the page's identity.
LEMMA RequestIs ==
    ASSUME NEW x, Page(x), NEW r, r = Request(x)
    PROVE  /\ r \in Requests /\ r # NoRequest /\ r.fresh /\ r.as = x.identity /\ r.as # None
           /\ r.cred = IF x.cookie THEN Session ELSE x.token
<1>1. r.fresh = TRUE /\ r.as = x.identity /\ (r.cred = IF x.cookie THEN Session ELSE x.token)
  BY DEF Request
<1>2. r \in Requests
  BY DEF Request, Requests, Cred, Page
<1>3. r.as # None
  BY <1>1, GameStoreAssumption DEF Page
<1> QED  BY <1>1, <1>2, <1>3, NoRequestIs

\* os are the loads ls, outdated.
Outdates(ls, os) ==
    /\ \A o \in os :
        ~o.fresh /\ \E l \in ls : o.by = l.by /\ o.world = l.world /\ o.awaited = l.awaited
    /\ \A l \in ls : \E o \in os : o.by = l.by /\ o.world = l.world

\* What loads keeps its world when it is outdated.
LEMMA OutdatedLoads ==
    ASSUME NEW ls, ls \subseteq Loads
    PROVE  Outdates(ls, {[l EXCEPT !.fresh = FALSE] : l \in ls})
<1>1. \A l \in ls : LET o == [l EXCEPT !.fresh = FALSE] IN
        o.fresh = FALSE /\ o.by = l.by /\ o.world = l.world /\ o.awaited = l.awaited
  BY DEF Loads
<1> QED  BY <1>1 DEF Outdates

-----------------------------------------------------------------------------
(***************************************************************************)
(* What the store's methods change.                                        *)
(***************************************************************************)
\* #clearOutbox keeps the head that is on its way.
LEMMA ClearOutboxIs ==
    ASSUME NEW x, Page(x), x.flight # NoRequest => x.queue # <<>>, NEW y, y = ClearOutbox(x)
    PROVE  /\ Page(y) /\ Same(x, y, {"queue"})
           /\ y.queue = IF x.flight = NoRequest THEN <<>> ELSE <<x.queue[1]>>
<1>1. /\ DOMAIN y = Fields /\ Same(x, y, {"queue"})
      /\ y.queue = IF x.flight = NoRequest THEN <<>> ELSE <<Head(x.queue)>>
  BY DEF ClearOutbox, Page, Flags, Fields, Same
<1>2. y.queue = (IF x.flight = NoRequest THEN <<>> ELSE <<x.queue[1]>>) /\ y.queue \in Seq(Batches)
  BY <1>1 DEF Page
<1> QED  BY <1>1, <1>2 DEF Page, Flags, Same, Fields

\* #pump sends the head, with what the browser holds, unless it waits or is held.
LEMMA PumpIs ==
    ASSUME NEW x, Page(x), NEW y, y = Pump(x)
    PROVE  /\ Page(y) /\ Same(x, y, {"flight"})
           /\ y.flight = IF x.held \/ x.flight # NoRequest \/ x.queue = <<>>
                         THEN x.flight ELSE Request(x)
<1>1. /\ DOMAIN y = Fields /\ Same(x, y, {"flight"})
      /\ y.flight = IF x.held \/ x.flight # NoRequest \/ x.queue = <<>>
                    THEN x.flight ELSE Request(x)
  BY DEF Pump, Page, Flags, Fields, Same
<1> QED  BY <1>1, RequestIs DEF Page, Flags, Same, Fields

\* #wantGet asks for the world, unless something holds it back.
LEMMA WantGetIs ==
    ASSUME NEW x, Page(x), NEW y, y = WantGet(x)
    PROVE  /\ Page(y) /\ Same(x, y, {"get"})
           /\ y.get = IF x.halted \/ x.get # NoRequest \/ x.auth # "idle" \/ ~HasIdentity(x)
                      THEN x.get ELSE Request(x)
<1>1. /\ DOMAIN y = Fields /\ Same(x, y, {"get"})
      /\ y.get = IF x.halted \/ x.get # NoRequest \/ x.auth # "idle" \/ ~HasIdentity(x)
                 THEN x.get ELSE Request(x)
  BY DEF WantGet, Page, Flags, Fields, Same
<1> QED  BY <1>1, RequestIs DEF Page, Flags, Same, Fields

\* #createGuest asks for a guest, unless one is being made or none is wanted.
LEMMA CreateGuestIs ==
    ASSUME NEW x, Page(x), NEW y, y = CreateGuest(x)
    PROVE  /\ Page(y) /\ Same(x, y, {"guesting"})
           /\ y.guesting = IF x.guesting # NoRequest \/ x.auth # "idle" \/ x.identity = "session"
                           THEN x.guesting ELSE Request(x)
<1>1. /\ DOMAIN y = Fields /\ Same(x, y, {"guesting"})
      /\ y.guesting = IF x.guesting # NoRequest \/ x.auth # "idle" \/ x.identity = "session"
                      THEN x.guesting ELSE Request(x)
  BY DEF CreateGuest, Page, Flags, Fields, Same
<1> QED  BY <1>1, RequestIs DEF Page, Flags, Same, Fields

\* #resetWorld forgets the world on screen and outdates every request about it.
LEMMA ResetWorldIs ==
    ASSUME NEW x, Page(x), NEW y, y = ResetWorld(x),
           \A r \in {x.get, x.flight, x.guesting} : r # NoRequest => r.as # None
    PROVE  /\ Page(y)
           /\ Same(x, y, {"shown", "halted", "notFound", "flight", "get", "guesting", "loads"})
           /\ y.shown = None /\ ~y.halted /\ ~y.notFound
           /\ y.flight = Outdated(x.flight) /\ y.get = Outdated(x.get)
           /\ y.guesting = Outdated(x.guesting)
           /\ Outdates(x.loads, y.loads)
<1>1. /\ DOMAIN y = Fields
      /\ Same(x, y, {"shown", "halted", "notFound", "flight", "get", "guesting", "loads"})
      /\ y.shown = None /\ y.halted = FALSE /\ y.notFound = FALSE
      /\ y.flight = Outdated(x.flight) /\ y.get = Outdated(x.get)
      /\ y.guesting = Outdated(x.guesting)
      /\ y.loads = {[l EXCEPT !.fresh = FALSE] : l \in x.loads}
  <2> DEFINE x1 == [x EXCEPT !.shown = None, !.halted = FALSE, !.notFound = FALSE,
                             !.flight = Outdated(@)]
  <2>1. /\ DOMAIN x1 = Fields /\ Same(x, x1, {"shown", "halted", "notFound", "flight"})
        /\ x1.shown = None /\ x1.halted = FALSE /\ x1.notFound = FALSE
        /\ x1.flight = Outdated(x.flight)
    BY DEF Page, Fields, Same
  <2> DEFINE olds == {[l EXCEPT !.fresh = FALSE] : l \in x.loads}
  <2>2. y = [x1 EXCEPT !.get = Outdated(x.get), !.guesting = Outdated(x.guesting), !.loads = olds]
    BY Zenon DEF ResetWorld
  <2> HIDE DEF x1, olds
  <2>3. /\ DOMAIN y = Fields /\ Same(x1, y, {"get", "guesting", "loads"})
        /\ y.get = Outdated(x.get) /\ y.guesting = Outdated(x.guesting) /\ y.loads = olds
    BY <2>1, <2>2 DEF Fields, Same
  <2>4. y.loads = {[l EXCEPT !.fresh = FALSE] : l \in x.loads}
    BY <2>3 DEF olds
  <2> QED  BY <2>1, <2>3, <2>4 DEF Fields, Same
<1>2. {y.flight, y.get, y.guesting} \subseteq Requests
  <2>1. x.flight \in Requests /\ x.get \in Requests /\ x.guesting \in Requests
    BY DEF Page
  <2> QED  BY <1>1, <2>1, OutdatedIs
<1>3. y.loads \subseteq Loads
  <2>1. x.loads \subseteq Loads
    BY DEF Page
  <2>2. \A l \in x.loads : [l EXCEPT !.fresh = FALSE] \in Loads
    BY <2>1 DEF Loads
  <2> QED  BY <1>1, <2>2
<1>4. Outdates(x.loads, y.loads)
  <2>1. x.loads \subseteq Loads
    BY DEF Page
  <2>2. Outdates(x.loads, {[l EXCEPT !.fresh = FALSE] : l \in x.loads})
    BY <2>1, OutdatedLoads
  <2> QED  BY <1>1, <2>2
<1>5. y.halted \in BOOLEAN /\ y.notFound \in BOOLEAN /\ y.shown \in World \cup {None}
  BY <1>1
<1>6. Page(y)
  BY <1>1, <1>2, <1>3, <1>5 DEF Page, Flags, Same, Fields
<1> QED  BY <1>1, <1>4, <1>6

\* #unpark takes the parked token back, or leaves both as they are.
LEMMA UnparkIs ==
    ASSUME NEW x, Page(x), NEW y, y = Unpark(x)
    PROVE  /\ Page(y) /\ Same(x, y, {"token", "parked", "fromPark"})
           /\ \/ /\ x.parked # None /\ x.token \in {None, x.parked}
                 /\ y.token = x.parked /\ y.parked = None /\ y.fromPark
              \/ /\ x.parked = None \/ x.token \notin {None, x.parked}
                 /\ y.token = x.token /\ y.parked = x.parked /\ y.fromPark = x.fromPark
<1>1. CASE x.parked = None \/ x.token \notin {None, x.parked}
  <2>1. y = x
    BY <1>1 DEF Unpark
  <2> QED  BY <1>1, <2>1 DEF Same
<1>2. CASE ~(x.parked = None \/ x.token \notin {None, x.parked})
  <2>1. /\ DOMAIN y = Fields /\ Same(x, y, {"token", "parked", "fromPark"})
        /\ y.token = x.parked /\ y.parked = None /\ y.fromPark = TRUE
    BY <1>2 DEF Unpark, Page, Flags, Fields, Same
  <2>2. y.fromPark \in BOOLEAN
    BY <2>1
  <2>3. Page(y)
    BY <2>1, <2>2 DEF Page, Flags, Same, Fields
  <2> QED  BY <1>2, <2>1, <2>3
<1> QED  BY <1>1, <1>2

\* #park of a page whose park is free.
LEMMA ParkIs ==
    ASSUME NEW x, Page(x), x.parked = None, NEW y, y = Park(x)
    PROVE  /\ Page(y) /\ Same(x, y, {"token", "parked"})
           /\ y.token = None /\ y.parked = x.token
<1>1. /\ DOMAIN y = Fields /\ Same(x, y, {"token", "parked"})
      /\ y.token = None /\ y.parked = x.token
  BY DEF Park, Page, Flags, Fields, Same
<1> QED  BY <1>1 DEF Page, Flags, Same, Fields

\* #adopt shows the world of a request that is not outdated.
LEMMA AdoptIs ==
    ASSUME NEW x, Page(x), NEW r, NEW w \in World \cup {None}, NEW y, y = Adopt(x, r, w)
    PROVE  /\ Page(y) /\ Same(x, y, {"shown", "notFound", "fromPark"})
           /\ y.shown = IF r.fresh THEN w ELSE x.shown
           /\ y.fromPark => x.fromPark
<1>1. CASE ~r.fresh
  BY <1>1 DEF Adopt, Same
<1>2. CASE r.fresh
  <2>1. /\ DOMAIN y = Fields /\ Same(x, y, {"shown", "notFound", "fromPark"})
        /\ y.shown = w /\ y.notFound = FALSE /\ y.fromPark = (x.fromPark /\ x.identity # "guest")
    BY <1>2 DEF Adopt, Page, Flags, Fields, Same
  <2>2. y.fromPark \in BOOLEAN /\ y.notFound \in BOOLEAN
    BY <2>1
  <2>3. Page(y)
    BY <2>1, <2>2 DEF Page, Flags, Same, Fields
  <2> QED  BY <1>2, <2>1, <2>3
<1> QED  BY <1>1, <1>2

-----------------------------------------------------------------------------
(***************************************************************************)
(* The methods keep the core.                                              *)
(***************************************************************************)
\* #pump keeps the core: what the head carries can reach no world but its own.
LEMMA PumpKeeps ==
    ASSUME NEW x, NEW s, Surrounds(s), Core(x, s), NEW y, y = Pump(x)
    PROVE  Core(y, s) /\ Same(x, y, {"flight"})
<1> USE DEF Core
<1>1. /\ Page(x) /\ Page(y) /\ Same(x, y, {"flight"})
      /\ y.flight = IF x.held \/ x.flight # NoRequest \/ x.queue = <<>>
                    THEN x.flight ELSE Request(x)
  BY PumpIs
<1>2. CASE x.held \/ x.flight # NoRequest \/ x.queue = <<>>
  <2>1. y = x
    BY <1>2 DEF Pump
  <2> QED  BY <1>1, <2>1
<1>3. CASE ~(x.held \/ x.flight # NoRequest \/ x.queue = <<>>)
  <2>1. /\ y.flight \in Requests /\ y.flight # NoRequest /\ y.flight.fresh
        /\ y.flight.as = x.identity /\ y.flight.as # None
        /\ y.flight.cred = IF x.cookie THEN Session ELSE x.token
    BY <1>1, <1>3, RequestIs
  <2>2. /\ x.boot = "done" /\ ~x.pending /\ x.identity \in {"guest", "session"}
        /\ Len(x.queue) \in Nat \ {0}
    BY <1>3 DEF Blank, Quiet, AsSession, AsGuest, Page
  <2>3. /\ Loose(y, s) <=> Loose(x, s)
        /\ Waits(y) <=> Waits(x)
        /\ Owner(y, s) = Owner(x, s)
    BY <1>1 DEF Same, Fields, Loose, Waits, Owner
  <2>4. s.made[x.queue[1]] # None /\ (Loose(x, s) \/ Fits(x, x.queue[1], s))
    BY <2>2, <1>3 DEF Queued, Leaves
  <2>5. Blank(y) /\ AsSession(y) /\ AsGuest(y)
    BY <1>1, <2>2 DEF Same, Fields, Blank, AsSession, AsGuest
  <2>6. Asked(y, s)
    <3>1. x.identity = "guest" /\ ~Loose(x, s) =>
            /\ Bears(y, y.flight.cred)
            /\ s.carried = {} => x.token # None
      BY <1>1, <2>1, <2>2, <2>4 DEF AsGuest, Fits, Owner, IsOwn, Bears, Same, Fields
    <3>2. x.identity = "session" => y.flight.cred \in {None, Session}
      BY <2>1, <2>2 DEF AsSession
    <3> QED  BY <1>1, <1>3, <2>1, <2>2, <2>3, <3>1, <3>2 DEF Same, Fields, Asked, Bears
  <2>7. Making(y, s) /\ Shows(y, s) /\ Kept(y, s)
    BY <1>1, <2>3 DEF Same, Fields, Making, Shows, Kept, IsOwn
  <2>8. Queued(y, s) /\ FromPark(y, s)
    <3>1. \A i \in 1..Len(x.queue) : ~Leaves(x, i)
      BY <1>3 DEF Leaves
    <3>2. /\ x.queue = y.queue /\ x.fromPark = y.fromPark /\ x.token = y.token
          /\ x.identity = y.identity /\ x.misread = y.misread
      BY <1>1 DEF Same, Fields
    <3>3. Queued(y, s)
      BY <2>3, <3>1, <3>2 DEF Queued, Fits, IsOwn
    <3>4. FromPark(y, s)
      BY <1>3, <2>2, <2>3, <3>1, <3>2 DEF FromPark
    <3> QED  BY <3>3, <3>4
  <2>9. FlightHome(y, s)
    <3>1. x.queue = y.queue
      BY <1>1 DEF Same, Fields
    <3>2. Home(x.queue[1], y.flight.cred, s)
      <4>1. CASE x.identity = "guest"
        <5>1. CASE x.misread
          <6>1. x.queue[1] \in s.astray
            BY <2>2, <5>1 DEF Queued
          <6> QED  BY <6>1 DEF Home
        <5>2. CASE ~x.misread
          <6>1. y.flight.cred = x.token
            BY <2>1, <2>2, <4>1, <5>2 DEF AsGuest
          <6>2. x.token # Session
            BY GameStoreAssumption DEF Page
          <6>3. Loose(x, s) \/ s.made[x.queue[1]] = x.token \/ x.queue[1] \in s.carried
            BY <2>4, <4>1, <5>2 DEF Fits, Owner, IsOwn
          <6> QED  BY <4>1, <6>1, <6>2, <6>3, GameStoreAssumption DEF Home, Loose
        <5> QED  BY <5>1, <5>2
      <4>2. CASE x.identity = "session"
        <5>1. x.token = None
          BY <2>2, <4>2 DEF AsSession
        <5>2. s.made[x.queue[1]] = s.acct /\ s.acct # None
          BY <2>4, <4>2 DEF AsSession, Fits, Owner, Loose, IsOwn
        <5> QED  BY <2>1, <5>1, <5>2, GameStoreAssumption DEF Home
      <4> QED  BY <2>2, <4>1, <4>2
    <3> QED  BY <3>1, <3>2 DEF FlightHome
  <2> QED  BY <1>1, <2>5, <2>6, <2>7, <2>8, <2>9
<1> QED  BY <1>2, <1>3

\* #wantGet keeps the core: a page asks only for the world of its identity.
LEMMA WantGetKeeps ==
    ASSUME NEW x, NEW s, Surrounds(s), Core(x, s), NEW y, y = WantGet(x)
    PROVE  Core(y, s) /\ Same(x, y, {"get"})
<1> USE DEF Core
<1>1. /\ Page(x) /\ Page(y) /\ Same(x, y, {"get"})
      /\ y.get = IF x.halted \/ x.get # NoRequest \/ x.auth # "idle" \/ ~HasIdentity(x)
                 THEN x.get ELSE Request(x)
  BY WantGetIs
<1>2. CASE x.halted \/ x.get # NoRequest \/ x.auth # "idle" \/ ~HasIdentity(x)
  <2>1. y = x
    BY <1>2 DEF WantGet
  <2> QED  BY <1>1, <2>1
<1>3. CASE ~(x.halted \/ x.get # NoRequest \/ x.auth # "idle" \/ ~HasIdentity(x))
  <2>1. /\ y.get \in Requests /\ y.get # NoRequest /\ y.get.fresh
        /\ y.get.as = x.identity /\ y.get.as # None
        /\ y.get.cred = IF x.cookie THEN Session ELSE x.token
    BY <1>1, <1>3, RequestIs
  <2>2. /\ x.boot = "done" /\ ~x.pending /\ x.identity \in {"guest", "session"}
        /\ x.identity = "guest" => x.token # None
    BY <1>3 DEF Blank, AsSession, HasIdentity
  <2>3. /\ Loose(y, s) <=> Loose(x, s)
        /\ Waits(y) <=> Waits(x)
        /\ Owner(y, s) = Owner(x, s)
    BY <1>1 DEF Same, Fields, Loose, Waits, Owner
  <2>4. Blank(y) /\ AsSession(y) /\ AsGuest(y)
    BY <1>1, <2>2 DEF Same, Fields, Blank, AsSession, AsGuest
  <2>5. Asked(y, s)
    <3>1. x.identity = "guest" => Bears(y, y.get.cred)
      BY <1>1, <2>1, <2>2 DEF AsGuest, Bears, Same, Fields
    <3>2. x.identity = "session" => y.get.cred \in {None, Session}
      BY <2>1, <2>2 DEF AsSession
    <3> QED  BY <1>1, <1>3, <2>1, <2>2, <2>3, <3>1, <3>2 DEF Same, Fields, Asked, Bears
  <2>6. Making(y, s) /\ Shows(y, s) /\ Kept(y, s)
    BY <1>1, <2>3 DEF Same, Fields, Making, Shows, Kept, IsOwn
  <2>7. Queued(y, s) /\ FromPark(y, s) /\ FlightHome(y, s)
    BY <1>1, <2>3 DEF Same, Fields, Queued, Leaves, Fits, FromPark, FlightHome, IsOwn
  <2> QED  BY <1>1, <2>4, <2>5, <2>6, <2>7
<1> QED  BY <1>2, <1>3

\* #createGuest keeps the core when the page has no guest, or has raced for one.
LEMMA CreateGuestKeeps ==
    ASSUME NEW x, NEW s, Surrounds(s), Core(x, s), x.boot = "done",
           x.identity = "guest" /\ ~Loose(x, s) =>
                x.token = None /\ ~x.again /\ (s.carried = {} => ~x.halted),
           NEW y, y = CreateGuest(x)
    PROVE  /\ Core(y, s) /\ Same(x, y, {"guesting"})
           /\ x.identity = "guest" /\ x.auth = "idle" => y.guesting # NoRequest
<1> USE DEF Core
<1>1. /\ Page(x) /\ Page(y) /\ Same(x, y, {"guesting"})
      /\ y.guesting = IF x.guesting # NoRequest \/ x.auth # "idle" \/ x.identity = "session"
                      THEN x.guesting ELSE Request(x)
  BY CreateGuestIs
<1>2. CASE x.guesting # NoRequest \/ x.auth # "idle" \/ x.identity = "session"
  <2>1. y = x
    BY <1>2 DEF CreateGuest
  <2> QED  BY <1>1, <1>2, <2>1
<1>3. CASE ~(x.guesting # NoRequest \/ x.auth # "idle" \/ x.identity = "session")
  <2>1. /\ y.guesting \in Requests /\ y.guesting # NoRequest
        /\ y.guesting.as = x.identity /\ y.guesting.as # None
    BY <1>1, <1>3, RequestIs
  <2>2. x.identity = "guest" /\ ~x.pending
    BY <1>3 DEF AsGuest, AsSession, Page
  <2>3. /\ Loose(y, s) <=> Loose(x, s)
        /\ Owner(y, s) = Owner(x, s)
    BY <1>1 DEF Same, Fields, Loose, Owner
  <2>4. Blank(y) /\ AsSession(y) /\ AsGuest(y)
    BY <1>1, <2>2 DEF Same, Fields, Blank, AsSession, AsGuest
  <2>5. Asked(y, s)
    BY <1>1, <1>3, <2>1, <2>2, <2>3 DEF Same, Fields, Asked, Bears
  <2>6. Making(y, s) /\ Shows(y, s)
    BY <1>1, <2>2, <2>3 DEF Same, Fields, Making, Shows, IsOwn
  <2>7. Kept(y, s)
    BY <1>1, <2>3 DEF Same, Fields, Kept
  <2>8. Queued(y, s) /\ FromPark(y, s) /\ FlightHome(y, s)
    BY <1>1, <2>3 DEF Same, Fields, Queued, Leaves, Fits, FromPark, FlightHome, IsOwn
  <2> QED  BY <1>1, <2>1, <2>4, <2>5, <2>6, <2>7, <2>8
<1> QED  BY <1>2, <1>3

\* An open outbox: its head is out, if it has one.
LEMMA StartOutboxKeeps ==
    ASSUME NEW x, NEW s, Surrounds(s), Core(x, s), x.boot = "done", ~x.pending,
           NEW y, y = StartOutbox(x)
    PROVE  Core(y, s) /\ Same(x, y, {"held", "flight"}) /\ ~y.held
<1> USE DEF Core
<1> DEFINE z == [x EXCEPT !.held = FALSE]
<1>1. DOMAIN z = Fields /\ Same(x, z, {"held"}) /\ z.held = FALSE
  BY DEF Page, Flags, Fields, Same
<1>2. y = Pump(z)
  BY DEF StartOutbox
<1> HIDE DEF z
<1>3. Page(z)
  <2>1. Page(x) /\ z.held \in BOOLEAN
    BY <1>1
  <2> QED  BY <1>1, <2>1 DEF Page, Flags, Same, Fields
<1>4. /\ Loose(z, s) <=> Loose(x, s)
      /\ Waits(z) <=> Waits(x)
      /\ Owner(z, s) = Owner(x, s)
  BY <1>1 DEF Same, Fields, Loose, Waits, Owner
<1>5. Blank(z) /\ AsSession(z) /\ AsGuest(z) /\ Asked(z, s)
  BY <1>1, <1>4 DEF Same, Fields, Blank, AsSession, AsGuest, Asked, Bears
<1>6. Making(z, s) /\ Shows(z, s) /\ Kept(z, s)
  BY <1>1, <1>4 DEF Same, Fields, Making, Shows, Kept, IsOwn
<1>7. Queued(z, s) /\ FromPark(z, s) /\ FlightHome(z, s)
  BY <1>1, <1>4 DEF Same, Fields, Queued, Leaves, Fits, FromPark, FlightHome, IsOwn
<1>8. Core(z, s)
  BY <1>3, <1>5, <1>6, <1>7
<1>9. Core(y, s) /\ Same(z, y, {"flight"})
  BY <1>2, <1>8, PumpKeeps
<1> QED  BY <1>1, <1>9 DEF Same, Fields

\* Resuming asks for the world, or for a guest: nobody is waited for in vain.
LEMMA ResumeKeeps ==
    ASSUME NEW x, NEW s, Surrounds(s), Core(x, s), x.boot = "done",
           x.identity = "guest" /\ x.token = None /\ ~Loose(x, s) =>
                ~x.again /\ (s.carried = {} => ~x.halted),
           NEW y, y = Resume(x)
    PROVE  Core(y, s) /\ Same(x, y, {"get", "guesting"}) /\ OnItsWay(y, s)
<1>1. CASE x.identity = "session" \/ x.token # None
  <2>1. y = WantGet(x)
    BY <1>1 DEF Resume
  <2>2. Core(y, s) /\ Same(x, y, {"get"})
    BY <2>1, WantGetKeeps
  <2> QED  BY <1>1, <2>2 DEF Same, Fields, OnItsWay
<1>2. CASE ~(x.identity = "session" \/ x.token # None)
  <2>1. y = CreateGuest(x)
    BY <1>2 DEF Resume
  <2>2. /\ Core(y, s) /\ Same(x, y, {"guesting"})
        /\ x.identity = "guest" /\ x.auth = "idle" => y.guesting # NoRequest
    BY <1>2, <2>1, CreateGuestKeeps
  <2> QED  BY <1>2, <2>2 DEF Same, Fields, OnItsWay
<1> QED  BY <1>1, <1>2

\* Settling the head makes room for the next.
LEMMA SettleHeadKeeps ==
    ASSUME NEW x, NEW s, Surrounds(s), Core(x, s), x.flight # NoRequest,
           NEW y, y = SettleHead(x)
    PROVE  Core(y, s) /\ Same(x, y, {"queue", "flight"})
<1> USE DEF Core
<1> DEFINE z == [x EXCEPT !.queue = Tail(@), !.flight = NoRequest]
<1>1. /\ DOMAIN z = Fields /\ Same(x, z, {"queue", "flight"})
      /\ z.queue = Tail(x.queue) /\ z.flight = NoRequest
  BY DEF Page, Flags, Fields, Same
<1>2. y = Pump(z)
  BY DEF SettleHead
<1> HIDE DEF z
<1>3. x.queue \in Seq(Batches) /\ x.queue # <<>>
  BY DEF Page, Asked, Bears
<1>4. /\ z.queue \in Seq(Batches) /\ Len(z.queue) = Len(x.queue) - 1 /\ Len(x.queue) \in Nat \ {0}
      /\ \A i \in 1..Len(z.queue) : i + 1 \in 1..Len(x.queue) /\ z.queue[i] = x.queue[i + 1]
  BY <1>1, <1>3
<1>5. Page(z)
  <2>1. z.queue \in Seq(Batches) /\ z.flight \in Requests
    BY <1>1, <1>4, NoRequestIs
  <2>2. Page(x) /\ DOMAIN z = Fields /\ Same(x, z, {"queue", "flight"})
    BY <1>1
  <2> QED  BY <2>1, <2>2 DEF Page, Flags, Same, Fields
<1>6. /\ Loose(z, s) <=> Loose(x, s)
      /\ Waits(z) <=> Waits(x)
      /\ Owner(z, s) = Owner(x, s)
  BY <1>1 DEF Same, Fields, Loose, Waits, Owner
<1>7. x.boot = "done" /\ ~x.pending
  BY <1>3 DEF Blank, Quiet, AsSession
<1>8. Blank(z) /\ AsSession(z) /\ AsGuest(z) /\ Asked(z, s)
  BY <1>1, <1>6, <1>7 DEF Same, Fields, Blank, AsSession, AsGuest, Asked, Bears
<1>9. Making(z, s) /\ Shows(z, s) /\ Kept(z, s)
  BY <1>1, <1>6 DEF Same, Fields, Making, Shows, Kept, IsOwn
<1>10. Queued(z, s)
  <2> SUFFICES ASSUME NEW i \in 1..Len(z.queue)
               PROVE  /\ s.made[z.queue[i]] # None
                      /\ ~Loose(z, s) /\ ~Leaves(z, i) => Fits(z, z.queue[i], s)
                      /\ z.misread <=> z.queue[i] \in s.astray
    BY DEF Queued
  <2>1. i + 1 \in 1..Len(x.queue) /\ z.queue[i] = x.queue[i + 1] /\ ~Leaves(x, i + 1)
    BY <1>4 DEF Leaves
  <2>2. /\ s.made[x.queue[i + 1]] # None /\ (~Loose(x, s) => Fits(x, x.queue[i + 1], s))
        /\ x.misread <=> x.queue[i + 1] \in s.astray
    BY <2>1 DEF Queued
  <2> QED  BY <1>1, <1>6, <2>1, <2>2 DEF Same, Fields, Fits, IsOwn
<1>11. FromPark(z, s) /\ FlightHome(z, s)
  <2>1. FlightHome(z, s)
    BY <1>1 DEF FlightHome
  <2>2. Len(x.queue) = 1 => z.queue = <<>>
    BY <1>4
  <2> QED  BY <1>1, <1>3, <1>6, <2>1, <2>2 DEF Same, Fields, FromPark
<1>12. Core(z, s)
  BY <1>5, <1>8, <1>9, <1>10, <1>11
<1>13. Core(y, s) /\ Same(z, y, {"flight"})
  BY <1>2, <1>12, PumpKeeps
<1> QED  BY <1>1, <1>13 DEF Same, Fields

\* #leaveSession: the page is a guest's, the parked one's if there is one.
LEMMA LeaveSessionKeeps ==
    ASSUME NEW x, NEW s, Surrounds(s), Core(x, s), x.boot = "done", ~x.cookie, ~x.pending,
           x.identity = "guest" => x.raced,
           NEW y, y = LeaveSession(x)
    PROVE  /\ Good(y, s)
           /\ x.flight # NoRequest => y.flight # NoRequest
<1> USE DEF Core
<1> DEFINE x0 == ClearOutbox(x)
           x1 == [x0 EXCEPT !.identity = "guest", !.auth = "idle", !.raced = @ \/ x.leaving]
           x2 == ResetWorld(x1)
           x3 == Unpark(x2)
           x4 == StartOutbox(x3)
<1>0. y = Resume(x4)
  BY DEF LeaveSession
<1>1. /\ Page(x0) /\ Same(x, x0, {"queue"})
      /\ x0.queue = IF x.flight = NoRequest THEN <<>> ELSE <<x.queue[1]>>
  BY ClearOutboxIs DEF Asked, Bears
<1>2. /\ Page(x1) /\ Same(x0, x1, {"identity", "auth", "raced"})
      /\ x1.identity = "guest" /\ x1.auth = "idle" /\ x1.raced = (x0.raced \/ x.leaving)
  <2> HIDE DEF x0
  <2>1. /\ DOMAIN x1 = Fields /\ Same(x0, x1, {"identity", "auth", "raced"})
        /\ x1.identity = "guest" /\ x1.auth = "idle"
    BY <1>1 DEF Page, Flags, Fields, Same
  <2>2. x1.raced = (x0.raced \/ x.leaving)
    BY <1>1 DEF Page, Flags, Fields, Same
  <2>3. x1.raced \in BOOLEAN
    BY <2>2
  <2> HIDE DEF x1
  <2>4. Page(x1)
    <3>1. Page(x0)
      BY <1>1
    <3> QED  BY <2>1, <2>3, <3>1 DEF Page, Flags, Fields, Same
  <2> QED  BY <2>1, <2>2, <2>4
<1> HIDE DEF x0
<1>3. \A r \in {x1.get, x1.flight, x1.guesting} : r # NoRequest => r.as # None
  BY <1>1, <1>2 DEF Same, Fields, Asked, Bears
<1>4. /\ Page(x2)
      /\ Same(x1, x2, {"shown", "halted", "notFound", "flight", "get", "guesting", "loads"})
      /\ x2.shown = None /\ ~x2.halted
      /\ x2.flight = Outdated(x.flight) /\ x2.get = Outdated(x.get)
      /\ x2.guesting = Outdated(x.guesting)
      /\ Outdates(x.loads, x2.loads)
  <2> HIDE DEF x1
  <2>1. x1.flight = x.flight /\ x1.get = x.get /\ x1.guesting = x.guesting /\ x1.loads = x.loads
    BY <1>1, <1>2 DEF Same, Fields
  <2> QED  BY <1>2, <1>3, <2>1, ResetWorldIs
<1> HIDE DEF x1
<1>5. /\ Page(x3) /\ Same(x2, x3, {"token", "parked", "fromPark"})
      /\ \/ /\ x2.parked # None /\ x2.token \in {None, x2.parked}
            /\ x3.token = x2.parked /\ x3.parked = None
         \/ /\ x2.parked = None \/ x2.token \notin {None, x2.parked}
            /\ x3.token = x2.token /\ x3.parked = x2.parked
  <2> HIDE DEF x2
  <2> QED  BY <1>4, UnparkIs
<1> HIDE DEF x2, x3
\* The page before its outbox starts, field by field.
<1>6. /\ x3.boot = "done" /\ x3.identity = "guest" /\ x3.auth = "idle"
      /\ ~x3.pending /\ x3.claim = x.claim /\ x3.leaving = x.leaving /\ x3.again = x.again
      /\ x3.asking = x.asking
      /\ x3.raced = (x.raced \/ x.leaving) /\ ~x3.cookie /\ x3.held = x.held
      /\ x3.misread = x.misread /\ x3.shown = None /\ ~x3.halted
      /\ x3.queue = IF x.flight = NoRequest THEN <<>> ELSE <<x.queue[1]>>
  BY <1>1, <1>2, <1>4, <1>5 DEF Same, Fields
<1>7. /\ x3.flight = Outdated(x.flight) /\ x3.get = Outdated(x.get)
      /\ x3.guesting = Outdated(x.guesting) /\ Outdates(x.loads, x3.loads)
  BY <1>4, <1>5 DEF Same, Fields
<1>8. /\ x.identity = "session" => x.token = None /\ x.guesting = NoRequest /\ ~x.again
      /\ x.identity = "guest" => x.parked = None
      /\ x.identity \in {"session", "guest"}
  BY DEF AsSession, AsGuest, Page
<1>9. x2.token = x.token /\ x2.parked = x.parked
  BY <1>1, <1>2, <1>4 DEF Same, Fields
<1>10. x3.parked = None /\ {x3.token} \cup {None} = {x.token, x.parked} \cup {None}
  BY <1>5, <1>8, <1>9
<1>11. x.identity = "guest" => x3.token = x.token
  BY <1>5, <1>8, <1>9
<1>12. x.identity = "guest" => (Loose(x3, s) <=> Loose(x, s))
  BY <1>6, <1>11 DEF Loose
<1>13. /\ ~x3.flight.fresh /\ ~x3.get.fresh /\ ~x3.guesting.fresh
       /\ x3.flight.cred = x.flight.cred
       /\ x3.guesting.as = x.guesting.as
       /\ x3.flight = NoRequest <=> x.flight = NoRequest
       /\ x3.get = NoRequest <=> x.get = NoRequest
       /\ x3.guesting = NoRequest <=> x.guesting = NoRequest
       /\ \A r \in {x3.get, x3.flight, x3.guesting} : r # NoRequest => r.as # None
  <2>1. \A r \in {x.get, x.flight, x.guesting} : r \in Requests /\ (r # NoRequest => r.as # None)
    BY DEF Page, Asked, Bears
  <2> QED  BY <1>7, <2>1, OutdatedIs
<1>14. Waits(x3) => Waits(x)
  BY <1>7, <1>13 DEF Waits, Outdates
<1>15. x.claim = NoRequest
  BY DEF AsSession
<1>16. Blank(x3) /\ AsSession(x3) /\ AsGuest(x3)
  <2>1. x3.raced = FALSE => ~x3.leaving
    BY <1>6
  <2> QED  BY <1>6, <1>10, <1>15, <2>1 DEF Blank, AsSession, AsGuest
<1>17. Asked(x3, s)
  <2>1. x3.guesting # NoRequest => x3.guesting.as = "guest"
    BY <1>13 DEF Asked, Bears
  <2>2. x3.flight # NoRequest => x3.queue # <<>>
    BY <1>6, <1>13
  <2> QED  BY <1>6, <1>13, <1>15, <2>1, <2>2 DEF Asked, Bears
<1>18. Making(x3, s)
  <2>1. CASE x.identity = "session"
    BY <1>6, <1>8, <1>13, <2>1 DEF Making, Waits
  <2>2. CASE x.identity = "guest"
    BY <1>6, <1>11, <1>12, <1>13, <1>14, <2>2 DEF Making
  <2> QED  BY <1>8, <2>1, <2>2
<1>19. Shows(x3, s)
  BY <1>6, <1>7 DEF Shows, Outdates, IsOwn
<1>20. Queued(x3, s) /\ FromPark(x3, s) /\ FlightHome(x3, s)
  <2>1. CASE x.flight = NoRequest
    BY <1>6, <1>13, <2>1 DEF Queued, FromPark, FlightHome
  <2>2. CASE x.flight # NoRequest
    <3>1. x.queue # <<>> /\ x.queue \in Seq(Batches) /\ Len(x.queue) \in Nat /\ 1 \in 1..Len(x.queue)
      BY <2>2 DEF Asked, Page, Bears
    <3>2. /\ s.made[x.queue[1]] # None /\ Home(x.queue[1], x.flight.cred, s)
          /\ x.misread <=> x.queue[1] \in s.astray
      BY <2>2, <3>1 DEF Queued, FlightHome
    <3>3. Len(x3.queue) = 1 /\ x3.queue[1] = x.queue[1] /\ Leaves(x3, 1)
      BY <1>6, <1>13, <2>2 DEF Leaves
    <3>4. Queued(x3, s)
      BY <1>6, <3>2, <3>3 DEF Queued
    <3> QED  BY <1>13, <3>2, <3>3, <3>4 DEF FromPark, FlightHome
  <2> QED  BY <2>1, <2>2
<1>21. Kept(x3, s)
  <2>2. {x3.token, x3.parked} \cup {None} = {x.token, x.parked} \cup {None}
    BY <1>10
  <2>3. \A g \in Guests : g # None
    BY GameStoreAssumption
  <2>4. ~x3.raced /\ s.carried = {} => \A l \in x3.loads : l.by # "guest"
    BY <1>6, <1>7, <1>8 DEF Kept, Outdates
  <2> QED  BY <1>6, <2>2, <2>3, <2>4 DEF Kept
<1>22. Core(x3, s)
  BY <1>5, <1>16, <1>17, <1>18, <1>19, <1>20, <1>21
<1>23. Core(x4, s) /\ Same(x3, x4, {"held", "flight"}) /\ ~x4.held
  BY <1>6, <1>22, StartOutboxKeeps
<1>24. /\ x4.boot = "done" /\ x4.identity = "guest" /\ ~x4.halted
       /\ ~Loose(x4, s) => ~x4.again
  <2>1. x.identity = "guest" /\ ~Loose(x, s) => ~x.again
    BY DEF Making, Loose
  <2> QED  BY <1>6, <1>8, <1>12, <1>23, <2>1 DEF Same, Fields, Loose
<1>25. x.flight # NoRequest => x4.flight # NoRequest
  <2>1. x.flight # NoRequest => x3.flight # NoRequest
    BY <1>13
  <2>2. x3.flight # NoRequest => x4.flight = x3.flight
    <3> DEFINE x30 == [x3 EXCEPT !.held = FALSE]
    <3>1. x30.flight = x3.flight
      BY <1>5 DEF Page, Fields
    <3>2. x4 = Pump(x30)
      BY DEF StartOutbox
    <3> HIDE DEF x30, x4
    <3> QED  BY <3>1, <3>2 DEF Pump
  <2> QED  BY <2>1, <2>2
<1> HIDE DEF x4
<1>26. Core(y, s) /\ Same(x4, y, {"get", "guesting"}) /\ OnItsWay(y, s)
  BY <1>0, <1>23, <1>24, ResumeKeeps
<1>27. ~y.held /\ y.flight = x4.flight
  BY <1>23, <1>26 DEF Same, Fields
<1> QED  BY <1>25, <1>26, <1>27 DEF Good, Open

\* #adopt shows a world of the page's identity.
LEMMA AdoptKeeps ==
    ASSUME NEW x, NEW s, Surrounds(s), Core(x, s), x.boot = "done", ~x.pending,
           NEW r, NEW w \in World \cup {None},
           r.fresh /\ ~Loose(x, s) /\ w # None => IsOwn(x, w, s),
           NEW y, y = Adopt(x, r, w)
    PROVE  Core(y, s) /\ Same(x, y, {"shown", "notFound", "fromPark"})
<1> USE DEF Core
<1>1. /\ Page(y) /\ Same(x, y, {"shown", "notFound", "fromPark"})
      /\ y.shown = IF r.fresh THEN w ELSE x.shown
      /\ y.fromPark => x.fromPark
  BY AdoptIs
<1>2. /\ Loose(y, s) <=> Loose(x, s)
      /\ Waits(y) <=> Waits(x)
      /\ Owner(y, s) = Owner(x, s)
  BY <1>1 DEF Same, Fields, Loose, Waits, Owner
<1>3. Blank(y) /\ AsSession(y) /\ AsGuest(y) /\ Asked(y, s)
  BY <1>1, <1>2 DEF Same, Fields, Blank, AsSession, AsGuest, Asked, Bears
<1>4. Making(y, s) /\ Shows(y, s) /\ Kept(y, s)
  BY <1>1, <1>2 DEF Same, Fields, Making, Shows, Kept, IsOwn
<1>5. Queued(y, s) /\ FlightHome(y, s)
  BY <1>1, <1>2 DEF Same, Fields, Queued, Leaves, Fits, FlightHome, IsOwn
<1>6. FromPark(y, s)
  BY <1>1, <1>2 DEF Same, Fields, FromPark, Leaves
<1> QED  BY <1>1, <1>3, <1>4, <1>5, <1>6

\* The world that landed may be adopted, what is shown may stay, and both are the identity's.
LEMMA AdoptedKeeps ==
    ASSUME NEW x, NEW s, Surrounds(s), Core(x, s), x.boot = "done", ~x.pending,
           NEW r, NEW w \in World, r.fresh /\ ~Loose(x, s) => IsOwn(x, w, s),
           NEW y \in Adopted(x, r, w)
    PROVE  Core(y, s) /\ Same(x, y, {"shown", "notFound", "fromPark"})
<1>1. CASE y = x
  BY <1>1 DEF Same
<1>2. CASE y # x
  <2>1. PICK v \in {w} \cup ({x.shown} \ {None}) : y = Adopt(x, r, v)
    BY <1>2 DEF Adopted
  <2>2. x.shown \in World \cup {None}
    BY DEF Core, Page
  <2>3. v \in World \cup {None}
    BY <2>1, <2>2
  <2>4. r.fresh /\ ~Loose(x, s) /\ v # None => IsOwn(x, v, s)
    BY <2>1 DEF Core, Shows
  <2> QED  BY <2>1, <2>3, <2>4, AdoptKeeps
<1> QED  BY <1>1, <1>2

\* What a refusal of the page's own request tells: its session is over, or its guest is gone.
Over(x, s) ==
    /\ x.identity = "session" => ~x.cookie /\ ~x.pending
    /\ x.identity = "guest" /\ ~Loose(x, s) =>
        /\ x.fromPark => x.token # None
        /\ s.carried = {} => x.token # None /\ s.guest[x.token] # "live"

\* #expire: the parked guest's page makes another, any other page is walled in.
LEMMA ExpireKeeps ==
    ASSUME NEW x, NEW s, Surrounds(s), Good(x, s), x.boot = "done", Over(x, s),
           NEW api \in BOOLEAN, NEW y, y = Expire(x, api)
    PROVE  Good(y, s) /\ (x.flight # NoRequest => y.flight # NoRequest)
<1> USE DEF Core
<1> DEFINE x0 == ClearOutbox(x)
<1>0. Core(x, s) /\ x.identity \in {"guest", "session"}
  BY DEF Good, AsGuest, Page
<1>1. /\ Page(x0) /\ Same(x, x0, {"queue"})
      /\ x0.queue = IF x.flight = NoRequest THEN <<>> ELSE <<x.queue[1]>>
  BY <1>0, ClearOutboxIs DEF Asked, Bears
<1> HIDE DEF x0
\* What is left of the queue still is where it may be.
<1>2. \A z : /\ z.queue = x0.queue /\ z.identity = x.identity /\ z.misread = x.misread
             /\ z.flight.cred = x.flight.cred
             /\ z.flight = NoRequest <=> x.flight = NoRequest
             /\ \/ ~z.flight.fresh
                \/ z.flight = x.flight /\ z.token = x.token /\ z.raced = x.raced
             /\ z.fromPark => z.fromPark = x.fromPark /\ z.token = x.token /\ z.flight = x.flight
                                 /\ z.raced = x.raced
             => Queued(z, s) /\ FlightHome(z, s) /\ FromPark(z, s)
  <2> SUFFICES ASSUME NEW z, z.queue = x0.queue, z.identity = x.identity, z.misread = x.misread,
                      z.flight.cred = x.flight.cred,
                      z.flight = NoRequest <=> x.flight = NoRequest,
                      \/ ~z.flight.fresh
                      \/ z.flight = x.flight /\ z.token = x.token /\ z.raced = x.raced,
                      z.fromPark => z.fromPark = x.fromPark /\ z.token = x.token /\ z.flight = x.flight
                                 /\ z.raced = x.raced
               PROVE  Queued(z, s) /\ FlightHome(z, s) /\ FromPark(z, s)
    OBVIOUS
  <2>1. CASE x.flight = NoRequest
    BY <1>1, <2>1 DEF Queued, FromPark, FlightHome
  <2>2. CASE x.flight # NoRequest
    <3>1. x.queue # <<>> /\ x.queue \in Seq(Batches) /\ Len(x.queue) \in Nat /\ 1 \in 1..Len(x.queue)
      BY <1>0, <2>2 DEF Asked, Page, Bears
    <3>2. /\ s.made[x.queue[1]] # None /\ Home(x.queue[1], x.flight.cred, s)
          /\ x.misread <=> x.queue[1] \in s.astray
      BY <1>0, <2>2, <3>1 DEF Queued, FlightHome
    <3>3. Len(z.queue) = 1 /\ z.queue[1] = x.queue[1]
      BY <1>1, <2>2
    <3>4. Queued(z, s)
      <4>1. CASE ~z.flight.fresh
        <5>1. Leaves(z, 1)
          BY <2>2, <4>1 DEF Leaves
        <5> QED  BY <3>2, <3>3, <5>1 DEF Queued
      <4>2. CASE z.flight = x.flight /\ z.token = x.token /\ z.raced = x.raced
        <5>1. /\ Loose(z, s) <=> Loose(x, s)
              /\ Leaves(z, 1) <=> Leaves(x, 1)
              /\ Owner(z, s) = Owner(x, s)
          BY <4>2 DEF Loose, Leaves, Owner
        <5>2. ~Loose(x, s) /\ ~Leaves(x, 1) => Fits(x, x.queue[1], s)
          BY <1>0, <3>1 DEF Queued
        <5>3. ~Loose(z, s) /\ ~Leaves(z, 1) => Fits(z, x.queue[1], s)
          BY <4>2, <5>1, <5>2 DEF Fits, IsOwn
        <5> QED  BY <3>2, <3>3, <5>3 DEF Queued
      <4> QED  BY <4>1, <4>2
    <3>5. FlightHome(z, s)
      BY <3>2, <3>3 DEF FlightHome
    <3>6. FromPark(z, s)
      <4> SUFFICES ASSUME z.identity = "guest", z.fromPark, z.token = None, ~Loose(z, s)
                   PROVE  Leaves(z, 1)
        BY <3>3 DEF FromPark
      <4>1. x.identity = "guest" /\ x.fromPark /\ x.token = None /\ z.flight = x.flight
            /\ ~Loose(x, s)
        BY DEF Loose
      <4> QED  BY <1>0, <3>1, <4>1 DEF FromPark, Leaves
    <3> QED  BY <3>4, <3>5, <3>6
  <2> QED  BY <2>1, <2>2
<1>3. CASE x.identity = "session"
  <2>1. y = LeaveSession(x)
    BY <1>3 DEF Expire
  <2>2. ~x.cookie /\ ~x.pending /\ ~(x.identity = "guest")
    BY <1>3 DEF Over
  <2> QED  BY <1>0, <2>1, <2>2, LeaveSessionKeeps
<1>4. CASE x.identity = "guest" /\ x.fromPark /\ api
  <2> DEFINE x1 == [x0 EXCEPT !.token = None, !.fromPark = FALSE]
             x2 == ResetWorld(x1)
  <2>0. y = CreateGuest(x2)
    BY <1>4 DEF Expire, x0
  <2>1. /\ Page(x1) /\ Same(x0, x1, {"token", "fromPark"})
        /\ x1.token = None /\ ~x1.fromPark
    <3>1. /\ DOMAIN x1 = Fields /\ Same(x0, x1, {"token", "fromPark"})
          /\ x1.token = None /\ x1.fromPark = FALSE
      BY <1>1 DEF Page, Flags, Fields, Same
    <3> HIDE DEF x1
    <3>2. x1.fromPark \in BOOLEAN
      BY <3>1
    <3>3. Page(x1)
      <4>1. Page(x0)
        BY <1>1
      <4> QED  BY <3>1, <3>2, <4>1 DEF Page, Flags, Fields, Same
    <3> QED  BY <3>1, <3>3
  <2>2. \A r \in {x1.get, x1.flight, x1.guesting} : r # NoRequest => r.as # None
    BY <1>0, <1>1, <2>1 DEF Same, Fields, Asked, Bears
  <2>3. /\ Page(x2)
        /\ Same(x1, x2, {"shown", "halted", "notFound", "flight", "get", "guesting", "loads"})
        /\ x2.shown = None /\ ~x2.halted
        /\ x2.flight = Outdated(x.flight) /\ x2.get = Outdated(x.get)
        /\ x2.guesting = Outdated(x.guesting)
        /\ Outdates(x.loads, x2.loads)
    <3> HIDE DEF x1
    <3>1. x1.flight = x.flight /\ x1.get = x.get /\ x1.guesting = x.guesting /\ x1.loads = x.loads
      BY <1>1, <2>1 DEF Same, Fields
    <3> QED  BY <2>1, <2>2, <3>1, ResetWorldIs
  <2> HIDE DEF x1, x2
  <2>4. /\ x2.boot = "done" /\ x2.identity = "guest" /\ x2.auth = x.auth /\ x2.pending = x.pending
        /\ x2.claim = x.claim /\ x2.leaving = x.leaving /\ x2.again = x.again
        /\ x2.asking = x.asking
        /\ x2.raced = x.raced /\ x2.cookie = x.cookie /\ x2.held = x.held
        /\ x2.misread = x.misread /\ x2.token = None /\ x2.parked = x.parked /\ ~x2.fromPark /\ x2.queue = x0.queue
    BY <1>1, <1>4, <2>1, <2>3 DEF Same, Fields
  <2>5. /\ ~x2.flight.fresh /\ ~x2.get.fresh /\ ~x2.guesting.fresh
        /\ x2.flight.cred = x.flight.cred
        /\ x2.guesting.as = x.guesting.as
        /\ x2.flight = NoRequest <=> x.flight = NoRequest
        /\ x2.get = NoRequest <=> x.get = NoRequest
        /\ x2.guesting = NoRequest <=> x.guesting = NoRequest
        /\ \A r \in {x2.get, x2.flight, x2.guesting} : r # NoRequest => r.as # None
    <3>1. \A r \in {x.get, x.flight, x.guesting} : r \in Requests /\ (r # NoRequest => r.as # None)
      BY <1>0 DEF Page, Asked, Bears
    <3> QED  BY <2>3, <3>1, OutdatedIs
  <2>6. ~Loose(x2, s) => ~Loose(x, s) /\ ~x.again
    <3>1. ~Loose(x2, s) => ~x.raced
      BY <2>4 DEF Loose
    <3> QED  BY <1>0, <1>4, <3>1 DEF Making, Over, Loose
  <2>7. ~x.pending /\ x.claim = NoRequest
    BY <1>0, <1>4 DEF AsSession
  <2>8. Blank(x2) /\ AsSession(x2) /\ AsGuest(x2)
    BY <1>0, <1>4, <2>4, <2>7 DEF Blank, AsSession, AsGuest
  <2>9. Asked(x2, s)
    <3>1. x2.guesting # NoRequest => x2.guesting.as = "guest"
      BY <1>0, <2>5 DEF Asked, Bears
    <3>2. x2.flight # NoRequest => x2.queue # <<>>
      BY <1>1, <2>4, <2>5
    <3> QED  BY <2>4, <2>5, <2>7, <3>1, <3>2 DEF Asked, Bears
  <2>10. Making(x2, s) /\ Shows(x2, s)
    BY <2>3, <2>4, <2>6 DEF Making, Shows, Outdates, IsOwn
  <2>11. Queued(x2, s) /\ FlightHome(x2, s) /\ FromPark(x2, s)
    BY <1>2, <1>4, <2>4, <2>5
  <2>12. Kept(x2, s)
    <3>2. \A g \in Guests : g # None
      BY GameStoreAssumption
    <3>3. s.carried = {} /\ x.token \in Guests \ s.hurried => s.guest[x.token] # "live"
      BY <1>4, <3>2 DEF Over, Loose
    <3>4. ~x2.raced /\ s.carried = {} => \A l \in x2.loads : l.by # "guest"
      <4> SUFFICES ASSUME ~x2.raced, s.carried = {}, NEW l \in x2.loads, l.by = "guest"
                   PROVE  FALSE
        BY <2>3
      <4>1. PICK k \in x.loads : l.by = k.by /\ l.world = k.world
        BY <2>3 DEF Outdates
      <4>2. k.world = x.token /\ s.guest[k.world] = "live" /\ k.world \in World
        BY <1>0, <2>4, <4>1 DEF Kept, Page, Loads
      <4> QED  BY <1>4, <2>4, <4>2, GameStoreAssumption DEF Over, Loose, World
    <3> QED  BY <1>0, <2>3, <2>4, <3>2, <3>3, <3>4 DEF Kept
  <2>13. Core(x2, s)
    BY <2>3, <2>8, <2>9, <2>10, <2>11, <2>12
  <2>14. Core(y, s) /\ Same(x2, y, {"guesting"}) /\ (x2.auth = "idle" => y.guesting # NoRequest)
    BY <2>0, <2>3, <2>4, <2>6, <2>13, CreateGuestKeeps
  <2> QED  BY <1>4, <2>4, <2>5, <2>14 DEF Same, Fields, Good, Open, OnItsWay
<1>5. CASE x.identity = "guest" /\ ~(x.fromPark /\ api)
  <2>1. y = [x0 EXCEPT !.halted = TRUE]
    BY <1>5 DEF Expire, x0
  <2>2. DOMAIN y = Fields /\ Same(x0, y, {"halted"}) /\ y.halted = TRUE
    BY <1>1, <2>1 DEF Page, Flags, Fields, Same
  <2>3. y.halted \in BOOLEAN
    BY <2>2
  <2>4. Page(y)
    <3>1. Page(x0)
      BY <1>1
    <3> QED  BY <2>2, <2>3, <3>1 DEF Page, Flags, Fields, Same
  <2>5. Same(x, y, {"queue", "halted"}) /\ y.queue = x0.queue
    BY <1>1, <2>2 DEF Fields, Same
  <2>6. /\ Loose(y, s) <=> Loose(x, s)
        /\ Waits(y) <=> Waits(x)
        /\ Owner(y, s) = Owner(x, s)
    BY <2>5 DEF Same, Fields, Loose, Waits, Owner
  <2>7. Blank(y) /\ AsSession(y) /\ AsGuest(y)
    BY <1>0, <1>5, <2>5 DEF Same, Fields, Blank, AsSession, AsGuest
  <2>8. Asked(y, s)
    <3>1. x.flight # NoRequest => y.queue # <<>>
      BY <1>1, <2>5
    <3> QED  BY <1>0, <2>5, <2>6, <3>1 DEF Same, Fields, Asked, Bears
  <2>9. Making(y, s) /\ Shows(y, s)
    BY <1>0, <2>5, <2>6 DEF Same, Fields, Making, Shows, IsOwn
  <2>10. Queued(y, s) /\ FlightHome(y, s) /\ FromPark(y, s)
    BY <1>2, <2>5 DEF Same, Fields
  <2>11. Kept(y, s)
    <3>1. s.carried = {} /\ ~Loose(x, s) => ~x.again /\ ~Waits(x) /\ s.guest[x.token] # "live"
      BY <1>0, <1>5 DEF Over, Making
    <3> QED  BY <1>0, <2>5, <2>6, <3>1 DEF Same, Fields, Kept
  <2>12. Open(y) /\ OnItsWay(y, s)
    BY <2>2, <2>5 DEF Good, Open, OnItsWay, Same, Fields
  <2> QED  BY <2>4, <2>5, <2>7, <2>8, <2>9, <2>10, <2>11, <2>12 DEF Good, Same, Fields
<1> QED  BY <1>0, <1>3, <1>4, <1>5

\* A page with another flag raised is the same page.
LEMMA NotFoundKeeps ==
    ASSUME NEW x, NEW s, Good(x, s), NEW y, y = [x EXCEPT !.notFound = TRUE]
    PROVE  Good(y, s) /\ Same(x, y, {"notFound"})
<1> USE DEF Core
<1>0. Core(x, s)
  BY DEF Good
<1>1. DOMAIN y = Fields /\ Same(x, y, {"notFound"}) /\ y.notFound = TRUE
  BY <1>0 DEF Page, Fields, Same
<1>2. y.notFound \in BOOLEAN
  BY <1>1
<1>3. Page(y)
  <2>1. Page(x)
    BY <1>0
  <2> QED  BY <1>1, <1>2, <2>1 DEF Page, Flags, Fields, Same
<1>4. /\ Loose(y, s) <=> Loose(x, s)
      /\ Waits(y) <=> Waits(x)
      /\ Owner(y, s) = Owner(x, s)
  BY <1>1 DEF Same, Fields, Loose, Waits, Owner
<1>5. Blank(y) /\ AsSession(y) /\ AsGuest(y) /\ Asked(y, s)
  <2>1. Blank(x) /\ AsSession(x) /\ AsGuest(x) /\ Asked(x, s)
    BY <1>0
  <2>2. \A f \in Fields \ {"notFound"} : y[f] = x[f]
    BY <1>1 DEF Same
  <2> HIDE DEF Core
  <2>3. Blank(y) /\ AsSession(y) /\ AsGuest(y)
    BY <2>1, <2>2 DEF Fields, Blank, Quiet, AsSession, AsGuest
  <2>4. Asked(y, s)
    BY <1>4, <2>1, <2>2 DEF Fields, Asked, Bears
  <2> QED  BY <2>3, <2>4
<1>6. Making(y, s) /\ Shows(y, s) /\ Kept(y, s)
  BY <1>0, <1>1, <1>4 DEF Same, Fields, Making, Shows, Kept, IsOwn
<1>7. Queued(y, s) /\ FlightHome(y, s) /\ FromPark(y, s)
  BY <1>0, <1>1, <1>4 DEF Same, Fields, Queued, Leaves, Fits, FlightHome, FromPark, IsOwn
<1> QED  BY <1>0, <1>1, <1>3, <1>5, <1>6, <1>7 DEF Good, Open, OnItsWay, Same, Fields

\* #handle ignores what is not about the page's own world.
LEMMA HandleGoneKeeps ==
    ASSUME NEW x, NEW s, Surrounds(s), Good(x, s), x.boot = "done",
           NEW r, NEW status, ~Ignored(x, r) => Over(x, s),
           NEW y, y = HandleGone(x, r, status)
    PROVE  Good(y, s) /\ (x.flight # NoRequest => y.flight # NoRequest)
<1>1. CASE Ignored(x, r)
  BY <1>1 DEF HandleGone
<1>2. CASE ~Ignored(x, r) /\ (status = 401 \/ x.notFound)
  <2>1. \E api \in BOOLEAN : y = Expire(x, api)
    BY <1>2 DEF HandleGone
  <2> QED  BY <1>2, <2>1, ExpireKeeps
<1>3. CASE ~Ignored(x, r) /\ ~(status = 401 \/ x.notFound)
  <2> DEFINE z == [x EXCEPT !.notFound = TRUE]
  <2>1. y = WantGet(z)
    BY <1>3 DEF HandleGone
  <2>2. Good(z, s) /\ Same(x, z, {"notFound"})
    BY NotFoundKeeps
  <2> HIDE DEF z
  <2>3. Core(y, s) /\ Same(z, y, {"get"})
    BY <2>1, <2>2, WantGetKeeps DEF Good
  <2> QED  BY <2>2, <2>3 DEF Good, Open, OnItsWay, Same, Fields
<1> QED  BY <1>1, <1>2, <1>3

\* #afterClaim
LEMMA AfterClaimKeeps ==
    ASSUME NEW x, NEW s, Surrounds(s), Core(x, s), x.boot = "done", ~x.pending,
           OnItsWay(x, s), NEW y, y = AfterClaim(x)
    PROVE  Good(y, s)
<1> DEFINE z == StartOutbox(x)
<1>1. Core(z, s) /\ Same(x, z, {"held", "flight"}) /\ ~z.held
  BY StartOutboxKeeps
<1>2. y = (IF z.shown = None THEN WantGet(z) ELSE z)
  BY DEF AfterClaim
<1> HIDE DEF z
<1>3. Core(y, s) /\ Same(z, y, {"get"})
  <2>1. CASE z.shown = None
    BY <1>1, <1>2, <2>1, WantGetKeeps
  <2>2. CASE z.shown # None
    BY <1>1, <1>2, <2>2 DEF Same
  <2> QED  BY <2>1, <2>2
<1>4. OnItsWay(y, s) /\ Open(y)
  BY <1>1, <1>3 DEF Same, Fields, OnItsWay, Open
<1> QED  BY <1>3, <1>4 DEF Good

\* #settleClaim, of a page whose token is gone.
LEMMA SettleClaimKeeps ==
    ASSUME NEW x, NEW s, Core(x, s), x.boot = "done", x.identity = "session", x.pending,
           x.token = None, x.claim = NoRequest,
           NEW y, y = SettleClaim(x)
    PROVE  /\ Core(y, s) /\ Same(x, y, {"pending", "auth"})
           /\ ~y.pending /\ y.auth = "idle" /\ Quiet(y)
<1> USE DEF Core
<1>1. /\ DOMAIN y = Fields /\ Same(x, y, {"pending", "auth"})
      /\ y.pending = FALSE /\ y.auth = "idle"
  BY DEF SettleClaim, Page, Fields, Same
<1>2. y.pending \in BOOLEAN
  BY <1>1
<1>3. Page(y)
  BY <1>1, <1>2 DEF Page, Flags, Fields, Same
<1>4. Quiet(x) /\ Quiet(y)
  BY <1>1 DEF AsSession, Quiet, Same, Fields
<1>5. /\ Loose(y, s) <=> Loose(x, s)
      /\ Waits(y) <=> Waits(x)
  BY <1>1 DEF Same, Fields, Loose, Waits
<1>6. Blank(y) /\ AsSession(y) /\ AsGuest(y)
  BY <1>1 DEF Same, Fields, Blank, AsSession, AsGuest
<1>7. Asked(y, s) /\ Making(y, s) /\ Kept(y, s)
  BY <1>1, <1>5 DEF Same, Fields, Asked, Making, Kept, Bears
<1>8. Shows(y, s) /\ Queued(y, s) /\ FlightHome(y, s) /\ FromPark(y, s)
  BY <1>4 DEF Quiet, Shows, Queued, FlightHome, FromPark, IsOwn
<1> QED  BY <1>1, <1>3, <1>4, <1>6, <1>7, <1>8

\* A claim that was not granted: the session starts with a world of its own.
LEMMA SettledKeeps ==
    ASSUME NEW x, NEW s, Surrounds(s), Core(x, s), x.boot = "done", x.identity = "session",
           x.pending, x.token = None, x.claim = NoRequest,
           NEW y, y = AfterClaim(ResetWorld(ClearOutbox(SettleClaim(x))))
    PROVE  Good(y, s)
<1> USE DEF Core
<1> DEFINE x1 == SettleClaim(x)
           x2 == ClearOutbox(x1)
           x3 == ResetWorld(x2)
<1>1. /\ Core(x1, s) /\ Same(x, x1, {"pending", "auth"})
      /\ ~x1.pending /\ x1.auth = "idle" /\ Quiet(x1)
  BY SettleClaimKeeps
<1>2. /\ Page(x2) /\ Same(x1, x2, {"queue"}) /\ x2.queue = <<>>
  <2> HIDE DEF x1
  <2> QED  BY <1>1, ClearOutboxIs DEF Quiet
<1>3. x2.flight = NoRequest /\ x2.get = NoRequest /\ x2.guesting = NoRequest
  BY <1>1, <1>2 DEF Same, Fields, Quiet, AsSession
<1>4. /\ Page(x3)
      /\ Same(x2, x3, {"shown", "halted", "notFound", "flight", "get", "guesting", "loads"})
      /\ x3.shown = None /\ ~x3.halted
      /\ x3.flight = Outdated(NoRequest) /\ x3.get = Outdated(NoRequest)
      /\ x3.guesting = Outdated(NoRequest) /\ Outdates(x2.loads, x3.loads)
  <2> HIDE DEF x2
  <2> QED  BY <1>2, <1>3, ResetWorldIs
<1> HIDE DEF x1, x2, x3
<1>5. /\ x3.flight = NoRequest /\ x3.get = NoRequest /\ x3.guesting = NoRequest
      /\ x3.loads = {} /\ x3.queue = <<>>
  <2>1. Outdated(NoRequest) = NoRequest
    BY OutdatedIs, NoRequestIs
  <2>2. x2.loads = {}
    BY <1>1, <1>2 DEF Same, Fields, Quiet
  <2> QED  BY <1>2, <1>3, <1>4, <2>1, <2>2 DEF Outdates, Same, Fields
<1>6. /\ x3.boot = "done" /\ x3.identity = "session" /\ x3.auth = "idle" /\ ~x3.pending
      /\ x3.claim = NoRequest /\ x3.again = x.again /\ x3.raced = x.raced /\ x3.token = None
      /\ x3.parked = x.parked /\ x3.leaving = x.leaving /\ x3.misread = x.misread
      /\ x3.asking = x.asking
  BY <1>1, <1>2, <1>4 DEF Same, Fields
<1>7. Blank(x3) /\ AsSession(x3) /\ AsGuest(x3)
  BY <1>4, <1>5, <1>6 DEF Blank, AsSession, AsGuest
<1>8. Asked(x3, s) /\ Making(x3, s) /\ Shows(x3, s)
  BY <1>4, <1>5, <1>6 DEF Asked, Making, Shows, IsOwn, Bears
<1>9. Queued(x3, s) /\ FlightHome(x3, s) /\ FromPark(x3, s)
  BY <1>5, <1>6 DEF Queued, FlightHome, FromPark
<1>10. Kept(x3, s)
  BY <1>5, <1>6 DEF Kept
<1>11. Core(x3, s)
  BY <1>4, <1>7, <1>8, <1>9, <1>10
<1>12. y = AfterClaim(x3) /\ OnItsWay(x3, s)
  BY <1>6 DEF x1, x2, x3, OnItsWay
<1> QED  BY <1>6, <1>11, <1>12, AfterClaimKeeps

\* #claim: the stored token's, or none.
LEMMA ClaimKeeps ==
    ASSUME NEW x, NEW s, Surrounds(s), Core(x, s), x.boot = "done", x.identity = "session",
           x.pending, NEW y, y = Claim(x)
    PROVE  Good(y, s)
<1> USE DEF Core
<1>1. CASE x.claim # NoRequest
  BY <1>1 DEF Claim, Good, Open, OnItsWay
<1>2. CASE x.claim = NoRequest /\ x.token # None
  <2>1. y = [x EXCEPT !.claim = Request(x)]
    BY <1>2 DEF Claim
  <2>2. DOMAIN y = Fields /\ Same(x, y, {"claim"}) /\ y.claim = Request(x)
    BY <2>1 DEF Page, Fields, Same
  <2>3. y.claim \in Requests /\ y.claim.as # None
    BY <2>2, RequestIs
  <2>4. Page(y)
    BY <2>2, <2>3 DEF Page, Flags, Fields, Same
  <2>5. /\ Loose(y, s) <=> Loose(x, s)
        /\ Waits(y) <=> Waits(x)
        /\ Owner(y, s) = Owner(x, s)
    BY <2>2 DEF Same, Fields, Loose, Waits, Owner
  <2>6. Blank(y) /\ AsSession(y) /\ AsGuest(y)
    BY <1>2, <2>2 DEF Same, Fields, Blank, Quiet, AsSession, AsGuest
  <2>7. Asked(y, s) /\ Making(y, s) /\ Kept(y, s)
    BY <2>2, <2>3, <2>5 DEF Same, Fields, Asked, Making, Kept, Bears
  <2>8. Shows(y, s) /\ Queued(y, s) /\ FlightHome(y, s) /\ FromPark(y, s)
    BY <2>2, <2>5 DEF Same, Fields, Shows, Queued, Leaves, Fits, FlightHome, FromPark, IsOwn
  <2> QED  BY <2>2, <2>4, <2>6, <2>7, <2>8 DEF Good, Open, OnItsWay, Same, Fields
<1>3. CASE x.claim = NoRequest /\ x.token = None
  <2>1. y = AfterClaim(ResetWorld(ClearOutbox(SettleClaim(x))))
    BY <1>3 DEF Claim
  <2> QED  BY <1>3, <2>1, SettledKeeps
<1> QED  BY <1>1, <1>2, <1>3

\* #release
LEMMA ReleaseKeeps ==
    ASSUME NEW x, NEW s, Surrounds(s), NEW z, z = [x EXCEPT !.auth = "idle"], Core(z, s),
           z.boot = "done",
           z.identity = "guest" /\ z.token = None /\ ~Loose(z, s) =>
                ~z.again /\ (s.carried = {} => ~z.halted),
           ~z.pending, NEW y, y = Release(x)
    PROVE  Good(y, s)
<1> DEFINE w == StartOutbox(z)
<1>1. y = Resume(w)
  BY DEF Release
<1>2. Core(w, s) /\ Same(z, w, {"held", "flight"}) /\ ~w.held
  BY StartOutboxKeeps
<1> HIDE DEF w
<1>3. /\ w.boot = "done"
      /\ w.identity = "guest" /\ w.token = None /\ ~Loose(w, s) =>
                ~w.again /\ (s.carried = {} => ~w.halted)
  BY <1>2 DEF Same, Fields, Loose
<1>4. Core(y, s) /\ Same(w, y, {"get", "guesting"}) /\ OnItsWay(y, s)
  BY <1>1, <1>2, <1>3, ResumeKeeps
<1> QED  BY <1>2, <1>4 DEF Good, Open, Same, Fields

-----------------------------------------------------------------------------
(***************************************************************************)
(* Steps.                                                                  *)
(***************************************************************************)
\* What is around the page after a step, but for what the step sends.
Meanwhile ==
    [guest |-> guest', acct |-> acct', made |-> made', carried |-> carried', hurried |-> hurried',
     astray |-> astray', claims |-> Around.claims]

\* Worlds are given once, batches are made once, and history only grows.
Grows ==
    /\ acct # None => acct' = acct
    /\ \A b \in Batches : made[b] # None => made'[b] = made[b]
    /\ carried \subseteq carried' /\ hurried \subseteq hurried' /\ astray \subseteq astray'

\* A claim that is sent is of a page with nothing on the way.
LEMMA ClaimsSent ==
    ASSUME NEW x, NEW s, NEW t, Good(x, s),
           t.guest = s.guest, t.acct = s.acct, t.made = s.made, t.carried = s.carried,
           t.hurried = s.hurried, t.astray = s.astray,
           \A g \in t.claims : g \in s.claims \/ x.claim # NoRequest
    PROVE  Good(x, t)
<1> USE DEF Core
<1>1. Core(x, s) /\ (x.claim # NoRequest => x.loads = {})
  BY DEF Good, AsSession, Quiet
<1>2. (Loose(x, t) <=> Loose(x, s)) /\ Owner(x, t) = Owner(x, s)
  BY DEF Loose, Owner
<1>3. Asked(x, t) /\ Making(x, t) /\ Shows(x, t)
  BY <1>1, <1>2 DEF Asked, Making, Shows, IsOwn, Bears
<1>4. Queued(x, t) /\ FlightHome(x, t) /\ FromPark(x, t)
  BY <1>1, <1>2 DEF Queued, Fits, FlightHome, Home, FromPark, IsOwn
<1>5. Kept(x, t)
  BY <1>1, <1>2 DEF Kept
<1> QED  BY <1>1, <1>3, <1>4, <1>5 DEF Good, OnItsWay

\* What stays home when the surroundings grow.
LEMMA HomeStays ==
    ASSUME Inv, Grows, NEW b \in Batches, made[b] # None, NEW cred, Home(b, cred, Around)
    PROVE  Home(b, cred, Around') /\ made'[b] # None
BY DEF Grows, Home, Around

\* What the page sends goes on the wire: a step that keeps the page in good order, among
\* surroundings that only grew, keeps the invariant.
LEMMA Framed ==
    ASSUME Inv, Surrounds(Meanwhile), Good(c', Meanwhile), Becomes(c'), Grows, applied' = applied
    PROVE  Inv'
<1>1. wire' = wire \cup Sent(c')
  BY DEF Becomes
<1>2. Core(c', Meanwhile) /\ Page(c')
  BY DEF Good, Core
<1>3. \A r \in Sent(c') :
        /\ r.kind = "post" => c'.flight # NoRequest /\ r.batch = Head(c'.queue)
                              /\ r.cred = c'.flight.cred
        /\ r.kind = "claim" => c'.claim # NoRequest /\ r.cred = c'.token
  BY DEF Sent
<1>4. Around' = [guest |-> guest', acct |-> acct', made |-> made',
                 carried |-> carried', hurried |-> hurried', astray |-> astray',
                 claims |-> {g \in Guests : \E r \in wire' : r.kind = "claim" /\ r.cred = g}]
  BY DEF Around
<1>5. \A g \in Around'.claims : g \in Around.claims \/ (c'.claim # NoRequest /\ g = c'.token)
  BY <1>1, <1>3, <1>4 DEF Around
<1>6. /\ Around'.guest = Meanwhile.guest /\ Around'.acct = Meanwhile.acct
      /\ Around'.made = Meanwhile.made /\ Around'.carried = Meanwhile.carried
      /\ Around'.hurried = Meanwhile.hurried /\ Around'.astray = Meanwhile.astray
      /\ Meanwhile.claims = Around.claims
  BY <1>4 DEF Meanwhile
<1>7. Good(c', Around')
  BY <1>5, <1>6, ClaimsSent
<1>8. Surrounds(Around')
  <2>1. c'.claim # NoRequest => c'.token # None /\ guest'[c'.token] # "free"
    BY <1>2 DEF Core, AsSession, Kept, Page, Meanwhile
  <2>2. Around'.claims \subseteq Guests
    BY <1>4
  <2>3. \A g \in Around'.claims : guest'[g] # "free"
    BY <1>5, <1>6, <2>1 DEF Surrounds, Meanwhile
  <2> QED  BY <1>6, <2>2, <2>3 DEF Surrounds, Meanwhile
<1>9. Posted(wire', Around')
  <2> SUFFICES ASSUME NEW r \in wire'
               PROVE  /\ r.kind = "post" => r.batch \in Batches /\ made'[r.batch] # None
                                            /\ Home(r.batch, r.cred, Around')
                      /\ r.kind = "claim" => r.cred \in Guests
    BY <1>4 DEF Posted
  <2>1. CASE r \in wire
    <3>1. /\ r.kind = "post" => r.batch \in Batches /\ made[r.batch] # None
                                /\ Home(r.batch, r.cred, Around)
          /\ r.kind = "claim" => r.cred \in Guests
      BY <2>1 DEF Inv, Posted, Around
    <3> QED  BY <3>1, HomeStays
  <2>2. CASE r \in Sent(c')
    <3>1. r.kind = "claim" => r.cred \in Guests
      BY <1>2, <1>3, <2>2 DEF Core, AsSession, Page
    <3>2. ASSUME r.kind = "post"
          PROVE  r.batch \in Batches /\ made'[r.batch] # None /\ Home(r.batch, r.cred, Around')
      <4>1. c'.flight # NoRequest /\ r.batch = Head(c'.queue) /\ r.cred = c'.flight.cred
        BY <1>3, <2>2, <3>2
      <4>2. c'.queue # <<>> /\ c'.queue \in Seq(Batches)
        BY <1>2, <4>1 DEF Core, Asked, Page, Bears
      <4>3. r.batch = c'.queue[1] /\ r.batch \in Batches /\ 1 \in 1..Len(c'.queue)
        BY <4>1, <4>2
      <4>4. Home(r.batch, r.cred, Meanwhile) /\ Meanwhile.made[r.batch] # None
        BY <1>2, <4>1, <4>3 DEF Core, FlightHome, Queued
      <4> QED  BY <1>6, <4>3, <4>4 DEF Home, Meanwhile
    <3> QED  BY <3>1, <3>2
  <2> QED  BY <1>1, <2>1, <2>2
<1>10. Sent(c)' \subseteq wire'
  BY <1>1
<1>11. /\ BatchStaysHome'
       /\ (applied \subseteq Batches \X World)' /\ (\A p \in applied : made[p[1]] # None)'
  BY DEF Inv, BatchStaysHome, Grows
<1> QED  BY <1>7, <1>8, <1>9, <1>10, <1>11 DEF Inv

\* A step of the page alone.
LEMMA Moved ==
    ASSUME Inv, Good(c', Around), Becomes(c'), UNCHANGED <<server, history>>
    PROVE  Inv'
<1>1. Meanwhile = Around
  BY DEF Meanwhile, Around, server, history
<1>2. Grows /\ applied' = applied
  BY DEF Grows, server, history
<1> QED  BY <1>1, <1>2, Framed DEF Inv

\* A step of the server: the page and what was sent are as they were.
LEMMA Served ==
    ASSUME Inv, Surrounds(Meanwhile), Good(c, Meanwhile), Grows, c' = c, wire' = wire,
           applied' = applied
    PROVE  Inv'
<1>1. Becomes(c')
  BY DEF Becomes, Inv
<1> QED  BY <1>1, Framed

\* A page before its boot is done keeps the tokens, and that is all it does.
LEMMA BlankGood ==
    ASSUME NEW x, NEW s, Core(x, s), NEW y, Page(y), y.boot # "done", Blank(y),
           {y.token, y.parked} \cup {None} = {x.token, x.parked} \cup {None},
           y.token = None \/ y.parked = None
    PROVE  Good(y, s)
<1> USE DEF Core
<1>1. Quiet(y) /\ y.identity # "session" /\ ~y.pending /\ y.claim = NoRequest
      /\ y.guesting = NoRequest /\ ~y.again /\ ~y.halted /\ ~y.raced /\ ~y.misread /\ ~y.asking
  BY DEF Blank
<1>2. AsSession(y) /\ AsGuest(y)
  BY <1>1 DEF AsSession, AsGuest
<1>3. Asked(y, s) /\ Making(y, s) /\ Shows(y, s)
  BY <1>1 DEF Quiet, Asked, Making, Waits, Shows, IsOwn, Bears
<1>4. Queued(y, s) /\ FlightHome(y, s) /\ FromPark(y, s)
  BY <1>1 DEF Quiet, Queued, FlightHome, FromPark
<1>5. Kept(y, s)
  <2>1. \A g \in Guests : g # None
    BY GameStoreAssumption
  <2> QED  BY <1>1, <2>1 DEF Quiet, Kept
<1> QED  BY <1>2, <1>3, <1>4, <1>5 DEF Good, Open, OnItsWay

\* A page that is closed leaves its tokens behind, and nothing else.
LEMMA ClosedGood ==
    ASSUME NEW x, NEW s, Core(x, s), NEW callback \in BOOLEAN,
           NEW y, y = Closed(x.token, x.parked, x.cookie, callback)
    PROVE  Good(y, s)
<1> USE DEF Core
<1>1. DOMAIN y = Fields
  BY DEF Closed, Fields
<1>2. /\ y.boot = "closed" /\ y.identity = "unknown" /\ y.auth = "idle"
      /\ y.pending = FALSE /\ y.leaving = FALSE /\ y.awaits = FALSE /\ y.asking = FALSE
      /\ y.raced = FALSE /\ y.misread = FALSE
      /\ y.halted = FALSE /\ y.notFound = FALSE /\ y.fromPark = FALSE /\ y.again = FALSE
      /\ y.held = TRUE /\ y.cookie = x.cookie /\ y.callback = callback
  BY DEF Closed
<1>3. /\ y.claim = NoRequest /\ y.guesting = NoRequest /\ y.get = NoRequest /\ y.flight = NoRequest
      /\ y.shown = None /\ y.loads = {} /\ y.queue = <<>>
      /\ y.token = x.token /\ y.parked = x.parked
  BY DEF Closed
<1>4. \A f \in Flags : y[f] \in BOOLEAN
  <2>1. x.cookie \in BOOLEAN
    BY DEF Page, Flags
  <2> QED  BY <1>2, <2>1 DEF Flags
<1>5. Page(y)
  <2>1. NoRequest \in Requests /\ <<>> \in Seq(Batches)
    BY NoRequestIs
  <2>2. x.token \in Guests \cup {None} /\ x.parked \in Guests \cup {None}
    BY DEF Page
  <2> QED  BY <1>1, <1>2, <1>3, <1>4, <2>1, <2>2 DEF Page
<1>6. Blank(y)
  BY <1>2, <1>3 DEF Blank, Quiet
<1>7. y.token = None \/ y.parked = None
  BY <1>3 DEF AsGuest
<1> QED  BY <1>2, <1>3, <1>5, <1>6, <1>7, BlankGood

\* The page is loaded.
LEMMA LoadKeeps == ASSUME Inv, Load PROVE Inv'
<1> USE DEF Core
<1>1. PICK callback \in {c.callback, FALSE} :
        Becomes([c EXCEPT !.boot = "health", !.callback = callback])
  BY DEF Load
<1>2. Core(c, Around) /\ c.boot = "closed"
  BY DEF Inv, Good, Load
<1>3. callback \in BOOLEAN
  BY <1>2 DEF Page, Flags
<1>4. /\ DOMAIN c' = Fields /\ Same(c, c', {"boot", "callback"})
      /\ c'.boot = "health" /\ c'.callback = callback
  BY <1>1, <1>2 DEF Becomes, Page, Fields, Same
<1>5. Page(c')
  BY <1>2, <1>3, <1>4 DEF Page, Flags, Fields, Same
<1>6. Blank(c')
  BY <1>2, <1>4 DEF Blank, Quiet, Same, Fields
<1>7. c'.token = c.token /\ c'.parked = c.parked /\ (c.token = None \/ c.parked = None)
  BY <1>2, <1>4 DEF Same, Fields, AsGuest
<1>8. Good(c', Around)
  BY <1>2, <1>4, <1>5, <1>6, <1>7, BlankGood
<1> QED  BY <1>1, <1>8, Moved DEF Load, Becomes

\* The server is there.
LEMMA BootHealthKeeps == ASSUME Inv, BootHealth PROVE Inv'
<1> USE DEF Core
<1>1. Core(c, Around) /\ c.boot = "health" /\ c' = [c EXCEPT !.boot = "session"]
  BY DEF Inv, Good, BootHealth, Becomes
<1>2. DOMAIN c' = Fields /\ Same(c, c', {"boot"}) /\ c'.boot = "session"
  BY <1>1 DEF Page, Fields, Same
<1>3. Page(c')
  BY <1>1, <1>2 DEF Page, Flags, Fields, Same
<1>4. Blank(c')
  BY <1>1, <1>2 DEF Blank, Quiet, Same, Fields
<1>5. c'.token = c.token /\ c'.parked = c.parked /\ (c.token = None \/ c.parked = None)
  BY <1>1, <1>2 DEF Same, Fields, AsGuest
<1>6. Good(c', Around)
  BY <1>1, <1>2, <1>3, <1>4, <1>5, BlankGood
<1> QED  BY <1>1, <1>6, Moved DEF BootHealth, Becomes

\* The page is closed, or left for a sign-in.
LEMMA CloseKeeps == ASSUME Inv, Close \/ BeginSignIn PROVE Inv'
<1>1. Core(c, Around)
  BY DEF Inv, Good
<1>2. PICK callback \in BOOLEAN : c' = Closed(c.token, c.parked, c.cookie, callback)
  BY DEF Close, BeginSignIn, Becomes
<1>3. Good(c', Around)
  BY <1>1, <1>2, ClosedGood
<1> QED  BY <1>3, Moved DEF Close, BeginSignIn, Becomes

\* The boot is done, or the callback is being finished.
LEMMA BootSessionKeeps == ASSUME Inv, BootSession PROVE Inv'
<1> USE DEF Core
<1>11. PICK session \in {c.cookie, FALSE} :
        LET alone == IF session THEN c ELSE Unpark(c)
            x == [alone EXCEPT !.boot = "done", !.callback = FALSE] IN
        Becomes(
            IF c.callback /\ ~session
            THEN [x EXCEPT !.boot = "callback", !.identity = "guest", !.auth = "held"]
            ELSE IF session /\ c.token # None
            THEN Claim([x EXCEPT !.identity = "session", !.pending = TRUE, !.auth = "held"])
            ELSE Resume(StartOutbox(
                [x EXCEPT !.identity = IF session THEN "session" ELSE "guest",
                          !.misread = c.cookie /\ ~session])))
  BY DEF BootSession
<1> DEFINE alone == IF session THEN c ELSE Unpark(c)
           x == [alone EXCEPT !.boot = "done", !.callback = FALSE]
           s == Around
<1>0. Core(c, s) /\ Surrounds(s) /\ c.boot = "session" /\ UNCHANGED <<server, history>>
  BY DEF Inv, Good, BootSession
<1>12. c.cookie \in BOOLEAN
  BY <1>0 DEF Page, Flags
<1>13. session \in BOOLEAN /\ (session => c.cookie)
  BY <1>11, <1>12
<1>1. /\ Page(alone) /\ Same(c, alone, {"token", "parked", "fromPark"})
      /\ {alone.token, alone.parked} \cup {None} = {c.token, c.parked} \cup {None}
      /\ alone.token = None \/ alone.parked = None
      /\ ~session => alone.parked = None
  <2>1. c.token = None \/ c.parked = None
    BY <1>0 DEF AsGuest
  <2>2. CASE session
    BY <1>0, <2>1, <2>2 DEF Same
  <2>3. CASE ~session
    <3>1. alone = Unpark(c)
      BY <2>3
    <3> HIDE DEF alone
    <3> QED  BY <1>0, <2>1, <2>3, <3>1, UnparkIs
  <2> QED  BY <2>2, <2>3
<1> HIDE DEF alone
<1>2. /\ DOMAIN x = Fields /\ Same(alone, x, {"boot", "callback"})
      /\ x.boot = "done" /\ x.callback = FALSE
  BY <1>1 DEF Page, Fields, Same
<1>3. Becomes(
        IF c.callback /\ ~session
        THEN [x EXCEPT !.boot = "callback", !.identity = "guest", !.auth = "held"]
        ELSE IF session /\ c.token # None
        THEN Claim([x EXCEPT !.identity = "session", !.pending = TRUE, !.auth = "held"])
        ELSE Resume(StartOutbox(
            [x EXCEPT !.identity = IF session THEN "session" ELSE "guest",
                      !.misread = c.cookie /\ ~session])))
  BY <1>11 DEF alone
<1> HIDE DEF x
<1>4. Page(x)
  <2>1. x.callback \in BOOLEAN
    BY <1>2
  <2> QED  BY <1>1, <1>2, <2>1 DEF Page, Flags, Fields, Same
<1>5. /\ Quiet(x) /\ x.guesting = NoRequest /\ x.claim = NoRequest /\ x.held
      /\ ~x.again /\ ~x.raced /\ ~x.misread /\ ~x.leaving /\ ~x.asking /\ ~x.pending
      /\ ~x.halted /\ x.auth = "idle"
      /\ x.cookie = c.cookie /\ x.token = alone.token /\ x.parked = alone.parked
  BY <1>0, <1>1, <1>2 DEF Blank, Quiet, Same, Fields
<1>6. session => alone.token = c.token
  BY DEF alone
<1>7. CASE c.callback /\ ~session
  <2>1. c' = [x EXCEPT !.boot = "callback", !.identity = "guest", !.auth = "held"]
    BY <1>3, <1>7 DEF Becomes
  <2>2. /\ DOMAIN c' = Fields /\ Same(x, c', {"boot", "identity", "auth"})
        /\ c'.boot = "callback" /\ c'.identity = "guest" /\ c'.auth = "held"
    BY <1>4, <2>1 DEF Page, Fields, Same
  <2>3. Page(c')
    BY <1>4, <2>2 DEF Page, Flags, Fields, Same
  <2>4. Blank(c')
    BY <1>1, <1>5, <1>7, <2>2 DEF Blank, Quiet, Same, Fields
  <2>5. c'.token = alone.token /\ c'.parked = alone.parked
    BY <1>5, <2>2 DEF Same, Fields
  <2>6. Good(c', s)
    BY <1>0, <1>1, <2>2, <2>3, <2>4, <2>5, BlankGood
  <2> QED  BY <1>0, <1>3, <1>7, <2>1, <2>6, Moved
<1>8. CASE session /\ c.token # None
  <2> DEFINE z == [x EXCEPT !.identity = "session", !.pending = TRUE, !.auth = "held"]
  <2>1. c' = Claim(z)
    BY <1>3, <1>8 DEF Becomes
  <2>2. /\ DOMAIN z = Fields /\ Same(x, z, {"identity", "pending", "auth"})
        /\ z.identity = "session" /\ z.pending = TRUE /\ z.auth = "held"
    BY <1>4 DEF Page, Fields, Same
  <2> HIDE DEF z
  <2>3. Page(z)
    <3>1. z.pending \in BOOLEAN
      BY <2>2
    <3> QED  BY <1>4, <2>2, <3>1 DEF Page, Flags, Fields, Same
  <2>4. /\ z.boot = "done" /\ Quiet(z) /\ z.guesting = NoRequest /\ z.claim = NoRequest /\ z.held
        /\ ~z.again /\ ~z.raced /\ ~z.misread /\ ~z.leaving /\ ~z.asking /\ ~z.halted
        /\ z.token = alone.token /\ z.parked = alone.parked
    BY <1>2, <1>5, <2>2 DEF Same, Fields, Quiet
  <2>5. Blank(z) /\ AsSession(z) /\ AsGuest(z)
    BY <1>1, <2>2, <2>4 DEF Blank, AsSession, AsGuest
  <2>6. Asked(z, s) /\ Making(z, s) /\ Shows(z, s)
    BY <2>2, <2>4 DEF Quiet, Asked, Making, Shows, IsOwn, Bears
  <2>7. Queued(z, s) /\ FlightHome(z, s) /\ FromPark(z, s)
    BY <2>2, <2>4 DEF Quiet, Queued, FlightHome, FromPark
  <2>8. Kept(z, s)
    <3>1. \A g \in Guests : g # None
      BY GameStoreAssumption
    <3> QED  BY <1>0, <1>1, <2>2, <2>4, <3>1 DEF Quiet, Kept
  <2>9. Core(z, s)
    BY <2>3, <2>5, <2>6, <2>7, <2>8
  <2>10. Good(c', s)
    BY <1>0, <2>1, <2>2, <2>4, <2>9, ClaimKeeps
  <2> QED  BY <1>0, <1>3, <2>10, Moved DEF Becomes
<1>9. CASE ~(c.callback /\ ~session) /\ ~(session /\ c.token # None)
  <2> DEFINE mis == c.cookie /\ ~session
             z == [x EXCEPT !.identity = IF session THEN "session" ELSE "guest", !.misread = mis]
             w == StartOutbox(z)
  <2>1. c' = Resume(w)
    BY <1>3, <1>9 DEF Becomes, mis
  <2> HIDE DEF mis
  <2>2. /\ DOMAIN z = Fields /\ Same(x, z, {"identity", "misread"})
        /\ z.identity = (IF session THEN "session" ELSE "guest")
        /\ z.misread = mis
    BY <1>4 DEF Page, Fields, Same
  <2>14. mis \in BOOLEAN
    BY DEF mis
  <2>15. mis <=> c.cookie /\ ~session
    BY DEF mis
  <2> HIDE DEF z
  <2>3. Page(z)
    BY <1>4, <2>2, <2>14 DEF Page, Flags, Fields, Same
  <2>4. /\ z.boot = "done" /\ Quiet(z) /\ z.guesting = NoRequest /\ z.claim = NoRequest
        /\ ~z.again /\ ~z.raced /\ ~z.leaving /\ ~z.asking /\ ~z.halted /\ ~z.pending /\ z.auth = "idle"
        /\ z.token = alone.token /\ z.parked = alone.parked /\ z.cookie = c.cookie
    BY <1>2, <1>5, <2>2 DEF Same, Fields, Quiet
  <2>5. Blank(z) /\ AsSession(z) /\ AsGuest(z)
    BY <1>1, <1>6, <1>9, <2>2, <2>4, <2>15 DEF Blank, AsSession, AsGuest
  <2>6. Asked(z, s) /\ Making(z, s) /\ Shows(z, s)
    BY <2>2, <2>4 DEF Quiet, Asked, Making, Shows, Waits, IsOwn, Bears
  <2>7. Queued(z, s) /\ FlightHome(z, s) /\ FromPark(z, s)
    BY <2>2, <2>4 DEF Quiet, Queued, FlightHome, FromPark
  <2>8. Kept(z, s)
    <3>1. \A g \in Guests : g # None
      BY GameStoreAssumption
    <3> QED  BY <1>0, <1>1, <2>2, <2>4, <3>1 DEF Quiet, Kept
  <2>9. Core(z, s)
    BY <2>3, <2>5, <2>6, <2>7, <2>8
  <2>10. Core(w, s) /\ Same(z, w, {"held", "flight"}) /\ ~w.held
    BY <1>0, <2>4, <2>9, StartOutboxKeeps
  <2> HIDE DEF w
  <2>11. w.boot = "done" /\ ~w.again /\ ~w.halted
    BY <2>4, <2>10 DEF Same, Fields
  <2>12. Core(c', s) /\ Same(w, c', {"get", "guesting"}) /\ OnItsWay(c', s)
    BY <1>0, <2>1, <2>10, <2>11, ResumeKeeps
  <2>13. Good(c', s)
    BY <2>10, <2>12 DEF Good, Open, Same, Fields
  <2> QED  BY <1>0, <1>3, <2>13, Moved DEF Becomes
<1> QED  BY <1>7, <1>8, <1>9

\* The server signs in before the page knows.
LEMMA SignInCommitsKeeps == ASSUME Inv, SignInCommits PROVE Inv'
<1> USE DEF Core
<1>1. Core(c, Around) /\ c.boot = "callback" /\ c' = [c EXCEPT !.cookie = TRUE]
  BY DEF Inv, Good, SignInCommits
<1>2. DOMAIN c' = Fields /\ Same(c, c', {"cookie"}) /\ c'.cookie = TRUE
  BY <1>1 DEF Page, Fields, Same
<1>3. Page(c')
  <2>1. c'.cookie \in BOOLEAN
    BY <1>2
  <2> QED  BY <1>1, <1>2, <2>1 DEF Page, Flags, Fields, Same
<1>4. Blank(c')
  BY <1>1, <1>2 DEF Blank, Quiet, Same, Fields
<1>5. c'.token = c.token /\ c'.parked = c.parked /\ (c.token = None \/ c.parked = None)
      /\ c'.boot = "callback"
  BY <1>1, <1>2 DEF Same, Fields, AsGuest
<1>6. Good(c', Around)
  BY <1>1, <1>3, <1>4, <1>5, BlankGood
<1>7. Sent(c') = Sent(c)
  <2>1. c'.queue = c.queue /\ c'.flight = c.flight /\ c'.get = c.get /\ c'.claim = c.claim
    BY <1>2 DEF Same, Fields
  <2> QED  BY <1>5, <2>1 DEF Sent
<1>8. Becomes(c')
  BY <1>7 DEF Becomes, Inv, SignInCommits
<1> QED  BY <1>6, <1>8, Moved DEF SignInCommits

\* The session dies behind the page's back.
LEMMA SessionDiesKeeps == ASSUME Inv, SessionDies PROVE Inv'
<1> USE DEF Core
<1>1. Good(c, Around) /\ c' = [c EXCEPT !.cookie = FALSE]
  BY DEF Inv, SessionDies
<1>2. DOMAIN c' = Fields /\ Same(c, c', {"cookie"}) /\ c'.cookie = FALSE
  BY <1>1 DEF Good, Page, Fields, Same
<1>3. Page(c')
  <2>1. c'.cookie \in BOOLEAN
    BY <1>2
  <2> QED  BY <1>1, <1>2, <2>1 DEF Good, Page, Flags, Fields, Same
<1>4. /\ Loose(c', Around) <=> Loose(c, Around)
      /\ Waits(c') <=> Waits(c)
      /\ Owner(c', Around) = Owner(c, Around)
  BY <1>2 DEF Same, Fields, Loose, Waits, Owner
<1>5. Blank(c') /\ AsSession(c') /\ AsGuest(c') /\ Asked(c', Around)
  <2>1. Blank(c) /\ AsSession(c) /\ AsGuest(c) /\ Asked(c, Around)
    BY <1>1 DEF Good
  <2> HIDE DEF Core
  <2>2. Blank(c') /\ AsSession(c') /\ AsGuest(c')
    BY <1>2, <2>1 DEF Same, Fields, Blank, Quiet, AsSession, AsGuest
  <2>3. Asked(c', Around)
    BY <1>2, <1>4, <2>1 DEF Same, Fields, Asked, Bears
  <2> QED  BY <2>2, <2>3
<1>6. Making(c', Around) /\ Shows(c', Around) /\ Kept(c', Around)
  BY <1>1, <1>2, <1>4 DEF Good, Same, Fields, Making, Shows, Kept, IsOwn
<1>7. Queued(c', Around) /\ FlightHome(c', Around) /\ FromPark(c', Around)
  BY <1>1, <1>2, <1>4 DEF Good, Same, Fields, Queued, Leaves, Fits, FlightHome, FromPark, IsOwn
<1>8. Good(c', Around)
  BY <1>1, <1>2, <1>3, <1>5, <1>6, <1>7 DEF Good, Open, OnItsWay, Same, Fields
<1>9. Sent(c') = Sent(c)
  <2>1. c'.queue = c.queue /\ c'.flight = c.flight /\ c'.get = c.get /\ c'.claim = c.claim
        /\ c'.token = c.token
    BY <1>2 DEF Same, Fields
  <2> QED  BY <2>1 DEF Sent
<1>10. Becomes(c')
  BY <1>9 DEF Becomes, Inv, SessionDies
<1> QED  BY <1>8, <1>10, Moved DEF SessionDies

\* The page learns of its session, and claims its guest's world first.
LEMMA SignInSucceedsKeeps == ASSUME Inv, SignInSucceeds PROVE Inv'
<1> USE DEF Core
<1> DEFINE z == [c EXCEPT !.boot = "done", !.identity = "session", !.pending = TRUE]
           s == Around
<1>1. Core(c, s) /\ Surrounds(s) /\ c.boot = "callback" /\ c' = Claim(z)
  BY DEF Inv, Good, SignInSucceeds, Becomes
<1>2. /\ DOMAIN z = Fields /\ Same(c, z, {"boot", "identity", "pending"})
      /\ z.boot = "done" /\ z.identity = "session" /\ z.pending = TRUE
  BY <1>1 DEF Page, Fields, Same
<1> HIDE DEF z
<1>3. Page(z)
  <2>1. z.pending \in BOOLEAN
    BY <1>2
  <2> QED  BY <1>1, <1>2, <2>1 DEF Page, Flags, Fields, Same
<1>4. /\ Quiet(z) /\ z.guesting = NoRequest /\ z.claim = NoRequest /\ z.held
      /\ ~z.again /\ ~z.raced /\ ~z.misread /\ ~z.leaving /\ ~z.asking /\ ~z.halted
      /\ z.auth = "held" /\ z.token = c.token /\ z.parked = c.parked
  BY <1>1, <1>2 DEF Blank, Quiet, Same, Fields
<1>5. Blank(z) /\ AsSession(z) /\ AsGuest(z)
  BY <1>1, <1>2, <1>4 DEF Blank, AsSession, AsGuest
<1>6. Asked(z, s) /\ Making(z, s) /\ Shows(z, s)
  BY <1>2, <1>4 DEF Quiet, Asked, Making, Shows, IsOwn, Bears
<1>7. Queued(z, s) /\ FlightHome(z, s) /\ FromPark(z, s)
  BY <1>2, <1>4 DEF Quiet, Queued, FlightHome, FromPark
<1>8. Kept(z, s)
  BY <1>1, <1>2, <1>4 DEF Quiet, Kept
<1>9. Core(z, s)
  BY <1>3, <1>5, <1>6, <1>7, <1>8
<1>10. Good(c', s)
  BY <1>1, <1>2, <1>9, ClaimKeeps
<1> QED  BY <1>10, Moved DEF SignInSucceeds, Becomes

\* The sign-in fails: the page is the guest's as it was.
LEMMA SignInFailsKeeps == ASSUME Inv, SignInFails PROVE Inv'
<1> USE DEF Core
<1> DEFINE x == [c EXCEPT !.boot = "done", !.misread = c.cookie]
           z == [x EXCEPT !.auth = "idle"]
           s == Around
<1>1. Core(c, s) /\ Surrounds(s) /\ c.boot = "callback" /\ c' = Release(x)
  BY DEF Inv, Good, SignInFails, Becomes
<1>2. /\ DOMAIN z = Fields /\ Same(c, z, {"boot", "auth", "misread"})
      /\ z.boot = "done" /\ z.auth = "idle" /\ z.misread = c.cookie
  BY <1>1 DEF Page, Fields, Same
<1>3. z = [x EXCEPT !.auth = "idle"]
  OBVIOUS
<1> HIDE DEF z, x
<1>4. Page(z)
  <2>1. c.cookie \in BOOLEAN
    BY <1>1 DEF Page, Flags
  <2> QED  BY <1>1, <1>2, <2>1 DEF Page, Flags, Fields, Same
<1>5. /\ Quiet(z) /\ z.guesting = NoRequest /\ z.claim = NoRequest /\ z.held /\ z.identity = "guest"
      /\ ~z.again /\ ~z.raced /\ ~z.leaving /\ ~z.asking /\ ~z.halted /\ z.cookie = z.misread
      /\ ~z.pending
      /\ z.token = c.token /\ z.parked = None
  BY <1>1, <1>2 DEF Blank, Quiet, Same, Fields
<1>6. Blank(z) /\ AsSession(z) /\ AsGuest(z)
  BY <1>2, <1>5 DEF Blank, AsSession, AsGuest
<1>7. Asked(z, s) /\ Making(z, s) /\ Shows(z, s)
  BY <1>2, <1>5 DEF Quiet, Asked, Making, Waits, Shows, IsOwn, Bears
<1>8. Queued(z, s) /\ FlightHome(z, s) /\ FromPark(z, s)
  BY <1>2, <1>5 DEF Quiet, Queued, FlightHome, FromPark
<1>9. Kept(z, s)
  BY <1>1, <1>2, <1>5 DEF Quiet, Kept, Blank
<1>10. Core(z, s)
  BY <1>4, <1>6, <1>7, <1>8, <1>9
<1>11. Good(c', s)
  BY <1>1, <1>2, <1>3, <1>5, <1>10, ReleaseKeeps
<1> QED  BY <1>11, Moved DEF SignInFails, Becomes

\* The head is sent again.
LEMMA ResendKeeps == ASSUME Inv, Resend PROVE Inv'
<1>1. Good(c, Around) /\ Core(c, Around) /\ Surrounds(Around) /\ c' = Pump(c)
  BY DEF Inv, Good, Resend, Becomes
<1>2. Core(c', Around) /\ Same(c, c', {"flight"})
  BY <1>1, PumpKeeps
<1>3. Good(c', Around)
  BY <1>1, <1>2 DEF Good, Open, OnItsWay, Same, Fields
<1> QED  BY <1>3, Moved DEF Resend, Becomes

\* Something asks for the world: a timer, a return to the tab, the player.
LEMMA TriggerKeeps == ASSUME Inv, Trigger PROVE Inv'
<1>1. Good(c, Around) /\ Core(c, Around) /\ Surrounds(Around) /\ c' = WantGet(c)
  BY DEF Inv, Good, Trigger, Becomes
<1>2. Core(c', Around) /\ Same(c, c', {"get"})
  BY <1>1, WantGetKeeps
<1>3. Good(c', Around)
  BY <1>1, <1>2 DEF Good, Open, OnItsWay, Same, Fields
<1> QED  BY <1>3, Moved DEF Trigger, Becomes

\* A page whose head's request ended without an answer for it.
LEMMA LandedKeeps ==
    ASSUME NEW x, NEW s, Good(x, s), x.flight = NoRequest \/ x.flight.fresh,
           NEW y, y = [x EXCEPT !.flight = NoRequest]
    PROVE  Good(y, s)
<1> USE DEF Core
<1>0. Core(x, s)
  BY DEF Good
<1>1. DOMAIN y = Fields /\ Same(x, y, {"flight"}) /\ y.flight = NoRequest
  BY <1>0 DEF Page, Fields, Same
<1>2. Page(y)
  BY <1>0, <1>1, NoRequestIs DEF Page, Flags, Fields, Same
<1>3. /\ Loose(y, s) <=> Loose(x, s)
      /\ Waits(y) <=> Waits(x)
      /\ Owner(y, s) = Owner(x, s)
  BY <1>1 DEF Same, Fields, Loose, Waits, Owner
<1>4. Blank(y) /\ AsSession(y) /\ AsGuest(y) /\ Asked(y, s)
  BY <1>0, <1>1, <1>3 DEF Same, Fields, Blank, Quiet, AsSession, AsGuest, Asked, Bears
<1>5. Making(y, s) /\ Shows(y, s) /\ Kept(y, s)
  BY <1>0, <1>1, <1>3 DEF Same, Fields, Making, Shows, Kept, IsOwn
<1>6. Queued(y, s) /\ FlightHome(y, s) /\ FromPark(y, s)
  BY <1>0, <1>1, <1>3 DEF Same, Fields, Queued, Leaves, Fits, FlightHome, FromPark, IsOwn
<1> QED  BY <1>0, <1>1, <1>2, <1>4, <1>5, <1>6 DEF Good, Open, OnItsWay, Same, Fields

\* A held outbox hears no answer.
LEMMA PostIgnoredKeeps == ASSUME Inv, PostIgnored PROVE Inv'
<1>1. Good(c, Around) /\ c' = [c EXCEPT !.flight = NoRequest] /\ c.held /\ c.flight # NoRequest
  BY DEF Inv, PostIgnored, Becomes
<1>2. c.flight.fresh
  <2>1. c.boot = "done"
    BY <1>1 DEF Good, Core, Blank, Quiet
  <2>2. c.flight.fresh \in BOOLEAN
    BY <1>1 DEF Good, Core, Page, Requests
  <2> QED  BY <1>1, <2>1, <2>2 DEF Good, Open, Core, Asked, Bears
<1>3. Good(c', Around)
  BY <1>1, <1>2, LandedKeeps
<1> QED  BY <1>3, Moved DEF PostIgnored, Becomes

\* The head has been answered, and the next one is sent.
LEMMA SettledGood ==
    ASSUME NEW x, NEW s, Surrounds(s), Good(x, s), x.flight # NoRequest,
           NEW y, y = SettleHead(x)
    PROVE  Good(y, s)
<1>1. Core(y, s) /\ Same(x, y, {"queue", "flight"})
  BY SettleHeadKeeps DEF Good
<1> QED  BY <1>1 DEF Good, Open, OnItsWay, Same, Fields

\* A batch is accepted, and its world shown or not.
LEMMA PostAdoptedKeeps == ASSUME Inv, PostAdopted PROVE Inv'
<1> DEFINE s == Around
<1>1. PICK w \in World :
        /\ w = IF c.flight.cred = Session THEN acct ELSE c.flight.cred
        /\ \E y \in Adopted(c, c.flight, w) : c' = SettleHead(y)
  BY DEF PostAdopted, Becomes
<1>2. Good(c, s) /\ Core(c, s) /\ Surrounds(s) /\ c.flight # NoRequest
  BY DEF Inv, Good, PostAdopted
<1>3. c.boot = "done" /\ ~c.pending
  BY <1>2 DEF Core, Blank, Quiet, AsSession
<1>4. c.flight.fresh /\ ~Loose(c, s) => IsOwn(c, w, s)
  <2> SUFFICES ASSUME c.flight.fresh, ~Loose(c, s) PROVE IsOwn(c, w, s)
    OBVIOUS
  <2>1. w # None /\ c.flight.cred # None
    BY <1>1, GameStoreAssumption DEF World
  <2>2. CASE c.identity = "session"
    <3>1. c.flight.cred = Session /\ ~c.misread
      BY <1>2, <2>1, <2>2 DEF Core, Asked, AsSession
    <3> QED  BY <1>1, <2>2, <3>1 DEF IsOwn, Owner, Around
  <2>3. CASE c.identity = "guest" /\ ~c.misread
    <3>1. c.flight.cred = c.token /\ c.token # Session
      BY <1>2, <2>1, <2>3, GameStoreAssumption DEF Core, Asked, Bears, Page
    <3> QED  BY <1>1, <2>3, <3>1 DEF IsOwn, Owner
  <2>4. CASE c.identity = "guest" /\ c.misread
    <3>1. c.token # None \/ (carried # {} /\ ~c.fromPark)
      BY <1>2, <2>4 DEF Core, Asked, FromPark, Leaves, Around
    <3> QED  BY <2>4, <3>1 DEF IsOwn, Around
  <2>5. c.identity \in {"guest", "session"}
    BY <1>2, <1>3 DEF Core, AsGuest, Page
  <2> QED  BY <2>2, <2>3, <2>4, <2>5
<1>5. PICK y \in Adopted(c, c.flight, w) : c' = SettleHead(y)
  BY <1>1
<1>6. Good(y, s) /\ y.flight # NoRequest
  <2>1. Core(y, s) /\ Same(c, y, {"shown", "notFound", "fromPark"})
    BY <1>2, <1>3, <1>4, <1>5, AdoptedKeeps
  <2> QED  BY <1>2, <2>1 DEF Good, Open, OnItsWay, Same, Fields
<1>7. Good(c', s)
  BY <1>2, <1>5, <1>6, SettledGood
<1> QED  BY <1>7, Moved DEF PostAdopted, Becomes

\* A batch fails.
LEMMA PostFailedKeeps == ASSUME Inv, PostFailed PROVE Inv'
<1>1. Good(c, Around) /\ Surrounds(Around) /\ c.flight # NoRequest
      /\ c' = (IF c.flight.fresh THEN [c EXCEPT !.flight = NoRequest] ELSE SettleHead(c))
  BY DEF Inv, PostFailed, Becomes
<1>2. Good(c', Around)
  <2>1. CASE c.flight.fresh
    BY <1>1, <2>1, LandedKeeps
  <2>2. CASE ~c.flight.fresh
    BY <1>1, <2>2, SettledGood
  <2> QED  BY <2>1, <2>2
<1> QED  BY <1>2, Moved DEF PostFailed, Becomes

\* The API's refusal of a guest's request says that its guest is gone.
LEMMA RefusedIsOver ==
    ASSUME Inv, NEW x, Good(x, Around), x.boot = "done", ~x.pending, x.cookie = c.cookie,
           NEW r, NEW status, Refused(r, status), r.fresh /\ r.as = x.identity,
           x.identity = "guest" /\ ~Loose(x, Around) =>
                /\ x.fromPark => x.token # None
                /\ carried = {} => Bears(x, r.cred) /\ x.token # None
    PROVE  Over(x, Around)
<1>1. x.identity = "session" => ~x.cookie
  BY DEF Refused
<1>2. x.identity = "guest" /\ ~Loose(x, Around) /\ carried = {} => guest[x.token] # "live"
  <2> SUFFICES ASSUME x.identity = "guest", ~Loose(x, Around), carried = {}
               PROVE  guest[x.token] # "live"
    OBVIOUS
  <2>1. x.token \in Guests /\ r.cred = x.token /\ Reach(x.token) = None
    <3>1. r.as = "guest" /\ r.cred # Session /\ Reach(r.cred) = None
      BY DEF Refused
    <3> QED  BY <3>1 DEF Good, Core, Page, Bears
  <2> QED  BY <2>1, GameStoreAssumption DEF Reach
<1> QED  BY <1>1, <1>2 DEF Over, Around

\* A batch is refused, and with it perhaps the page's identity.
LEMMA PostRefusedKeeps == ASSUME Inv, PostRefused PROVE Inv'
<1> DEFINE s == Around
<1>1. PICK status \in {401, 404} :
        Refused(c.flight, status) /\ c' = SettleHead(HandleGone(c, c.flight, status))
  BY DEF PostRefused, Becomes
<1>2. Good(c, s) /\ Core(c, s) /\ Surrounds(s) /\ c.flight # NoRequest
  BY DEF Inv, Good, PostRefused
<1>3. c.boot = "done" /\ ~c.pending /\ c.queue # <<>>
  BY <1>2 DEF Core, Blank, Quiet, AsSession, Asked, Bears
<1>4. ~Ignored(c, c.flight) => Over(c, s)
  <2> SUFFICES ASSUME c.flight.fresh, c.flight.as = c.identity PROVE Over(c, s)
    BY DEF Ignored
  <2>1. c.identity = "guest" /\ ~Loose(c, s) => (c.fromPark => c.token # None)
    BY <1>2, <1>3 DEF Core, FromPark, Leaves
  <2>2. c.identity = "guest" /\ ~Loose(c, s) =>
          (carried = {} => Bears(c, c.flight.cred) /\ c.token # None)
    BY <1>2 DEF Core, Asked, Around
  <2> QED  BY <1>1, <1>2, <1>3, <2>1, <2>2, RefusedIsOver
<1> DEFINE y == HandleGone(c, c.flight, status)
<1>5. Good(y, s) /\ y.flight # NoRequest
  BY <1>2, <1>3, <1>4, HandleGoneKeeps
<1>6. c' = SettleHead(y)
  BY <1>1
<1> HIDE DEF y
<1>7. Good(c', s)
  BY <1>2, <1>5, <1>6, SettledGood
<1> QED  BY <1>7, Moved DEF PostRefused, Becomes

\* A page whose GET has ended.
LEMMA GetDoneKeeps ==
    ASSUME Inv, c.get # NoRequest, NEW y, y = GetDone
    PROVE  /\ Good(y, Around) /\ Same(c, y, {"get", "awaits"}) /\ y.get = NoRequest
           /\ y.boot = "done" /\ ~y.pending
<1> USE DEF Core
<1> DEFINE s == Around
<1>1. Good(c, s) /\ Core(c, s)
  BY DEF Inv, Good
<1>2. /\ DOMAIN y = Fields /\ Same(c, y, {"get", "awaits"})
      /\ y.get = NoRequest /\ y.awaits = FALSE
  BY <1>1 DEF GetDone, Page, Fields, Same
<1>3. Page(y)
  <2>1. y.awaits \in BOOLEAN
    BY <1>2
  <2> QED  BY <1>1, <1>2, <2>1, NoRequestIs DEF Page, Flags, Fields, Same
<1>4. /\ Loose(y, s) <=> Loose(c, s)
      /\ Waits(y) <=> Waits(c)
      /\ Owner(y, s) = Owner(c, s)
  BY <1>2 DEF Same, Fields, Loose, Waits, Owner
<1>5. c.boot = "done" /\ ~c.pending
  BY <1>1 DEF Blank, Quiet, AsSession
<1>6. Blank(y) /\ AsSession(y) /\ AsGuest(y) /\ Asked(y, s)
  BY <1>1, <1>2, <1>4, <1>5 DEF Same, Fields, Blank, AsSession, AsGuest, Asked, Bears
<1>7. Making(y, s) /\ Shows(y, s) /\ Kept(y, s)
  BY <1>1, <1>2, <1>4 DEF Same, Fields, Making, Shows, Kept, IsOwn
<1>8. Queued(y, s) /\ FlightHome(y, s) /\ FromPark(y, s)
  BY <1>1, <1>2, <1>4 DEF Same, Fields, Queued, Leaves, Fits, FlightHome, FromPark, IsOwn
<1> QED  BY <1>1, <1>2, <1>3, <1>5, <1>6, <1>7, <1>8 DEF Good, Open, OnItsWay, Same, Fields

\* The GET fails and is asked again later.
LEMMA GetFailedKeeps == ASSUME Inv, GetFailed PROVE Inv'
<1>1. Good(c', Around)
  BY GetDoneKeeps DEF GetFailed, Becomes
<1> QED  BY <1>1, Moved DEF GetFailed, Becomes

\* #wantGet, of a page in good order.
LEMMA WantGetGood ==
    ASSUME NEW x, NEW s, Surrounds(s), Good(x, s), NEW y, y = WantGet(x)
    PROVE  Good(y, s)
<1>1. Core(y, s) /\ Same(x, y, {"get"})
  BY WantGetKeeps DEF Good
<1> QED  BY <1>1 DEF Good, Open, OnItsWay, Same, Fields

\* The GET is refused, for the world on screen or for one left behind.
LEMMA GetRefusedKeeps == ASSUME Inv, GetRefused PROVE Inv'
<1> DEFINE s == Around
           x == GetDone
<1>1. PICK status \in {401, 404} :
        /\ Refused(c.get, status)
        /\ c' = IF Ignored(x, c.get) THEN WantGet(x) ELSE HandleGone(x, c.get, status)
  BY DEF GetRefused, Becomes
<1>2. Good(c, s) /\ Core(c, s) /\ Surrounds(s) /\ c.get # NoRequest
  BY DEF Inv, Good, GetRefused
<1>3. /\ Good(x, s) /\ Same(c, x, {"get", "awaits"}) /\ x.boot = "done" /\ ~x.pending
  BY <1>2, GetDoneKeeps
<1> HIDE DEF x
<1>4. ~Ignored(x, c.get) => Over(x, s)
  <2> SUFFICES ASSUME c.get.fresh, c.get.as = x.identity PROVE Over(x, s)
    BY DEF Ignored
  <2>1. /\ x.identity = c.identity /\ x.token = c.token /\ x.cookie = c.cookie
        /\ x.misread = c.misread /\ (Loose(x, s) <=> Loose(c, s))
    BY <1>3 DEF Same, Fields, Loose
  <2>2. x.identity = "guest" /\ ~Loose(x, s) => Bears(x, c.get.cred) /\ x.token # None
    BY <1>2, <2>1 DEF Core, Asked, Bears
  <2> QED  BY <1>1, <1>3, <2>1, <2>2, RefusedIsOver
<1>5. Good(c', s)
  <2>1. CASE Ignored(x, c.get)
    BY <1>1, <1>2, <1>3, <2>1, WantGetGood
  <2>2. CASE ~Ignored(x, c.get)
    BY <1>1, <1>2, <1>3, <1>4, <2>2, HandleGoneKeeps
  <2> QED  BY <2>1, <2>2
<1> QED  BY <1>5, Moved DEF GetRefused, Becomes

\* The account is given its world, if it had none.
LEMMA Given ==
    ASSUME NEW x, NEW s, NEW t, Surrounds(s), Good(x, s), Surrounds(t),
           t.made = s.made, t.carried = s.carried, t.hurried = s.hurried, t.claims = s.claims,
           t.astray = s.astray,
           s.acct # None => t.acct = s.acct,
           \A g \in Guests : s.guest[g] # "free" <=> t.guest[g] # "free",
           \A g \in Guests : t.guest[g] = "live" => s.guest[g] = "live",
           s.carried = {} /\ ~x.raced =>
                \A l \in x.loads : l.by = "guest" /\ l.world \in Guests \ s.claims
                    /\ s.guest[l.world] = "live" => t.guest[l.world] = "live"
    PROVE  Good(x, t)
<1> USE DEF Core
<1>1. Core(x, s)
  BY DEF Good
<1>2. Loose(x, t) <=> Loose(x, s)
  BY DEF Loose
<1>3. Asked(x, t) /\ Making(x, t) /\ FromPark(x, t)
  BY <1>1, <1>2 DEF Asked, Making, FromPark, Bears
<1>4. Shows(x, t)
  <2>1. ~Loose(x, s) => (x.shown # None => IsOwn(x, x.shown, t))
    BY <1>1 DEF Shows, Owner, IsOwn
  <2>2. ~Loose(x, s) => \A l \in x.loads : l.fresh => IsOwn(x, l.world, t)
    <3>1. \A l \in x.loads : l.world # None
      BY <1>1, GameStoreAssumption DEF Page, Loads, World
    <3> QED  BY <1>1, <3>1 DEF Shows, Owner, IsOwn
  <2> QED  BY <1>2, <2>1, <2>2 DEF Shows
<1>5. Queued(x, t)
  BY <1>1, <1>2 DEF Queued, Fits, Owner, IsOwn
<1>6. FlightHome(x, t)
  BY <1>1 DEF FlightHome, Home
<1>7. Kept(x, t)
  <2>1. \A g \in Guests : g \in {x.token, x.parked} => t.guest[g] # "free"
    BY <1>1 DEF Kept
  <2>2. s.carried = {} => \A g \in Guests \ s.hurried : t.guest[g] = "live" => g \in {x.token, x.parked}
    BY <1>1 DEF Kept
  <2>3. s.carried = {} /\ x.halted /\ x.identity = "guest" /\ ~Loose(x, s) =>
            ~x.again /\ ~Waits(x) /\ (x.token # None => t.guest[x.token] # "live")
    BY <1>1 DEF Kept, Page
  <2>4. s.carried = {} /\ ~x.raced => \A l \in x.loads : l.by = "guest" =>
            /\ l.fresh /\ x.identity = "guest" /\ x.token = l.world
            /\ t.guest[l.world] = "live" /\ l.world \notin t.claims
    <3> SUFFICES ASSUME s.carried = {}, ~x.raced, NEW l \in x.loads, l.by = "guest"
                 PROVE  /\ l.fresh /\ x.identity = "guest" /\ x.token = l.world
                        /\ t.guest[l.world] = "live" /\ l.world \notin t.claims
      OBVIOUS
    <3>1. /\ l.fresh /\ x.identity = "guest" /\ x.token = l.world
          /\ s.guest[l.world] = "live" /\ l.world \notin s.claims
      BY <1>1 DEF Kept
    <3>2. l.world \in Guests
      BY <1>1, <3>1, GameStoreAssumption DEF Page, Loads, World
    <3>3. t.guest[l.world] = "live"
      BY <3>1, <3>2
    <3> QED  BY <3>1, <3>3
  <2> QED  BY <1>2, <2>1, <2>2, <2>3, <2>4 DEF Kept
<1> QED  BY <1>1, <1>3, <1>4, <1>5, <1>6, <1>7 DEF Good, OnItsWay

\* A session's request gives the account its world.
LEMMA AnswersKeep ==
    ASSUME Inv, NEW cred, Reach(cred) # None, ServerAnswers(cred), UNCHANGED <<guest, history>>
    PROVE  Surrounds(Meanwhile) /\ Good(c, Meanwhile) /\ Grows
<1>1. acct # None => acct' = acct
  BY DEF ServerAnswers, Reach
<1>2. acct' \in World \cup {None} /\ (acct' \in Guests => acct' = acct)
  BY GameStoreAssumption DEF ServerAnswers, Reach, World, Inv, Surrounds, Around
<1>3. /\ Meanwhile.guest = Around.guest /\ Meanwhile.made = Around.made
      /\ Meanwhile.carried = Around.carried /\ Meanwhile.hurried = Around.hurried
      /\ Meanwhile.astray = Around.astray
      /\ Meanwhile.claims = Around.claims /\ Meanwhile.acct = acct' /\ Around.acct = acct
  BY DEF Meanwhile, Around, history
<1>4. Surrounds(Meanwhile)
  BY <1>2, <1>3 DEF Inv, Surrounds
<1>5. Good(c, Meanwhile)
  BY <1>1, <1>3, <1>4, Given DEF Inv
<1> QED  BY <1>1, <1>4, <1>5 DEF Grows, history

\* The GET is answered, and its content loads.
LEMMA GetLandsKeeps == ASSUME Inv, GetLands PROVE Inv'
<1> USE DEF Core
<1> DEFINE w == IF c.get.cred = Session THEN Reach(Session) ELSE c.get.cred
           x == GetDone
           t == Meanwhile
           new == [fresh |-> TRUE, world |-> w, by |-> "get", awaited |-> c.awaits]
           z == [x EXCEPT !.loads = @ \cup {new}]
<1>1. /\ c.get # NoRequest /\ w # None /\ ServerAnswers(c.get.cred)
      /\ Becomes(IF c.get.fresh THEN z ELSE WantGet(x))
      /\ UNCHANGED <<guest, applied, history>>
  BY DEF GetLands
<1>2. Good(c, Around) /\ Core(c, Around) /\ Surrounds(Around)
  BY DEF Inv, Good
<1>3. Good(x, Around) /\ Same(c, x, {"get", "awaits"}) /\ x.get = NoRequest
      /\ x.boot = "done" /\ ~x.pending
  BY <1>1, GetDoneKeeps
<1> HIDE DEF x
<1>4. c.get.cred \in Cred /\ w \in World \cup {None}
  <2>1. c.get \in Requests
    BY <1>2 DEF Page
  <2>2. Reach(Session) \in World
    BY <1>2 DEF Reach, Surrounds, Around, World
  <2>3. c.get.cred \in Cred
    BY <2>1 DEF Requests
  <2> QED  BY <2>2, <2>3 DEF World, Cred
<1>5. /\ acct # None => acct' = acct
      /\ acct' \in World \cup {None} /\ (acct' \in Guests => acct' = acct)
      /\ c.get.cred = Session => w = acct'
  BY <1>1, <1>2, GameStoreAssumption DEF ServerAnswers, Reach, World, Surrounds, Around
<1>6. /\ t.guest = Around.guest /\ t.made = Around.made
      /\ t.carried = Around.carried /\ t.hurried = Around.hurried /\ t.astray = Around.astray
      /\ t.claims = Around.claims /\ t.acct = acct' /\ Around.acct = acct
  BY <1>1 DEF Meanwhile, Around, history
<1>7. Surrounds(t)
  BY <1>2, <1>5, <1>6 DEF Surrounds
<1>8. Good(x, t) /\ Core(x, t)
  BY <1>2, <1>3, <1>5, <1>6, <1>7, Given DEF Good
<1>9. c.get.fresh /\ ~Loose(x, t) => IsOwn(x, w, t)
  <2> SUFFICES ASSUME c.get.fresh, ~Loose(x, t) PROVE IsOwn(x, w, t)
    OBVIOUS
  <2>1. /\ c.identity \in {"guest", "session"} /\ x.identity = c.identity /\ x.token = c.token
        /\ x.misread = c.misread
    BY <1>2, <1>3 DEF Same, Fields, AsGuest, Page
  <2>2. ~Loose(c, Around)
    BY <1>3, <1>6 DEF Same, Fields, Loose
  <2>3. CASE c.identity = "session"
    <3>1. c.get.cred \in {None, Session} /\ ~c.misread
      BY <1>1, <1>2, <2>3 DEF Asked, AsSession
    <3>2. w = acct'
      BY <1>1, <1>5, <3>1
    <3> QED  BY <1>6, <2>1, <2>3, <3>1, <3>2 DEF IsOwn, Owner
  <2>4. CASE c.identity = "guest"
    <3>1. Bears(c, c.get.cred) /\ c.token # None /\ c.token # Session
      BY <1>1, <1>2, <2>2, <2>4, GameStoreAssumption DEF Asked, Page
    <3> QED  BY <2>1, <2>4, <3>1 DEF Bears, IsOwn, Owner
  <2> QED  BY <2>1, <2>3, <2>4
<1>10. Good(c', t)
  <2>1. CASE ~c.get.fresh
    BY <1>1, <1>7, <1>8, <2>1, WantGetGood DEF Becomes
  <2>2. CASE c.get.fresh
    <3>1. c' = z
      BY <1>1, <2>2 DEF Becomes
    <3>2. DOMAIN c' = Fields /\ Same(x, c', {"loads"}) /\ c'.loads = x.loads \cup {new}
      BY <1>8, <3>1 DEF Page, Fields, Same
    <3>3. new \in Loads /\ new.by = "get" /\ new.world = w
      <4>1. c.awaits \in BOOLEAN /\ w \in World
        BY <1>1, <1>2, <1>4 DEF Page, Flags
      <4> QED  BY <4>1 DEF Loads
    <3> HIDE DEF new, z, w
    <3>4. Page(c')
      <4>1. c'.loads \subseteq Loads
        BY <1>8, <3>2, <3>3 DEF Page
      <4> QED  BY <1>8, <3>2, <4>1 DEF Page, Flags, Fields, Same
    <3>5. /\ Loose(c', t) <=> Loose(x, t)
          /\ Waits(c') <=> Waits(x)
          /\ Owner(c', t) = Owner(x, t)
      BY <3>2, <3>3 DEF Same, Fields, Loose, Waits, Owner
    <3>6. Blank(c') /\ AsSession(c') /\ AsGuest(c') /\ Asked(c', t)
      BY <1>3, <1>8, <3>2, <3>5 DEF Same, Fields, Blank, AsSession, AsGuest, Asked, Bears
    <3>7. Making(c', t) /\ Kept(c', t)
      BY <1>8, <3>2, <3>3, <3>5 DEF Same, Fields, Making, Kept
    <3>8. Shows(c', t)
      BY <1>8, <1>9, <2>2, <3>2, <3>3, <3>5 DEF Same, Fields, Shows, IsOwn
    <3>9. Queued(c', t) /\ FlightHome(c', t) /\ FromPark(c', t)
      BY <1>8, <3>2, <3>5 DEF Same, Fields, Queued, Leaves, Fits, FlightHome, FromPark, IsOwn
    <3> QED  BY <1>8, <3>2, <3>4, <3>6, <3>7, <3>8, <3>9 DEF Good, Open, OnItsWay, Same, Fields
  <2> QED  BY <2>1, <2>2
<1>11. Grows
  BY <1>1, <1>5 DEF Grows, history
<1> QED  BY <1>1, <1>7, <1>10, <1>11, Framed DEF Becomes

\* The server serves a world, now or long after the page has changed its mind.
LEMMA ProcessWorldKeeps == ASSUME Inv, NEW r \in wire, ProcessWorld(r) PROVE Inv'
<1>1. Reach(r.cred) # None /\ ServerAnswers(r.cred) /\ UNCHANGED <<guest, wire, history, c>>
      /\ r.kind \in {"get", "post"}
      /\ applied' = IF r.kind = "get" THEN applied ELSE applied \cup {<<r.batch, Reach(r.cred)>>}
  BY DEF ProcessWorld
<1>2. Surrounds(Meanwhile) /\ Good(c, Meanwhile) /\ Grows
  BY <1>1, AnswersKeep
<1>3. r.kind = "post" =>
        /\ r.batch \in Batches /\ made[r.batch] # None /\ Reach(r.cred) \in World
        /\ \/ Reach(r.cred) = made[r.batch] \/ r.batch \in carried \cup astray
           \/ Reach(r.cred) \in hurried
  <2>1. r.kind = "post" => r.batch \in Batches /\ made[r.batch] # None /\ Home(r.batch, r.cred, Around)
    BY DEF Inv, Posted, Around
  <2>2. Reach(r.cred) \in World
    BY <1>1 DEF Reach, World, Inv, Surrounds, Around
  <2>3. r.cred = Session \/ (r.cred \in Guests /\ Reach(r.cred) = r.cred /\ r.cred # Session)
    BY <1>1, GameStoreAssumption DEF Reach
  <2> QED  BY <2>1, <2>2, <2>3, GameStoreAssumption DEF Home, Reach, Around
<1>4. Around' = Meanwhile
  BY <1>1 DEF Around, Meanwhile
<1>5. Posted(wire, Around')
  <2> SUFFICES ASSUME NEW q \in wire
               PROVE  /\ q.kind = "post" => q.batch \in Batches /\ made'[q.batch] # None
                                            /\ Home(q.batch, q.cred, Around')
                      /\ q.kind = "claim" => q.cred \in Guests
    BY DEF Posted, Around
  <2>1. /\ q.kind = "post" => q.batch \in Batches /\ made[q.batch] # None
                               /\ Home(q.batch, q.cred, Around)
        /\ q.kind = "claim" => q.cred \in Guests
    BY DEF Inv, Posted, Around
  <2> QED  BY <1>2, <2>1, HomeStays
<1>6. (Sent(c) \subseteq wire)'
  BY <1>1 DEF Inv, Sent
<1>7. /\ (applied \subseteq Batches \X World)' /\ (\A p \in applied : made[p[1]] # None)'
      /\ BatchStaysHome'
  <2>1. made' = made /\ carried' = carried /\ hurried' = hurried /\ astray' = astray
    BY <1>1 DEF history
  <2>2. CASE r.kind = "get"
    BY <1>1, <2>1, <2>2 DEF Inv, BatchStaysHome
  <2>3. CASE r.kind = "post"
    BY <1>1, <1>3, <2>1, <2>3 DEF Inv, BatchStaysHome
  <2> QED  BY <1>1, <2>2, <2>3
<1> QED  BY <1>1, <1>2, <1>4, <1>5, <1>6, <1>7 DEF Inv

\* The server gives the account its guest's world.
LEMMA ProcessClaimKeeps == ASSUME Inv, NEW r \in wire, ProcessClaim(r) PROVE Inv'
<1> DEFINE g == r.cred
<1>1. /\ r.kind = "claim" /\ acct = None /\ guest[g] = "live" /\ acct' = g
      /\ guest' = [guest EXCEPT ![g] = "claimed"] /\ UNCHANGED <<applied, wire, history, c>>
  BY DEF ProcessClaim
<1>2. g \in Guests /\ g \in Around.claims
  BY <1>1 DEF Inv, Posted, Around
<1>3. guest \in [Guests -> {"free", "live", "claimed", "gone"}]
  BY DEF Inv, Surrounds, Around
<1>4. /\ Meanwhile.guest = guest' /\ Meanwhile.made = Around.made
      /\ Meanwhile.carried = Around.carried /\ Meanwhile.hurried = Around.hurried
      /\ Meanwhile.astray = Around.astray
      /\ Meanwhile.claims = Around.claims /\ Meanwhile.acct = g /\ Around.acct = None
      /\ Around.guest = guest
  BY <1>1 DEF Meanwhile, Around, history
<1>5. \A h \in Guests : guest'[h] = IF h = g THEN "claimed" ELSE guest[h]
  BY <1>1, <1>2, <1>3
<1>6. guest' \in [Guests -> {"free", "live", "claimed", "gone"}]
  BY <1>1, <1>2, <1>3
<1>7. Surrounds(Meanwhile)
  BY <1>2, <1>4, <1>5, <1>6 DEF Inv, Surrounds, World
<1>8. \A l \in c.loads : l.world \in Guests \ Around.claims /\ Around.guest[l.world] = "live"
        => Meanwhile.guest[l.world] = "live"
  BY <1>2, <1>4, <1>5
<1>a. /\ \A h \in Guests : Around.guest[h] # "free" <=> Meanwhile.guest[h] # "free"
      /\ \A h \in Guests : Meanwhile.guest[h] = "live" => Around.guest[h] = "live"
  BY <1>1, <1>4, <1>5
<1>b. Around.acct # None => Meanwhile.acct = Around.acct
  BY <1>4
<1>c. Surrounds(Around) /\ Good(c, Around)
  BY DEF Inv
<1>9. Good(c, Meanwhile)
  BY <1>4, <1>7, <1>8, <1>a, <1>b, <1>c, Given
<1>10. Grows
  BY <1>1 DEF Grows, history
<1> QED  BY <1>1, <1>7, <1>9, <1>10, Served

\* The server deletes a guest nobody has come back as.
LEMMA DeleteGuestKeeps == ASSUME Inv, NEW g \in Guests, DeleteGuest(g) PROVE Inv'
<1>1. /\ guest[g] = "live" /\ (\A l \in c.loads : l.by # "guest" \/ l.world # g)
      /\ guest' = [guest EXCEPT ![g] = "gone"] /\ UNCHANGED <<acct, applied, wire, history, c>>
  BY DEF DeleteGuest
<1>2. guest \in [Guests -> {"free", "live", "claimed", "gone"}]
  BY DEF Inv, Surrounds, Around
<1>3. /\ Meanwhile.guest = guest' /\ Meanwhile.made = Around.made
      /\ Meanwhile.carried = Around.carried /\ Meanwhile.hurried = Around.hurried
      /\ Meanwhile.astray = Around.astray
      /\ Meanwhile.claims = Around.claims /\ Meanwhile.acct = Around.acct
      /\ Around.guest = guest
  BY <1>1 DEF Meanwhile, Around, history
<1>4. \A h \in Guests : guest'[h] = IF h = g THEN "gone" ELSE guest[h]
  BY <1>1, <1>2
<1>5. guest' \in [Guests -> {"free", "live", "claimed", "gone"}]
  BY <1>1, <1>2
<1>6. Surrounds(Meanwhile)
  BY <1>1, <1>3, <1>4, <1>5 DEF Inv, Surrounds
<1>a. \A l \in c.loads : l.by = "guest" /\ l.world \in Guests \ Around.claims
        /\ Around.guest[l.world] = "live" => Meanwhile.guest[l.world] = "live"
  BY <1>1, <1>3, <1>4
<1>b. /\ \A h \in Guests : Around.guest[h] # "free" <=> Meanwhile.guest[h] # "free"
      /\ \A h \in Guests : Meanwhile.guest[h] = "live" => Around.guest[h] = "live"
  BY <1>1, <1>3, <1>4
<1>c. Surrounds(Around) /\ Good(c, Around)
  BY DEF Inv
<1>7. Good(c, Meanwhile)
  BY <1>3, <1>6, <1>a, <1>b, <1>c, Given
<1>8. Grows
  BY <1>1 DEF Grows, history
<1> QED  BY <1>1, <1>6, <1>7, <1>8, Served

\* A world's content has loaded, or not.
LEMMA AdoptLoadKeeps == ASSUME Inv, NEW l \in c.loads, AdoptLoad(l) PROVE Inv'
<1> USE DEF Core
<1> DEFINE s == Around
           x == [c EXCEPT !.loads = @ \ {l}, !.guesting = IF l.by = "guest" THEN NoRequest ELSE @]
<1>1. Good(c, s) /\ Core(c, s) /\ Surrounds(s)
  BY DEF Inv, Good
<1>2. \/ \E y \in Adopted(x, l, l.world) : c' = AfterClaim(y)
      \/ \E y \in Adopted(x, l, l.world) : c' = y
      \/ c' = WantGet(x)
  BY DEF AdoptLoad, Becomes
<1>3. /\ DOMAIN x = Fields /\ Same(c, x, {"loads", "guesting"})
      /\ x.loads = c.loads \ {l} /\ x.guesting = (IF l.by = "guest" THEN NoRequest ELSE c.guesting)
  BY <1>1 DEF Page, Fields, Same
<1>4. l \in Loads /\ l.by \in {"get", "guest", "claim"} /\ l.world \in World
  BY <1>1 DEF Page, Loads
<1>5. c.boot = "done" /\ ~c.pending
  BY <1>1 DEF Blank, Quiet, AsSession
<1> HIDE DEF x
<1>6. Page(x)
  <2>1. x.loads \subseteq Loads /\ x.guesting \in Requests
    BY <1>1, <1>3, NoRequestIs DEF Page
  <2> QED  BY <1>1, <1>3, <2>1 DEF Page, Flags, Fields, Same
<1>7. /\ Loose(x, s) <=> Loose(c, s)
      /\ Waits(x) => Waits(c)
      /\ Owner(x, s) = Owner(c, s)
      /\ x.guesting \in {c.guesting, NoRequest} /\ x.loads \subseteq c.loads
  BY <1>3 DEF Same, Fields, Loose, Waits, Owner
<1>8. Blank(x) /\ AsSession(x) /\ AsGuest(x) /\ Asked(x, s)
  BY <1>1, <1>3, <1>5, <1>7 DEF Same, Fields, Blank, AsSession, AsGuest, Asked, Bears
<1>9. Making(x, s) /\ Shows(x, s) /\ Kept(x, s)
  BY <1>1, <1>3, <1>7 DEF Same, Fields, Making, Shows, Kept, IsOwn
<1>10. Queued(x, s) /\ FlightHome(x, s) /\ FromPark(x, s)
  BY <1>1, <1>3, <1>7 DEF Same, Fields, Queued, Leaves, Fits, FlightHome, FromPark, IsOwn
<1>11. OnItsWay(x, s)
  <2>1. CASE l.by # "guest"
    BY <1>1, <1>3, <2>1 DEF Good, OnItsWay, Same, Fields
  <2>2. CASE l.by = "guest"
    <3>1. s.carried = {} /\ ~c.raced => c.token = l.world
      BY <1>1, <2>2 DEF Kept
    <3> QED  BY <1>3, <1>4, <3>1, GameStoreAssumption DEF OnItsWay, Same, Fields, World
  <2> QED  BY <2>1, <2>2
<1>12. Good(x, s)
  BY <1>1, <1>3, <1>6, <1>8, <1>9, <1>10, <1>11 DEF Good, Open, Same, Fields
<1>13. x.boot = "done" /\ ~x.pending
  BY <1>3, <1>5 DEF Same, Fields
<1>14. \A y \in Adopted(x, l, l.world) : Good(y, s) /\ y.boot = "done" /\ ~y.pending
  <2> SUFFICES ASSUME NEW y \in Adopted(x, l, l.world)
               PROVE  Good(y, s) /\ y.boot = "done" /\ ~y.pending
    OBVIOUS
  <2>1. l.fresh /\ ~Loose(x, s) => IsOwn(x, l.world, s)
    <3>1. l.fresh /\ ~Loose(c, s) => IsOwn(c, l.world, s)
      BY <1>1 DEF Shows
    <3> QED  BY <1>3, <1>7, <3>1 DEF IsOwn, Same, Fields
  <2>2. Core(x, s)
    BY <1>12 DEF Good
  <2>3. Core(y, s) /\ Same(x, y, {"shown", "notFound", "fromPark"})
    <3> HIDE DEF Core
    <3> QED  BY <1>1, <1>4, <1>13, <2>1, <2>2, AdoptedKeeps
  <2> QED  BY <1>12, <1>13, <2>3 DEF Good, Open, OnItsWay, Same, Fields
<1>15. Good(c', s)
  <2>1. ASSUME NEW y \in Adopted(x, l, l.world), c' = AfterClaim(y)
        PROVE  Good(c', s)
    <3>1. Core(y, s) /\ OnItsWay(y, s) /\ y.boot = "done" /\ ~y.pending
      BY <1>14 DEF Good
    <3> HIDE DEF Core
    <3> QED  BY <1>1, <2>1, <3>1, AfterClaimKeeps
  <2>2. c' = WantGet(x) => Good(c', s)
    BY <1>1, <1>12, WantGetGood
  <2> QED  BY <1>2, <1>14, <2>1, <2>2
<1> QED  BY <1>15, Moved DEF AdoptLoad, Becomes

\* A creation fails: it is tried again, or the player is asked to.
LEMMA GuestFailsKeeps == ASSUME Inv, GuestFails PROVE Inv'
<1> USE DEF Core
<1> DEFINE s == Around
           x == [c EXCEPT !.guesting = NoRequest]
           S == {"guesting", "again", "halted"}
<1>1. Good(c, s) /\ Core(c, s) /\ Waits(c)
  BY DEF Inv, Good, GuestFails
<1>2. \/ ~Wanted(c, c.guesting) /\ c' = x
      \/ Wanted(c, c.guesting) /\ (c' = [x EXCEPT !.again = TRUE] \/ c' = [x EXCEPT !.halted = TRUE])
  BY DEF GuestFails, Becomes
<1>3. DOMAIN c' = Fields /\ Same(c, c', S) /\ c'.guesting = NoRequest
  BY <1>1, <1>2 DEF Page, Fields, Same
<1>4. \/ ~Wanted(c, c.guesting) /\ c'.again = c.again /\ c'.halted = c.halted
      \/ Wanted(c, c.guesting) /\ c'.again = TRUE /\ c'.halted = c.halted
      \/ Wanted(c, c.guesting) /\ c'.again = c.again /\ c'.halted = TRUE
  BY <1>1, <1>2 DEF Page, Fields
<1>5. /\ c.guesting # NoRequest /\ c.boot = "done" /\ ~Waits(c')
      /\ c.again \in BOOLEAN /\ c.halted \in BOOLEAN
  BY <1>1, <1>3 DEF Waits, Blank, Page, Flags
<1>6. Wanted(c, c.guesting) => c.identity = "guest"
  BY <1>1, <1>5 DEF Wanted, Asked, Bears
<1>7. Page(c')
  <2>1. c'.again \in BOOLEAN /\ c'.halted \in BOOLEAN
    BY <1>4, <1>5
  <2> QED  BY <1>1, <1>3, <2>1, NoRequestIs DEF Page, Flags, Fields, Same
<1>8. /\ Loose(c', s) <=> Loose(c, s)
      /\ Owner(c', s) = Owner(c, s)
  BY <1>3 DEF Same, Fields, Loose, Owner
<1>9. c.identity # "session"
  BY <1>1, <1>5 DEF AsSession
<1>10. ~Loose(c, s) /\ c.identity = "guest" =>
         ~c.again /\ c.token = None /\ (s.carried = {} => ~c.halted)
  BY <1>1, <1>5 DEF Making, Kept
<1>11. Blank(c') /\ AsSession(c') /\ AsGuest(c') /\ Asked(c', s)
  BY <1>1, <1>3, <1>5, <1>8, <1>9 DEF Same, Fields, Blank, AsSession, Quiet, AsGuest, Asked, Bears
<1>12. Making(c', s) /\ Shows(c', s)
  BY <1>1, <1>3, <1>5, <1>8, <1>10 DEF Same, Fields, Making, Shows, IsOwn
<1>13. Kept(c', s)
  <2>1. s.carried = {} /\ c'.halted /\ c'.identity = "guest" /\ ~Loose(c', s) =>
            ~c'.again /\ ~Waits(c') /\ (c'.token # None => s.guest[c'.token] # "live")
    BY <1>3, <1>4, <1>5, <1>8, <1>10 DEF Same, Fields
  <2> QED  BY <1>1, <1>3, <2>1 DEF Same, Fields, Kept
<1>14. Queued(c', s) /\ FlightHome(c', s) /\ FromPark(c', s)
  BY <1>1, <1>3, <1>8 DEF Same, Fields, Queued, Leaves, Fits, FlightHome, FromPark, IsOwn
<1>15. Open(c') /\ OnItsWay(c', s)
  <2>1. Wanted(c, c.guesting) => c'.again \/ c'.halted
    BY <1>4
  <2>2. c.identity = "guest" /\ c.auth = "idle" /\ c.token = None => Wanted(c, c.guesting)
    BY DEF Wanted
  <2> QED  BY <1>1, <1>3, <2>1, <2>2 DEF Good, Open, OnItsWay, Same, Fields
<1>16. Good(c', s)
  BY <1>7, <1>11, <1>12, <1>13, <1>14, <1>15 DEF Good
<1> QED  BY <1>16, Moved DEF GuestFails, Becomes

\* The retry's timer makes a guest for a page that has none.
LEMMA GuestRetryKeeps == ASSUME Inv, GuestRetry PROVE Inv'
<1> USE DEF Core
<1> DEFINE s == Around
           x == [c EXCEPT !.again = FALSE]
<1>1. Good(c, s) /\ Core(c, s) /\ Surrounds(s) /\ c.again /\ c' = CreateGuest(x)
  BY DEF Inv, Good, GuestRetry, Becomes
<1>2. DOMAIN x = Fields /\ Same(c, x, {"again"}) /\ x.again = FALSE
  BY <1>1 DEF Page, Fields, Same
<1> HIDE DEF x
<1>3. Page(x)
  <2>1. x.again \in BOOLEAN
    BY <1>2
  <2> QED  BY <1>1, <1>2, <2>1 DEF Page, Flags, Fields, Same
<1>4. /\ Loose(x, s) <=> Loose(c, s)
      /\ Waits(x) <=> Waits(c)
      /\ Owner(x, s) = Owner(c, s)
  BY <1>2 DEF Same, Fields, Loose, Waits, Owner
<1>5. c.boot = "done"
  BY <1>1 DEF Blank
<1>6. Blank(x) /\ AsSession(x) /\ AsGuest(x) /\ Asked(x, s)
  BY <1>1, <1>2, <1>4, <1>5 DEF Same, Fields, Blank, AsSession, Quiet, AsGuest, Asked, Bears
<1>7. Making(x, s) /\ Shows(x, s) /\ Kept(x, s)
  BY <1>1, <1>2, <1>4 DEF Same, Fields, Making, Shows, Kept, IsOwn
<1>8. Queued(x, s) /\ FlightHome(x, s) /\ FromPark(x, s)
  BY <1>1, <1>2, <1>4 DEF Same, Fields, Queued, Leaves, Fits, FlightHome, FromPark, IsOwn
<1>9. Core(x, s) /\ x.boot = "done"
  BY <1>2, <1>3, <1>5, <1>6, <1>7, <1>8 DEF Same, Fields
<1>10. x.identity = "guest" /\ ~Loose(x, s) =>
         x.token = None /\ ~x.again /\ (s.carried = {} => ~x.halted)
  BY <1>1, <1>2, <1>4 DEF Making, Kept, Same, Fields
<1>11. /\ Core(c', s) /\ Same(x, c', {"guesting"})
       /\ x.identity = "guest" /\ x.auth = "idle" => c'.guesting # NoRequest
  BY <1>1, <1>9, <1>10, CreateGuestKeeps
<1>12. Good(c', s)
  BY <1>1, <1>2, <1>11 DEF Good, Open, OnItsWay, Same, Fields
<1> QED  BY <1>12, Moved DEF GuestRetry, Becomes

\* A guest is made whose answer nobody waits for any more: it is deleted.
LEMMA UnwantedKeeps == ASSUME Inv, NEW g \in Guests, GuestLands(g), ~Wanted(c, c.guesting) PROVE Inv'
<1> USE DEF Core
<1> DEFINE s == Around
           t == Meanwhile
<1>1. /\ Good(c, s) /\ Core(c, s) /\ Surrounds(s) /\ guest[g] = "free" /\ Waits(c)
      /\ guest' = [guest EXCEPT ![g] = "gone"] /\ c' = [c EXCEPT !.guesting = NoRequest]
      /\ hurried' = (IF c.raced THEN hurried \cup {g} ELSE hurried)
      /\ UNCHANGED <<acct, applied, made, carried, astray>>
  BY DEF Inv, Good, GuestLands, Becomes
<1>2. /\ t.guest = guest' /\ t.made = s.made /\ t.carried = s.carried /\ t.hurried = hurried'
      /\ t.claims = s.claims /\ t.acct = s.acct /\ s.guest = guest /\ s.hurried = hurried
      /\ t.astray = s.astray
  BY <1>1 DEF Meanwhile, Around
<1>3. /\ guest' \in [Guests -> {"free", "live", "claimed", "gone"}]
      /\ \A h \in Guests : guest'[h] = IF h = g THEN "gone" ELSE guest[h]
  BY <1>1, <1>2 DEF Surrounds
<1>4. Surrounds(t)
  BY <1>1, <1>2, <1>3 DEF Surrounds
<1>5. DOMAIN c' = Fields /\ Same(c, c', {"guesting"}) /\ c'.guesting = NoRequest
  BY <1>1 DEF Page, Fields, Same
<1>6. Page(c')
  BY <1>1, <1>5, NoRequestIs DEF Page, Flags, Fields, Same
<1>7. g # c.token /\ g # c.parked
  BY <1>1, <1>2 DEF Kept
<1>8. /\ Loose(c', t) <=> Loose(c, s)
      /\ ~Waits(c')
      /\ Owner(c', t) = Owner(c, s)
  BY <1>1, <1>2, <1>5, <1>7 DEF Same, Fields, Loose, Waits, Owner
<1>9. Blank(c') /\ AsSession(c') /\ AsGuest(c') /\ Asked(c', t)
  <2>1. Blank(c') /\ AsSession(c')
    BY <1>1, <1>5 DEF Same, Fields, Blank, AsSession, Quiet
  <2>2. AsGuest(c) /\ Asked(c, s) /\ c.guesting.as = "guest" /\ NoRequest.as = None
    BY <1>1, NoRequestIs DEF Asked, Waits
  <2> HIDE DEF Core
  <2>3. AsGuest(c')
    BY <1>5, <2>2 DEF Same, Fields, AsGuest
  <2>4. Asked(c', t)
    BY <1>2, <1>5, <1>8, <2>2 DEF Same, Fields, Asked, Bears
  <2> QED  BY <2>1, <2>3, <2>4
<1>10. Making(c', t)
  BY <1>1, <1>5, <1>8 DEF Same, Fields, Making
<1>18. Shows(c', t)
  <2>1. Shows(c, s)
    BY <1>1
  <2> HIDE DEF Core
  <2> QED  BY <1>2, <1>5, <1>8, <2>1 DEF Same, Fields, Shows, IsOwn
<1>11. Queued(c', t) /\ FromPark(c', t)
  <2>1. Queued(c, s) /\ FromPark(c, s)
    BY <1>1
  <2> HIDE DEF Core
  <2> QED  BY <1>2, <1>5, <1>8, <2>1 DEF Same, Fields, Queued, Leaves, Fits, FromPark, IsOwn
<1>12. FlightHome(c', t)
  <2>1. FlightHome(c, s)
    BY <1>1
  <2> HIDE DEF Core
  <2> QED  BY <1>1, <1>2, <1>5, <2>1 DEF Same, Fields, FlightHome, Home
<1>13. Kept(c', t)
  <2>1. \A h \in Guests : h \in {c.token, c.parked} => t.guest[h] # "free"
    BY <1>1, <1>2, <1>3 DEF Kept
  <2>2. s.carried = {} =>
          \A h \in Guests \ t.hurried : t.guest[h] = "live" => h \in {c.token, c.parked}
    BY <1>1, <1>2, <1>3 DEF Kept
  <2>3. s.carried = {} /\ c.halted /\ c.identity = "guest" /\ ~Loose(c, s) => FALSE
    BY <1>1 DEF Kept
  <2>4. \A l \in c.loads : l.by # "guest"
    BY <1>1 DEF Waits
  <2> QED  BY <1>2, <1>5, <1>8, <2>1, <2>2, <2>3, <2>4 DEF Same, Fields, Kept
<1>14. Open(c') /\ OnItsWay(c', t)
  <2>1. ~(c.identity = "guest" /\ c.auth = "idle" /\ c.token = None)
    BY DEF Wanted
  <2> QED  BY <1>1, <1>5, <2>1 DEF Good, Open, OnItsWay, Same, Fields
<1>15. Good(c', t)
  BY <1>6, <1>9, <1>10, <1>11, <1>12, <1>13, <1>14, <1>18 DEF Good
<1>16. Grows
  BY <1>1 DEF Grows
<1>17. Becomes(c')
  BY <1>1 DEF GuestLands, Becomes
<1> QED  BY <1>1, <1>4, <1>15, <1>16, <1>17, Framed

\* A guest is made for a page that has none, or has raced for it.
LEMMA WantedKeeps == ASSUME Inv, NEW g \in Guests, GuestLands(g), Wanted(c, c.guesting) PROVE Inv'
<1> USE DEF Core
<1> DEFINE s == Around
           t == Meanwhile
           new == [fresh |-> TRUE, world |-> g, by |-> "guest", awaited |-> FALSE]
<1>1. /\ Good(c, s) /\ Core(c, s) /\ Surrounds(s) /\ guest[g] = "free" /\ Waits(c)
      /\ guest' = [guest EXCEPT ![g] = "live"]
      /\ c' = [c EXCEPT !.token = g, !.fromPark = FALSE, !.loads = @ \cup {new}]
      /\ hurried' = (IF c.raced THEN hurried \cup {g} ELSE hurried)
      /\ UNCHANGED <<acct, applied, made, carried, astray>>
  BY DEF Inv, Good, GuestLands, Becomes
<1>2. /\ t.guest = guest' /\ t.made = s.made /\ t.carried = s.carried /\ t.hurried = hurried'
      /\ t.claims = s.claims /\ t.acct = s.acct /\ s.guest = guest /\ s.hurried = hurried
      /\ t.astray = s.astray
  BY <1>1 DEF Meanwhile, Around
<1>3. /\ guest' \in [Guests -> {"free", "live", "claimed", "gone"}]
      /\ \A h \in Guests : guest'[h] = IF h = g THEN "live" ELSE guest[h]
  BY <1>1, <1>2 DEF Surrounds
<1>4. Surrounds(t)
  BY <1>1, <1>2, <1>3 DEF Surrounds
<1>5. /\ DOMAIN c' = Fields /\ Same(c, c', {"token", "fromPark", "loads"})
      /\ c'.token = g /\ c'.fromPark = FALSE /\ c'.loads = c.loads \cup {new}
  BY <1>1 DEF Page, Fields, Same
<1>6. new \in Loads /\ new.by = "guest" /\ new.fresh /\ new.world = g
  BY DEF Loads, World
<1> HIDE DEF new
<1>7. Page(c')
  <2>1. c'.fromPark \in BOOLEAN /\ c'.loads \subseteq Loads
    BY <1>1, <1>5, <1>6 DEF Page
  <2> QED  BY <1>1, <1>5, <2>1 DEF Page, Flags, Fields, Same
<1>8. /\ c.boot = "done" /\ c.identity = "guest" /\ ~c.pending /\ c.parked = None /\ g # None
      /\ c.guesting # NoRequest
  <2>1. c.guesting # NoRequest /\ c.boot = "done"
    BY <1>1 DEF Waits, Blank
  <2>2. c.identity = "guest"
    BY <1>1, <2>1 DEF Wanted, Asked, Bears
  <2> QED  BY <1>1, <2>1, <2>2, GameStoreAssumption DEF AsSession, AsGuest
<1>9. c.raced <=> Loose(c, s)
  BY <1>1, <1>8 DEF Loose, Making
<1>10. Loose(c', t) <=> Loose(c, s)
  BY <1>1, <1>2, <1>5, <1>8, <1>9 DEF Same, Fields, Loose
<1>11. ~Waits(c')
  BY <1>5, <1>6 DEF Waits
<1>12. ~Loose(c, s) =>
         /\ c.token = None /\ ~c.again
         /\ ~c.misread => c.shown = None /\ \A l \in c.loads : ~l.fresh
         /\ ~(c.get # NoRequest /\ c.get.fresh)
         /\ c.flight # NoRequest /\ c.flight.fresh =>
             /\ c.flight.cred = None \/ (c.misread /\ c.flight.cred = Session)
             /\ s.carried # {}
         /\ s.carried = {} => ~c.halted
  <2> SUFFICES ASSUME ~Loose(c, s)
               PROVE  /\ c.token = None /\ ~c.again
                      /\ ~c.misread => c.shown = None /\ \A l \in c.loads : ~l.fresh
                      /\ ~(c.get # NoRequest /\ c.get.fresh)
                      /\ c.flight # NoRequest /\ c.flight.fresh =>
                          /\ c.flight.cred = None \/ (c.misread /\ c.flight.cred = Session)
                          /\ s.carried # {}
                      /\ s.carried = {} => ~c.halted
    OBVIOUS
  <2>1. c.token = None /\ ~c.again
    BY <1>1, <1>8 DEF Making
  <2>2. \A l \in c.loads : l.world # None
    BY <1>1, GameStoreAssumption DEF Page, Loads, World
  <2>3. ~c.misread => c.shown = None /\ \A l \in c.loads : ~l.fresh
    BY <1>1, <1>8, <2>1, <2>2 DEF Shows, Owner, IsOwn
  <2>4. /\ ~(c.get # NoRequest /\ c.get.fresh)
        /\ c.flight # NoRequest /\ c.flight.fresh =>
            /\ c.flight.cred = None \/ (c.misread /\ c.flight.cred = Session)
            /\ s.carried # {}
    BY <1>1, <1>8, <2>1 DEF Asked, Bears
  <2>5. s.carried = {} => ~c.halted
    BY <1>1, <1>8 DEF Kept
  <2> QED  BY <2>1, <2>3, <2>4, <2>5
<1>13. Blank(c') /\ AsSession(c') /\ AsGuest(c')
  BY <1>1, <1>5, <1>8 DEF Same, Fields, Blank, AsSession, AsGuest
<1>14. Asked(c', t)
  <2>1. c'.identity = "guest" /\ ~Loose(c', t) =>
        /\ c'.get # NoRequest /\ c'.get.fresh => Bears(c', c'.get.cred) /\ c'.token # None
        /\ c'.flight # NoRequest /\ c'.flight.fresh =>
            /\ c'.flight.cred = None \/ Bears(c', c'.flight.cred)
            /\ t.carried = {} => Bears(c', c'.flight.cred) /\ c'.token # None
    BY <1>2, <1>5, <1>10, <1>12 DEF Same, Fields, Bears
  <2> QED  BY <1>1, <1>5, <1>8, <2>1 DEF Same, Fields, Asked, Bears
<1>15. Making(c', t) /\ Shows(c', t)
  BY <1>1, <1>2, <1>5, <1>6, <1>8, <1>10, <1>11, <1>12 DEF Same, Fields, Making, Shows, Owner, IsOwn
<1>16. Queued(c', t)
  <2>1. \A i \in 1..Len(c.queue) :
          /\ s.made[c.queue[i]] # None
          /\ ~Loose(c, s) /\ ~Leaves(c, i) => c.misread \/ c.queue[i] \in s.carried
          /\ c.misread <=> c.queue[i] \in s.astray
    BY <1>1, <1>8, <1>12 DEF Queued, Fits, Owner, IsOwn
  <2> QED  BY <1>2, <1>5, <1>8, <1>10, <2>1 DEF Same, Fields, Queued, Leaves, Fits, IsOwn
<1>17. FlightHome(c', t)
  BY <1>1, <1>2, <1>5 DEF Same, Fields, FlightHome, Home
<1>18. FromPark(c', t)
  BY <1>5 DEF FromPark
<1>19. Kept(c', t)
  <2>1. \A h \in Guests : h \in {c'.token, c'.parked} => t.guest[h] # "free"
    BY <1>1, <1>2, <1>3, <1>5 DEF Kept, Same, Fields
  <2>2. ASSUME s.carried = {}, NEW h \in Guests \ t.hurried, t.guest[h] = "live"
        PROVE  h \in {c'.token, c'.parked}
    <3>1. CASE h # g
      <4>1. h \in {c.token, None}
        BY <1>1, <1>2, <1>3, <1>8, <2>2, <3>1 DEF Kept
      <4>2. h # None
        BY <2>2, GameStoreAssumption
      <4>3. c.token \in s.hurried \cup {None}
        BY <1>12 DEF Loose
      <4> QED  BY <1>1, <1>2, <2>2, <4>1, <4>2, <4>3
    <3>2. CASE h = g
      BY <1>5, <3>2
    <3> QED  BY <3>1, <3>2
  <2>3. s.carried = {} /\ c'.halted /\ c'.identity = "guest" /\ ~Loose(c', t) => FALSE
    BY <1>5, <1>10, <1>12 DEF Same, Fields
  <2>4. ~c'.raced => \A l \in c'.loads : l.by = "guest" =>
            /\ l.fresh /\ c'.identity = "guest" /\ c'.token = l.world
            /\ t.guest[l.world] = "live" /\ l.world \notin t.claims
    <3>1. g \notin t.claims
      BY <1>1, <1>2 DEF Surrounds
    <3>2. \A l \in c'.loads : l.by = "guest" => l = new
      BY <1>1, <1>5 DEF Waits
    <3>3. c'.identity = "guest" /\ t.guest[g] = "live"
      BY <1>2, <1>3, <1>5, <1>8 DEF Same, Fields
    <3> QED  BY <1>5, <1>6, <3>1, <3>2, <3>3
  <2> QED  BY <1>2, <2>1, <2>2, <2>3, <2>4 DEF Kept
<1>20. Good(c', t)
  BY <1>1, <1>5, <1>7, <1>8, <1>13, <1>14, <1>15, <1>16, <1>17, <1>18, <1>19
     DEF Good, Open, OnItsWay, Same, Fields
<1>21. Grows
  BY <1>1 DEF Grows
<1>22. Becomes(c')
  BY <1>1 DEF GuestLands, Becomes
<1> QED  BY <1>1, <1>4, <1>20, <1>21, <1>22, Framed

\* A new factory: the guest's token goes, and what waits for it is carried over.
LEMMA NewFactoryKeeps == ASSUME Inv, NewFactory PROVE Inv'
<1> USE DEF Core
<1> DEFINE s == Around
           t == Meanwhile
           x == [c EXCEPT !.token = None, !.fromPark = FALSE, !.raced = @ \/ c.again]
           y == ResetWorld(x)
<1>1. /\ Good(c, s) /\ Core(c, s) /\ Surrounds(s)
      /\ c.halted /\ c.auth = "idle" /\ c.identity # "session" /\ c' = CreateGuest(y)
      /\ carried' = carried \cup Range(c.queue) /\ UNCHANGED <<guest, acct, applied, made, hurried, astray>>
  BY DEF Inv, Good, NewFactory, Becomes, server
<1>2. /\ t.guest = s.guest /\ t.made = s.made /\ t.carried = carried' /\ t.hurried = s.hurried
      /\ t.claims = s.claims /\ t.acct = s.acct /\ s.carried = carried /\ t.astray = s.astray
  BY <1>1 DEF Meanwhile, Around
<1>3. carried' \subseteq Batches /\ carried \subseteq carried'
      /\ \A i \in 1..Len(c.queue) : c.queue[i] \in carried'
  <2>1. c.queue \in Seq(Batches) /\ carried \subseteq Batches
    BY <1>1, <1>2 DEF Page, Surrounds
  <2>2. DOMAIN c.queue = 1..Len(c.queue) /\ \A i \in 1..Len(c.queue) : c.queue[i] \in Batches
    BY <2>1
  <2> QED  BY <1>1, <2>1, <2>2 DEF Range
<1>4. Surrounds(t)
  BY <1>1, <1>2, <1>3 DEF Surrounds
<1>5. /\ DOMAIN x = Fields /\ Same(c, x, {"token", "fromPark", "raced"})
      /\ x.token = None /\ x.fromPark = FALSE /\ x.raced = (c.raced \/ c.again)
  BY <1>1 DEF Page, Fields, Same
<1> HIDE DEF x
<1>6. Page(x)
  <2>1. x.fromPark \in BOOLEAN /\ x.raced \in BOOLEAN
    BY <1>5
  <2> QED  BY <1>1, <1>5, <2>1 DEF Page, Flags, Fields, Same
<1>7. /\ Page(y)
      /\ Same(x, y, {"shown", "halted", "notFound", "flight", "get", "guesting", "loads"})
      /\ y.shown = None /\ ~y.halted /\ ~y.notFound
      /\ y.flight = Outdated(c.flight) /\ y.get = Outdated(c.get)
      /\ y.guesting = Outdated(c.guesting)
      /\ Outdates(c.loads, y.loads)
  <2>1. x.flight = c.flight /\ x.get = c.get /\ x.guesting = c.guesting /\ x.loads = c.loads
    BY <1>5 DEF Same, Fields
  <2>2. \A r \in {x.get, x.flight, x.guesting} : r # NoRequest => r.as # None
    BY <1>1, <2>1 DEF Asked, Bears
  <2> QED  BY <1>6, <2>1, <2>2, ResetWorldIs
<1> HIDE DEF y
<1>8. /\ ~y.flight.fresh /\ y.flight.cred = c.flight.cred /\ y.flight.as = c.flight.as
      /\ y.flight = NoRequest <=> c.flight = NoRequest
      /\ ~y.get.fresh /\ y.get.as = c.get.as
      /\ y.get = NoRequest <=> c.get = NoRequest
      /\ y.guesting.as = c.guesting.as
      /\ y.guesting = NoRequest <=> c.guesting = NoRequest
  <2>1. \A r \in {c.get, c.flight, c.guesting} : r \in Requests /\ (r # NoRequest => r.as # None)
    BY <1>1 DEF Asked, Page, Bears
  <2> QED  BY <1>7, <2>1, OutdatedIs
<1>9. /\ c.boot = "done" /\ c.identity = "guest" /\ ~c.pending /\ c.claim = NoRequest
      /\ (c.cookie => c.misread) /\ c.parked = None
  BY <1>1 DEF Blank, AsSession, AsGuest, Page
<1>10. /\ y.boot = "done" /\ y.identity = "guest" /\ y.auth = "idle" /\ y.pending = c.pending
       /\ y.claim = c.claim /\ y.leaving = c.leaving /\ y.raced = (c.raced \/ c.again)
       /\ y.fromPark = FALSE /\ y.again = c.again /\ y.queue = c.queue /\ y.held = c.held
       /\ y.token = None /\ y.parked = c.parked /\ y.cookie = c.cookie /\ y.misread = c.misread
       /\ y.asking = c.asking
  BY <1>1, <1>5, <1>7, <1>9 DEF Same, Fields
<1>11. Loose(y, t) <=> y.raced
  BY <1>10 DEF Loose
<1>12. Blank(y) /\ AsSession(y) /\ AsGuest(y)
  BY <1>1, <1>9, <1>10 DEF Blank, AsSession, AsGuest
<1>13. Asked(y, t)
  <2>1. \A r \in {y.get, y.flight, y.guesting, y.claim} : r # NoRequest => r.as # None
    BY <1>1, <1>8, <1>10 DEF Asked, Bears
  <2>2. y.guesting # NoRequest => y.guesting.as = "guest"
    BY <1>1, <1>8 DEF Asked, Bears
  <2>3. y.flight # NoRequest => y.queue # <<>>
    BY <1>1, <1>8, <1>10 DEF Asked, Bears
  <2> QED  BY <1>8, <1>10, <2>1, <2>2, <2>3 DEF Asked, Bears
<1>14. Making(y, t) /\ Shows(y, t)
  <2>1. \A l \in y.loads : ~l.fresh
    BY <1>7 DEF Outdates
  <2>2. ~y.raced => ~y.again
    BY <1>1, <1>10 DEF Page, Flags
  <2> QED  BY <1>7, <1>10, <1>11, <2>1, <2>2 DEF Making, Shows, IsOwn
<1>15. Queued(y, t)
  <2>1. \A i \in 1..Len(c.queue) :
          s.made[c.queue[i]] # None /\ (c.misread <=> c.queue[i] \in s.astray)
    BY <1>1 DEF Queued
  <2> QED  BY <1>2, <1>3, <1>10, <2>1 DEF Queued, Fits, IsOwn
<1>16. FlightHome(y, t)
  BY <1>1, <1>2, <1>3, <1>8, <1>10 DEF FlightHome, Home
<1>17. FromPark(y, t)
  BY <1>10 DEF FromPark
<1>18. t.carried = {} => s.carried = {}
  BY <1>2, <1>3
<1>19. Kept(y, t)
  <2>1. \A h \in Guests : h \in {y.token, y.parked} => t.guest[h] # "free"
    BY <1>9, <1>10, GameStoreAssumption
  <2>2. t.carried = {} =>
          /\ \A h \in Guests \ t.hurried : t.guest[h] = "live" => h \in {y.token, y.parked}
          /\ ~c.raced => \A l \in c.loads : l.by # "guest"
    <3> SUFFICES ASSUME s.carried = {}
                 PROVE  /\ \A h \in Guests \ t.hurried : t.guest[h] # "live"
                        /\ ~c.raced => \A l \in c.loads : l.by # "guest"
      BY <1>18
    <3>1. CASE Loose(c, s)
      <4>1. c.token \in s.hurried \cup {None} /\ c.raced
        BY <3>1 DEF Loose
      <4>2. \A h \in Guests \ t.hurried : t.guest[h] = "live" => h \in {c.token, c.parked}
        BY <1>1, <1>2 DEF Kept
      <4> QED  BY <1>2, <1>9, <4>1, <4>2, GameStoreAssumption
    <3>2. CASE ~Loose(c, s)
      <4>1. c.token # None => s.guest[c.token] # "live"
        BY <1>1, <1>9, <3>2 DEF Kept
      <4>2. \A h \in Guests \ t.hurried : t.guest[h] = "live" => h \in {c.token, c.parked}
        BY <1>1, <1>2 DEF Kept
      <4>3. ~c.raced => \A l \in c.loads : l.by = "guest" => c.token = l.world /\ s.guest[l.world] = "live"
        BY <1>1 DEF Kept
      <4>4. \A l \in c.loads : l.by \in {"get", "guest", "claim"} /\ l.world # None
        BY <1>1, GameStoreAssumption DEF Page, Loads, World
      <4>5. \A h \in Guests \ t.hurried : t.guest[h] # "live"
        BY <1>2, <1>9, <4>1, <4>2, GameStoreAssumption
      <4>6. ~c.raced => \A l \in c.loads : l.by # "guest"
        BY <4>1, <4>3, <4>4
      <4> QED  BY <4>5, <4>6
    <3> QED  BY <3>1, <3>2
  <2>3. t.carried = {} /\ ~y.raced => \A l \in y.loads : l.by # "guest"
    BY <1>7, <1>10, <2>2 DEF Outdates
  <2> QED  BY <1>7, <2>1, <2>2, <2>3 DEF Kept
<1>20. Core(y, t)
  BY <1>7, <1>12, <1>13, <1>14, <1>15, <1>16, <1>17, <1>19
<1>21. y.identity = "guest" /\ ~Loose(y, t) =>
         y.token = None /\ ~y.again /\ (t.carried = {} => ~y.halted)
  BY <1>1, <1>7, <1>10, <1>11 DEF Page, Flags
<1>22. /\ Core(c', t) /\ Same(y, c', {"guesting"})
       /\ y.identity = "guest" /\ y.auth = "idle" => c'.guesting # NoRequest
  BY <1>1, <1>4, <1>10, <1>20, <1>21, CreateGuestKeeps
<1>23. Good(c', t)
  BY <1>1, <1>9, <1>10, <1>22 DEF Good, Open, OnItsWay, Same, Fields
<1>24. Grows
  BY <1>1 DEF Grows
<1>25. Becomes(c')
  BY <1>1 DEF NewFactory, Becomes
<1> QED  BY <1>1, <1>4, <1>23, <1>24, <1>25, Framed

\* A batch is made for the world on screen.
LEMMA SendKeeps == ASSUME Inv, NEW b \in Batches, Send(b) PROVE Inv'
<1> USE DEF Core
<1> DEFINE s == Around
           t == Meanwhile
           x == [c EXCEPT !.queue = Append(@, b)]
<1>1. /\ Good(c, s) /\ Core(c, s) /\ Surrounds(s)
      /\ c.shown # None /\ made[b] = None /\ made' = [made EXCEPT ![b] = c.shown]
      /\ c' = Pump(x) /\ UNCHANGED <<guest, acct, applied, carried, hurried>>
      /\ astray' = IF c.misread THEN astray \cup {b} ELSE astray
  BY DEF Inv, Good, Send, Becomes, server
<1>2. /\ t.guest = s.guest /\ t.made = made' /\ t.carried = s.carried /\ t.hurried = s.hurried
      /\ t.claims = s.claims /\ t.acct = s.acct /\ s.made = made
      /\ t.astray = astray' /\ s.astray = astray
  BY <1>1 DEF Meanwhile, Around
<1>3. /\ c.shown \in World /\ made' \in [Batches -> World \cup {None}]
      /\ \A a \in Batches : made'[a] = IF a = b THEN c.shown ELSE made[a]
  BY <1>1, <1>2 DEF Surrounds, Page
<1>4. Surrounds(t)
  BY <1>1, <1>2, <1>3 DEF Surrounds
<1>5. DOMAIN x = Fields /\ Same(c, x, {"queue"}) /\ x.queue = Append(c.queue, b)
  BY <1>1 DEF Page, Fields, Same
<1> HIDE DEF x
<1>6. c.queue \in Seq(Batches)
  BY <1>1 DEF Page
<1>7. /\ x.queue \in Seq(Batches) /\ x.queue # <<>> /\ Len(x.queue) = Len(c.queue) + 1
      /\ \A i \in 1..Len(x.queue) : x.queue[i] = IF i = Len(x.queue) THEN b ELSE c.queue[i]
      /\ \A i \in 1..Len(x.queue) : i # Len(x.queue) => i \in 1..Len(c.queue)
      /\ c.queue # <<>> => 1 \in 1..Len(c.queue) /\ 1 # Len(x.queue)
      /\ Len(x.queue) \in Nat
  BY <1>5, <1>6
<1>8. Page(x)
  BY <1>1, <1>5, <1>7 DEF Page, Flags, Fields, Same
<1>9. /\ Loose(x, t) <=> Loose(c, s)
      /\ Waits(x) <=> Waits(c)
      /\ Owner(x, t) = Owner(c, s)
  BY <1>2, <1>5 DEF Same, Fields, Loose, Waits, Owner
<1>10. c.boot = "done" /\ ~c.pending
  BY <1>1 DEF Blank, AsSession, Quiet
<1>11. Blank(x) /\ AsSession(x) /\ AsGuest(x)
  BY <1>1, <1>5, <1>10 DEF Same, Fields, Blank, AsSession, AsGuest
<1>12. Asked(x, t)
  BY <1>1, <1>2, <1>5, <1>7, <1>9 DEF Same, Fields, Asked, Bears
<1>13. Making(x, t) /\ Shows(x, t) /\ Kept(x, t)
  BY <1>1, <1>2, <1>5, <1>9 DEF Same, Fields, Making, Shows, Kept, IsOwn
<1>14. \A i \in 1..Len(c.queue) : c.queue[i] \in Batches /\ s.made[c.queue[i]] # None
                                    /\ t.made[c.queue[i]] = s.made[c.queue[i]]
  <2>1. \A i \in 1..Len(c.queue) : c.queue[i] \in Batches
    BY <1>6
  <2> QED  BY <1>1, <1>2, <1>3, <2>1 DEF Queued
<1>15. Queued(x, t)
  <2> SUFFICES ASSUME NEW i \in 1..Len(x.queue)
               PROVE  /\ t.made[x.queue[i]] # None
                      /\ ~Loose(x, t) /\ ~Leaves(x, i) => Fits(x, x.queue[i], t)
                      /\ x.misread <=> x.queue[i] \in t.astray
    BY DEF Queued
  <2>0. x.misread = c.misread /\ x.token = c.token /\ x.fromPark = c.fromPark
        /\ x.identity = c.identity
    BY <1>5 DEF Same, Fields
  <2>1. CASE i = Len(x.queue)
    <3>1. t.made[x.queue[i]] = c.shown
      BY <1>2, <1>3, <1>7, <2>1
    <3>2. ~Loose(c, s) => IsOwn(x, c.shown, t)
      BY <1>1, <1>2, <1>9, <2>0 DEF Shows, IsOwn
    <3>3. x.misread <=> x.queue[i] \in t.astray
      <4>1. x.queue[i] = b /\ (x.misread <=> c.misread)
        BY <1>7, <2>0, <2>1
      <4>2. b \notin s.astray
        BY <1>1, <1>2 DEF Surrounds
      <4>3. CASE c.misread
        BY <1>1, <1>2, <4>1, <4>3
      <4>4. CASE ~c.misread
        BY <1>1, <1>2, <4>1, <4>2, <4>4
      <4> QED  BY <4>3, <4>4
    <3> QED  BY <1>1, <1>9, <3>1, <3>2, <3>3 DEF Fits
  <2>2. CASE i # Len(x.queue)
    <3>1. i \in 1..Len(c.queue) /\ x.queue[i] = c.queue[i]
      BY <1>7, <2>2
    <3>2. Leaves(x, i) <=> Leaves(c, i)
      BY <1>5 DEF Leaves, Same, Fields
    <3>3. Fits(c, c.queue[i], s) => Fits(x, x.queue[i], t)
      BY <1>2, <1>5, <1>9, <1>14, <3>1 DEF Fits, Same, Fields, IsOwn
    <3>4. x.misread <=> x.queue[i] \in t.astray
      <4>1. c.misread <=> c.queue[i] \in s.astray
        BY <1>1, <3>1 DEF Queued
      <4>2. c.queue[i] # b
        BY <1>1, <1>2, <1>14, <3>1
      <4>3. c.queue[i] \in t.astray <=> c.queue[i] \in s.astray
        BY <1>1, <1>2, <4>2
      <4> QED  BY <2>0, <3>1, <4>1, <4>3
    <3> QED  BY <1>1, <1>9, <1>14, <3>1, <3>2, <3>3, <3>4 DEF Queued
  <2> QED  BY <2>1, <2>2
<1>16. FlightHome(x, t)
  <2> SUFFICES ASSUME x.flight # NoRequest PROVE Home(x.queue[1], x.flight.cred, t)
    BY DEF FlightHome
  <2>1. x.flight = c.flight /\ c.queue # <<>>
    BY <1>1, <1>5 DEF Asked, Same, Fields, Bears
  <2>2. x.queue[1] = c.queue[1] /\ 1 \in 1..Len(c.queue)
    BY <1>7, <2>1
  <2>3. Home(c.queue[1], c.flight.cred, s)
    BY <1>1, <2>1 DEF FlightHome
  <2>4. s.astray \subseteq t.astray
    BY <1>1, <1>2
  <2> QED  BY <1>2, <1>14, <2>1, <2>2, <2>3, <2>4 DEF Home
<1>17. FromPark(x, t)
  <2>1. c.identity = "guest" /\ ~Loose(c, s) => c.token # None \/ ~c.fromPark
    BY <1>1 DEF Shows, Owner, IsOwn
  <2> QED  BY <1>5, <1>9, <2>1 DEF FromPark, Same, Fields
<1>18. Core(x, t)
  BY <1>8, <1>11, <1>12, <1>13, <1>15, <1>16, <1>17
<1>19. Core(c', t) /\ Same(x, c', {"flight"})
  BY <1>1, <1>4, <1>18, PumpKeeps
<1>20. Good(c', t)
  BY <1>1, <1>2, <1>5, <1>19 DEF Good, Open, OnItsWay, Same, Fields
<1>21. Grows
  BY <1>1, <1>3 DEF Grows
<1>22. Becomes(c')
  BY <1>1 DEF Send, Becomes
<1> QED  BY <1>1, <1>4, <1>20, <1>21, <1>22, Framed

\* The claim is answered.  Whatever is said, the page goes on without its request.
LEMMA AnsweredKeeps ==
    ASSUME NEW x, NEW s, Core(x, s), NEW y, y = [x EXCEPT !.claim = NoRequest]
    PROVE  Core(y, s) /\ Same(x, y, {"claim"}) /\ y.claim = NoRequest
<1> USE DEF Core
<1>1. DOMAIN y = Fields /\ Same(x, y, {"claim"}) /\ y.claim = NoRequest
  BY DEF Page, Fields, Same
<1>2. Page(y)
  BY <1>1, NoRequestIs DEF Page, Flags, Fields, Same
<1>3. /\ Loose(y, s) <=> Loose(x, s)
      /\ Waits(y) <=> Waits(x)
      /\ Owner(y, s) = Owner(x, s)
  BY <1>1 DEF Same, Fields, Loose, Waits, Owner
<1>4. Blank(y) /\ AsSession(y) /\ AsGuest(y)
  BY <1>1 DEF Same, Fields, Blank, AsSession, Quiet, AsGuest
<1>5. Asked(y, s) /\ Making(y, s) /\ Shows(y, s) /\ Kept(y, s)
  BY <1>1, <1>3 DEF Same, Fields, Asked, Making, Shows, Kept, IsOwn, Bears
<1>6. Queued(y, s) /\ FlightHome(y, s) /\ FromPark(y, s)
  BY <1>1, <1>3 DEF Same, Fields, Queued, Leaves, Fits, FlightHome, FromPark, IsOwn
<1> QED  BY <1>1, <1>2, <1>4, <1>5, <1>6

\* A session parks the token it was to claim, or drops one that is of no use.
LEMMA TokenGoes ==
    ASSUME NEW x, NEW s, Surrounds(s), Core(x, s), x.pending, x.claim = NoRequest,
           NEW y, Page(y), Same(x, y, {"token", "parked"}), y.token = None,
           \/ y.parked = x.token
           \/ y.parked = x.parked /\ (x.token # None => s.guest[x.token] # "live"),
           x.token # None
    PROVE  Core(y, s)
<1> USE DEF Core
<1>1. Quiet(x) /\ x.identity = "session" /\ x.guesting = NoRequest /\ x.boot = "done" /\ x.parked = None
  BY DEF AsSession, AsGuest, Blank
<1>2. Quiet(y) /\ y.identity = "session" /\ y.guesting = NoRequest /\ y.boot = "done"
  BY <1>1 DEF Quiet, Same, Fields
<1>3. Blank(y) /\ AsSession(y) /\ AsGuest(y)
  BY <1>1, <1>2 DEF Blank, AsSession, AsGuest, Same, Fields
<1>4. Asked(y, s) /\ Making(y, s) /\ Shows(y, s)
  BY <1>1, <1>2 DEF Quiet, Asked, Making, Shows, Same, Fields, IsOwn, Bears
<1>5. Queued(y, s) /\ FlightHome(y, s) /\ FromPark(y, s)
  BY <1>2 DEF Quiet, Queued, FlightHome, FromPark
<1>6. Kept(y, s)
  <2>1. \A g \in Guests : g # None
    BY GameStoreAssumption
  <2> QED  BY <1>1, <1>2, <2>1 DEF Kept, Quiet
<1> QED  BY <1>3, <1>4, <1>5, <1>6

\* The guest's world becomes the account's.
LEMMA ClaimedKeeps ==
    ASSUME NEW x, NEW s, Surrounds(s), Core(x, s), x.pending, x.claim = NoRequest, x.token # None,
           s.acct = x.token, NEW load,
           load = [fresh |-> TRUE, world |-> s.acct, by |-> "claim", awaited |-> FALSE],
           NEW y, y = SettleClaim([x EXCEPT !.token = None, !.loads = @ \cup {load}])
    PROVE  Good(y, s)
<1> USE DEF Core
<1> DEFINE x1 == [x EXCEPT !.token = None]
           x2 == SettleClaim(x1)
<1>1. DOMAIN x1 = Fields /\ Same(x, x1, {"token"}) /\ x1.token = None
  BY DEF Page, Fields, Same
<1>2. /\ DOMAIN y = Fields /\ Same(x2, y, {"loads"})
      /\ y.loads = x2.loads \cup {load}
  BY DEF SettleClaim, Page, Fields, Same
<1> HIDE DEF x1
<1>3. Page(x1)
  BY <1>1 DEF Page, Flags, Fields, Same
<1>4. x.identity = "session" /\ x.boot = "done" /\ x.parked = None
  BY DEF AsSession, AsGuest, Blank
<1>5. x.token \in Guests /\ s.guest[x.token] = "claimed"
  BY DEF Page, Surrounds
<1>6. Core(x1, s)
  <2>1. Same(x, x1, {"token", "parked"}) /\ x1.parked = x.parked
    BY <1>1 DEF Same, Fields
  <2> QED  BY <1>1, <1>3, <1>5, <2>1, TokenGoes
<1>7. x1.boot = "done" /\ x1.identity = "session" /\ x1.pending /\ x1.claim = NoRequest
  BY <1>1, <1>4 DEF Same, Fields
<1>8. Core(x2, s) /\ Same(x1, x2, {"pending", "auth"}) /\ ~x2.pending /\ Quiet(x2)
  BY <1>1, <1>6, <1>7, SettleClaimKeeps
<1> HIDE DEF x2
<1>9. /\ x2.boot = "done" /\ x2.identity = "session" /\ x2.loads = {} /\ x2.shown = None
      /\ x2.guesting = NoRequest /\ ~x2.misread
  BY <1>7, <1>8 DEF Same, Fields, Quiet, AsSession
<1>10. /\ y.loads = {load} /\ load \in Loads /\ load.fresh /\ load.world = s.acct
       /\ load.by = "claim"
  BY <1>2, <1>5, <1>9 DEF Loads, World
<1>11. Page(x2) /\ Blank(x2) /\ AsSession(x2) /\ AsGuest(x2) /\ Asked(x2, s) /\ Making(x2, s)
  BY <1>8
<1>12. Queued(x2, s) /\ FlightHome(x2, s) /\ FromPark(x2, s) /\ Kept(x2, s)
  BY <1>8
<1> HIDE DEF Core
<1>13. Page(y)
  <2>1. y.loads \subseteq Loads
    BY <1>10
  <2> QED  BY <1>2, <1>11, <2>1 DEF Page, Flags, Same, Fields
<1>14. /\ y.boot = "done" /\ y.identity = "session" /\ ~y.pending /\ ~y.misread /\ y.shown = None
       /\ y.guesting = NoRequest /\ ~Loose(y, s) /\ Owner(y, s) = s.acct
       /\ Owner(x2, s) = s.acct /\ ~Loose(x2, s)
  BY <1>2, <1>8, <1>9 DEF Same, Fields, Loose, Owner
<1>15. Blank(y) /\ AsSession(y) /\ AsGuest(y)
  BY <1>2, <1>11, <1>14 DEF Same, Fields, Blank, AsSession, AsGuest
<1>16. Asked(y, s) /\ Making(y, s)
  BY <1>2, <1>11, <1>14 DEF Same, Fields, Asked, Making, Bears
<1>17. Shows(y, s)
  BY <1>10, <1>14 DEF Shows, IsOwn
<1>18. Queued(y, s) /\ FlightHome(y, s) /\ FromPark(y, s)
  BY <1>2, <1>9, <1>12, <1>14 DEF Same, Fields, Queued, Leaves, Fits, FlightHome, FromPark, IsOwn
<1>19. Kept(y, s)
  BY <1>2, <1>10, <1>12, <1>14 DEF Same, Fields, Kept
<1> QED  BY <1>13, <1>14, <1>15, <1>16, <1>17, <1>18, <1>19 DEF Core, Good, Open, OnItsWay

\* The session is gone before the claim: the page is the guest's as it was.
LEMMA UnauthorizedKeeps ==
    ASSUME NEW x, NEW s, Surrounds(s), Core(x, s), x.pending, x.claim = NoRequest, x.token # None,
           ~x.cookie, NEW y, y = Release([SettleClaim(x) EXCEPT !.identity = "guest"])
    PROVE  Good(y, s)
<1> USE DEF Core
<1> DEFINE w == [SettleClaim(x) EXCEPT !.identity = "guest"]
           z == [w EXCEPT !.auth = "idle"]
<1>1. /\ DOMAIN z = Fields /\ Same(x, z, {"pending", "auth", "identity"})
      /\ z.pending = FALSE /\ z.auth = "idle" /\ z.identity = "guest"
  BY DEF SettleClaim, Page, Fields, Same
<1>2. y = Release(w) /\ z = [w EXCEPT !.auth = "idle"]
  OBVIOUS
<1> HIDE DEF z, w
<1>3. z.pending \in BOOLEAN
  BY <1>1
<1>4. Page(z)
  BY <1>1, <1>3 DEF Page, Flags, Fields, Same
<1>5. /\ Quiet(x) /\ x.identity = "session" /\ x.boot = "done" /\ x.parked = None /\ ~x.leaving
      /\ x.guesting = NoRequest /\ ~x.again /\ ~x.raced /\ ~x.misread /\ ~x.halted /\ ~x.asking
  BY DEF AsSession, AsGuest, Blank
<1>6. /\ Quiet(z) /\ z.boot = "done" /\ z.guesting = NoRequest /\ ~z.again /\ ~z.raced /\ ~z.halted
      /\ z.claim = NoRequest /\ z.parked = None /\ z.token = x.token /\ ~z.cookie /\ ~z.leaving
      /\ ~z.misread /\ ~z.asking
  BY <1>1, <1>5 DEF Quiet, Same, Fields
<1>7. Blank(z) /\ AsSession(z) /\ AsGuest(z)
  BY <1>1, <1>6 DEF Blank, AsSession, AsGuest
<1>8. Asked(z, s) /\ Making(z, s) /\ Shows(z, s)
  BY <1>1, <1>6 DEF Quiet, Asked, Making, Waits, Shows, IsOwn, Bears
<1>9. Queued(z, s) /\ FlightHome(z, s) /\ FromPark(z, s)
  BY <1>6 DEF Quiet, Queued, FlightHome, FromPark
<1>10. Kept(z, s)
  BY <1>5, <1>6 DEF Quiet, Kept
<1>11. Core(z, s)
  BY <1>4, <1>7, <1>8, <1>9, <1>10
<1> QED  BY <1>1, <1>2, <1>6, <1>11, ReleaseKeeps

\* Every answer to the claim.
LEMMA ClaimLandsKeeps == ASSUME Inv, NEW answer \in Answers, ClaimLands(answer) PROVE Inv'
<1> USE DEF Core
<1> DEFINE s == Around
           x == [c EXCEPT !.claim = NoRequest]
           load == [fresh |-> TRUE, world |-> acct, by |-> "claim", awaited |-> FALSE]
<1>1. /\ Good(c, s) /\ Core(c, s) /\ Surrounds(s) /\ c.claim # NoRequest /\ ClaimAnswer(answer)
      /\ answer = "claimed" =>
           c' = SettleClaim([x EXCEPT !.token = None, !.loads = @ \cup {load}])
      /\ answer = "unauthorized" => c' = Release([SettleClaim(x) EXCEPT !.identity = "guest"])
      /\ answer = "retry" => c' = [x EXCEPT !.auth = "claiming"]
      /\ answer \in {"already-has-world", "unknown-guest", "client-bug"} =>
           c' = AfterClaim(ResetWorld(ClearOutbox(SettleClaim(TokenAfter(x, answer)))))
  BY DEF Inv, Good, ClaimLands, Becomes
<1>2. Core(x, s) /\ Same(c, x, {"claim"}) /\ x.claim = NoRequest
  BY <1>1, AnsweredKeeps
<1> HIDE DEF x
<1>3. /\ c.pending /\ c.token # None /\ x.pending /\ x.token = c.token /\ x.token # None
      /\ x.parked = c.parked /\ x.identity = "session" /\ x.boot = "done" /\ x.parked = None
      /\ x.cookie = c.cookie
  BY <1>1, <1>2 DEF AsSession, AsGuest, Blank, Same, Fields
<1>4. ASSUME answer = "claimed" PROVE Good(c', s)
  <2>1. s.acct = x.token
    BY <1>1, <1>3, <1>4 DEF ClaimAnswer, Around
  <2>2. load = [fresh |-> TRUE, world |-> s.acct, by |-> "claim", awaited |-> FALSE]
    BY DEF Around
  <2> HIDE DEF load
  <2>3. c' = SettleClaim([x EXCEPT !.token = None, !.loads = @ \cup {load}])
    BY <1>1, <1>4
  <2>4. Surrounds(s) /\ Core(x, s) /\ x.pending /\ x.claim = NoRequest /\ x.token # None
    BY <1>1, <1>2, <1>3
  <2> HIDE DEF Core
  <2> QED  BY <2>1, <2>2, <2>3, <2>4, ClaimedKeeps, Zenon
<1>5. ASSUME answer = "unauthorized" PROVE Good(c', s)
  <2>1. ~x.cookie
    BY <1>1, <1>3, <1>5 DEF ClaimAnswer
  <2> QED  BY <1>1, <1>2, <1>3, <1>5, <2>1, UnauthorizedKeeps
<1>6. ASSUME answer = "retry" PROVE Good(c', s)
  <2>1. DOMAIN c' = Fields /\ Same(x, c', {"auth"}) /\ c'.auth = "claiming"
    BY <1>1, <1>2, <1>6 DEF Page, Fields, Same
  <2>2. Page(c')
    BY <1>2, <2>1 DEF Page, Flags, Fields, Same
  <2>3. /\ Loose(c', s) <=> Loose(x, s)
        /\ Waits(c') <=> Waits(x)
        /\ Owner(c', s) = Owner(x, s)
    BY <2>1 DEF Same, Fields, Loose, Waits, Owner
  <2>4. Blank(c') /\ AsSession(c') /\ AsGuest(c')
    BY <1>2, <1>3, <2>1 DEF Same, Fields, Blank, AsSession, Quiet, AsGuest
  <2>5. Asked(c', s) /\ Making(c', s) /\ Shows(c', s) /\ Kept(c', s)
    BY <1>2, <2>1, <2>3 DEF Same, Fields, Asked, Making, Shows, Kept, IsOwn, Bears
  <2>6. Queued(c', s) /\ FlightHome(c', s) /\ FromPark(c', s)
    BY <1>2, <2>1, <2>3 DEF Same, Fields, Queued, Leaves, Fits, FlightHome, FromPark, IsOwn
  <2> QED  BY <1>3, <2>1, <2>2, <2>4, <2>5, <2>6 DEF Good, Open, OnItsWay, Same, Fields
<1>7. ASSUME answer \in {"already-has-world", "unknown-guest", "client-bug"} PROVE Good(c', s)
  <2> DEFINE y == TokenAfter(x, answer)
  <2>1. /\ Page(y) /\ Same(x, y, {"token", "parked"}) /\ y.token = None
        /\ \/ y.parked = x.token
           \/ y.parked = x.parked /\ s.guest[x.token] # "live"
    <3>1. CASE answer = "unknown-guest"
      <4>1. y = [x EXCEPT !.token = None]
        BY <3>1 DEF TokenAfter
      <4>2. DOMAIN y = Fields /\ Same(x, y, {"token"}) /\ y.token = None
        BY <1>2, <4>1 DEF Page, Fields, Same
      <4> HIDE DEF y
      <4>3. Page(y)
        BY <1>2, <4>2 DEF Page, Flags, Fields, Same
      <4>4. s.guest[x.token] # "live"
        BY <1>1, <1>3, <3>1 DEF ClaimAnswer, Around
      <4> QED  BY <4>2, <4>3, <4>4 DEF Same, Fields
    <3>2. CASE answer # "unknown-guest"
      <4>1. y = Park(x)
        BY <3>2 DEF TokenAfter
      <4> HIDE DEF y
      <4> QED  BY <1>2, <1>3, <4>1, ParkIs
    <3> QED  BY <3>1, <3>2
  <2>2. c' = AfterClaim(ResetWorld(ClearOutbox(SettleClaim(y))))
    BY <1>1, <1>7
  <2> HIDE DEF y
  <2>3. Core(y, s)
    BY <1>1, <1>2, <1>3, <2>1, TokenGoes
  <2>4. y.boot = "done" /\ y.identity = "session" /\ y.pending /\ y.claim = NoRequest
    BY <1>2, <1>3, <2>1 DEF Same, Fields
  <2> QED  BY <1>1, <2>1, <2>2, <2>3, <2>4, SettledKeeps
<1>8. Good(c', s)
  BY <1>4, <1>5, <1>6, <1>7 DEF Answers
<1> QED  BY <1>8, Moved DEF ClaimLands, Becomes

\* The claim is asked again.
LEMMA ClaimRetryKeeps == ASSUME Inv, ClaimRetry PROVE Inv'
<1>1. Good(c, Around) /\ Core(c, Around) /\ Surrounds(Around) /\ c.pending /\ c' = Claim(c)
  BY DEF Inv, Good, ClaimRetry, Becomes
<1>2. c.boot = "done" /\ c.identity = "session"
  BY <1>1 DEF Core, AsSession, Blank
<1>3. Good(c', Around)
  BY <1>1, <1>2, ClaimKeeps
<1> QED  BY <1>3, Moved DEF ClaimRetry, Becomes

\* os are the loads ls, which somebody waits for.
Awaits(ls, os) ==
    \A o \in os : o \in Loads /\ \E l \in ls : o.fresh = l.fresh /\ o.by = l.by /\ o.world = l.world

\* What loads keeps its world when somebody waits for it.
LEMMA AwaitedLoads ==
    ASSUME NEW ls, ls \subseteq Loads
    PROVE  Awaits(ls, {[l EXCEPT !.awaited = l.by # "claim"] : l \in ls})
<1>1. \A l \in ls : LET o == [l EXCEPT !.awaited = l.by # "claim"] IN
        o \in Loads /\ o.fresh = l.fresh /\ o.by = l.by /\ o.world = l.world
  BY DEF Loads
<1> QED  BY <1>1 DEF Awaits

\* A sign-out holds the page, whose session keeps what it has.
LEMMA SignOutKeeps == ASSUME Inv, SignOut PROVE Inv'
<1> USE DEF Core
<1> DEFINE s == Around
           S == {"auth", "held", "leaving", "again", "awaits", "loads"}
           waited == {[l EXCEPT !.awaited = l.by # "claim"] : l \in c.loads}
<1>1. /\ Good(c, s) /\ Core(c, s)
      /\ c.boot = "done" /\ c.identity = "session" /\ c.auth = "idle" /\ ~c.leaving
      /\ c' = [c EXCEPT !.auth = "held", !.held = TRUE, !.leaving = TRUE, !.again = FALSE,
                        !.awaits = c.get # NoRequest, !.loads = waited]
  BY Zenon DEF Inv, Good, SignOut, Becomes
<1> HIDE DEF waited
<1>2. /\ DOMAIN c' = Fields /\ Same(c, c', S)
      /\ c'.auth = "held" /\ c'.held = TRUE /\ c'.leaving = TRUE /\ c'.again = FALSE
  BY <1>1 DEF Page, Fields, Same
<1>0. Core(c, s) /\ Same(c, c', S) /\ c.identity = "session" /\ c'.again = FALSE
  BY <1>1, <1>2
<1>3. c'.awaits = (c.get # NoRequest)
  BY <1>1 DEF Page, Fields
<1>4. Awaits(c.loads, c'.loads)
  <2>1. c.loads \subseteq Loads
    BY <1>1 DEF Page
  <2>2. c'.loads = waited
    BY <1>1 DEF Page, Fields
  <2> QED  BY <2>1, <2>2, AwaitedLoads DEF waited
<1>5. Page(c')
  <2>1. c'.held \in BOOLEAN /\ c'.leaving \in BOOLEAN /\ c'.again \in BOOLEAN
    BY <1>2
  <2>2. c'.awaits \in BOOLEAN
    BY <1>3
  <2>3. c'.loads \subseteq Loads
    BY <1>4 DEF Awaits
  <2>4. Page(c) /\ DOMAIN c' = Fields /\ Same(c, c', S) /\ c'.auth = "held"
    BY <1>1, <1>2
  <2> QED  BY <2>1, <2>2, <2>3, <2>4 DEF Page, Flags, Fields, Same
<1>6. /\ c'.boot = "done" /\ c'.identity = "session" /\ ~c.pending /\ ~c'.pending
      /\ c'.claim = c.claim /\ c'.guesting = c.guesting /\ c'.raced = c.raced /\ c'.halted = c.halted
      /\ c'.token = c.token /\ c'.parked = c.parked /\ c'.misread = c.misread
  BY <1>1, <1>2 DEF AsSession, Same, Fields
<1>7. Blank(c') /\ AsSession(c') /\ AsGuest(c')
  BY <1>1, <1>2, <1>6 DEF Blank, AsSession, AsGuest
<1>8. Asked(c', s) /\ Making(c', s)
  BY <1>0, <1>6 DEF Asked, Making, Same, Fields, Bears
<1>9. Owner(c', s) = Owner(c, s) /\ ~Loose(c, s) /\ ~Loose(c', s)
  BY <1>1, <1>6 DEF Owner, Loose
<1>10. Shows(c', s)
  BY <1>0, <1>4, <1>9 DEF Shows, Awaits, Same, Fields, IsOwn
<1>11. Queued(c', s) /\ FlightHome(c', s) /\ FromPark(c', s)
  BY <1>0, <1>6, <1>9 DEF Queued, Leaves, Fits, FlightHome, FromPark, Same, Fields, IsOwn
<1>12. Kept(c', s)
  <2>1. s.carried = {} /\ ~c.raced => \A l \in c.loads : l.by # "guest"
    BY <1>1 DEF Kept
  <2>2. s.carried = {} /\ ~c'.raced => \A l \in c'.loads : l.by # "guest"
    BY <1>4, <1>6, <2>1 DEF Awaits
  <2> QED  BY <1>1, <1>6, <2>2 DEF Kept
<1>13. Good(c', s)
  BY <1>5, <1>6, <1>7, <1>8, <1>10, <1>11, <1>12 DEF Good, Open, OnItsWay
<1>14. Becomes(c') /\ UNCHANGED <<server, history>>
  BY Zenon DEF SignOut, Becomes
<1> QED  BY <1>13, <1>14, Moved

\* Nothing is under way: the server is asked to end the session.
LEMMA SignOutAsksKeeps == ASSUME Inv, SignOutAsks PROVE Inv'
<1> DEFINE s == Around
<1>1. Good(c, s) /\ Core(c, s) /\ c.leaving /\ c' = [c EXCEPT !.asking = TRUE]
  BY DEF Inv, Good, SignOutAsks, Becomes
<1>2. Page(c) /\ Blank(c) /\ AsSession(c) /\ AsGuest(c) /\ Asked(c, s) /\ Making(c, s)
  BY <1>1 DEF Core
<1>3. /\ Shows(c, s) /\ Queued(c, s) /\ FlightHome(c, s) /\ FromPark(c, s) /\ Kept(c, s)
      /\ Open(c) /\ OnItsWay(c, s)
  BY <1>1 DEF Core, Good
<1>4. DOMAIN c' = Fields /\ Same(c, c', {"asking"}) /\ c'.asking = TRUE
  BY <1>1, <1>2 DEF Page, Fields, Same
<1>5. Page(c')
  <2>1. c'.asking \in BOOLEAN
    BY <1>4
  <2> QED  BY <1>2, <1>4, <2>1 DEF Page, Flags, Fields, Same
<1>6. /\ Loose(c', s) <=> Loose(c, s)
      /\ Waits(c') <=> Waits(c)
      /\ Owner(c', s) = Owner(c, s)
  BY <1>4 DEF Same, Fields, Loose, Waits, Owner
<1>7. Blank(c') /\ AsSession(c') /\ AsGuest(c')
  BY <1>1, <1>2, <1>4 DEF Same, Fields, Blank, Quiet, AsSession, AsGuest
<1>8. Asked(c', s) /\ Making(c', s)
  BY <1>2, <1>4, <1>6 DEF Same, Fields, Asked, Making, Bears
<1>9. Shows(c', s) /\ Kept(c', s)
  BY <1>3, <1>4, <1>6 DEF Same, Fields, Shows, Kept, IsOwn
<1>10. Queued(c', s) /\ FlightHome(c', s) /\ FromPark(c', s)
  BY <1>3, <1>4, <1>6 DEF Same, Fields, Queued, Leaves, Fits, FlightHome, FromPark, IsOwn
<1>11. Open(c') /\ OnItsWay(c', s)
  BY <1>3, <1>4 DEF Same, Fields, Open, OnItsWay
<1>12. Good(c', s)
  BY <1>5, <1>7, <1>8, <1>9, <1>10, <1>11 DEF Good, Core
<1> QED  BY <1>12, Moved DEF SignOutAsks, Becomes

\* The sign-out has ended, or failed.
LEMMA SignedOutKeeps == ASSUME Inv, SignedOut PROVE Inv'
<1> USE DEF Core
<1> DEFINE s == Around
           w == [c EXCEPT !.leaving = FALSE, !.asking = FALSE]
           x == [w EXCEPT !.cookie = FALSE]
           z == [w EXCEPT !.auth = "idle"]
<1>1. /\ Good(c, s) /\ Core(c, s) /\ Surrounds(s) /\ c.leaving
      /\ c' = LeaveSession(x) \/ c' = Release(w)
  BY DEF Inv, Good, SignedOut, Becomes, Core, AsGuest
<1>2. /\ c.boot = "done" /\ ~c.pending
      /\ c.identity = "guest" => c.raced
  BY <1>1 DEF Blank, AsSession, AsGuest
<1>3. ASSUME c' = LeaveSession(x) PROVE Good(c', s)
  <2>1. /\ DOMAIN x = Fields /\ Same(c, x, {"leaving", "asking", "cookie"})
        /\ x.leaving = FALSE /\ x.asking = FALSE /\ x.cookie = FALSE
    BY <1>1 DEF Page, Fields, Same
  <2> HIDE DEF x
  <2>2. x.leaving \in BOOLEAN /\ x.asking \in BOOLEAN /\ x.cookie \in BOOLEAN
    BY <2>1
  <2>3. Page(x)
    BY <1>1, <2>1, <2>2 DEF Page, Flags, Fields, Same
  <2>4. /\ Loose(x, s) <=> Loose(c, s)
        /\ Waits(x) <=> Waits(c)
        /\ Owner(x, s) = Owner(c, s)
    BY <2>1 DEF Same, Fields, Loose, Waits, Owner
  <2>5. Blank(x) /\ AsSession(x) /\ AsGuest(x) /\ Asked(x, s)
    BY <1>1, <1>2, <2>1, <2>4 DEF Same, Fields, Blank, AsSession, AsGuest, Asked, Bears
  <2>6. Making(x, s) /\ Shows(x, s) /\ Kept(x, s)
    BY <1>1, <2>1, <2>4 DEF Same, Fields, Making, Shows, Kept, IsOwn
  <2>7. Queued(x, s) /\ FlightHome(x, s) /\ FromPark(x, s)
    BY <1>1, <2>1, <2>4 DEF Same, Fields, Queued, Leaves, Fits, FlightHome, FromPark, IsOwn
  <2>8. x.boot = "done" /\ ~x.pending /\ (x.identity = "guest" => x.raced)
    BY <1>2, <2>1 DEF Same, Fields
  <2> QED  BY <1>1, <1>3, <2>1, <2>3, <2>5, <2>6, <2>7, <2>8, LeaveSessionKeeps
<1>4. ASSUME c' = Release(w) PROVE Good(c', s)
  <2>1. /\ DOMAIN z = Fields /\ Same(c, z, {"leaving", "asking", "auth"})
        /\ z.leaving = FALSE /\ z.asking = FALSE /\ z.auth = "idle"
    BY <1>1 DEF Page, Fields, Same
  <2>2. z = [w EXCEPT !.auth = "idle"]
    OBVIOUS
  <2> HIDE DEF z, w
  <2>3. z.leaving \in BOOLEAN /\ z.asking \in BOOLEAN
    BY <2>1
  <2>4. Page(z)
    BY <1>1, <2>1, <2>3 DEF Page, Flags, Fields, Same
  <2>5. /\ Loose(z, s) <=> Loose(c, s)
        /\ Waits(z) <=> Waits(c)
        /\ Owner(z, s) = Owner(c, s)
    BY <2>1 DEF Same, Fields, Loose, Waits, Owner
  <2>6. Blank(z) /\ AsSession(z) /\ AsGuest(z) /\ Asked(z, s)
    BY <1>1, <1>2, <2>1, <2>5 DEF Same, Fields, Blank, AsSession, AsGuest, Asked, Bears
  <2>7. Making(z, s) /\ Shows(z, s) /\ Kept(z, s)
    BY <1>1, <2>1, <2>5 DEF Same, Fields, Making, Shows, Kept, IsOwn
  <2>8. Queued(z, s) /\ FlightHome(z, s) /\ FromPark(z, s)
    BY <1>1, <2>1, <2>5 DEF Same, Fields, Queued, Leaves, Fits, FlightHome, FromPark, IsOwn
  <2>9. Core(z, s)
    BY <2>4, <2>6, <2>7, <2>8
  <2>10. /\ z.boot = "done" /\ ~z.pending
         /\ z.identity = "guest" /\ z.token = None => Loose(z, s)
    BY <1>2, <2>1 DEF Same, Fields, Loose
  <2> QED  BY <1>1, <1>4, <2>2, <2>9, <2>10, ReleaseKeeps
<1> QED  BY <1>1, <1>3, <1>4, Moved DEF SignedOut, Becomes

-----------------------------------------------------------------------------
(***************************************************************************)
(* The theorems.                                                           *)
(***************************************************************************)
\* A browser that has never been to the factory.
LEMMA InitHolds == Init => Inv
<1> SUFFICES ASSUME Init PROVE Inv
  OBVIOUS
<1> DEFINE s == Around
<1>1. c = Closed(None, None, FALSE, FALSE)
  BY DEF Init
<1>2. /\ s.guest = [g \in Guests |-> "free"] /\ s.acct = None /\ s.made = [b \in Batches |-> None]
      /\ s.carried = {} /\ s.hurried = {} /\ s.astray = {} /\ s.claims = {}
  BY DEF Init, Around
<1>3. Surrounds(s)
  BY <1>2, GameStoreAssumption DEF Surrounds
<1>4. /\ DOMAIN c = Fields
      /\ c.boot = "closed" /\ c.identity = "unknown" /\ c.auth = "idle"
      /\ c.pending = FALSE /\ c.leaving = FALSE /\ c.awaits = FALSE /\ c.asking = FALSE
      /\ c.raced = FALSE /\ c.misread = FALSE
      /\ c.halted = FALSE /\ c.notFound = FALSE /\ c.fromPark = FALSE /\ c.again = FALSE
      /\ c.held = TRUE /\ c.cookie = FALSE /\ c.callback = FALSE
      /\ c.claim = NoRequest /\ c.guesting = NoRequest /\ c.get = NoRequest /\ c.flight = NoRequest
      /\ c.shown = None /\ c.loads = {} /\ c.queue = <<>> /\ c.token = None /\ c.parked = None
  BY <1>1 DEF Closed, Fields
<1>5. Page(c)
  <2>1. \A f \in Flags : c[f] \in BOOLEAN
    BY <1>4 DEF Flags
  <2>2. NoRequest \in Requests /\ <<>> \in Seq(Batches)
    BY NoRequestIs
  <2> QED  BY <1>4, <2>1, <2>2 DEF Page
<1>6. Core(c, s)
  <2>1. Blank(c) /\ AsSession(c) /\ AsGuest(c)
    BY <1>4 DEF Blank, Quiet, AsSession, AsGuest
  <2>2. Asked(c, s) /\ Making(c, s) /\ Shows(c, s)
    BY <1>4 DEF Asked, Making, Shows, IsOwn, Bears
  <2>3. Queued(c, s) /\ FlightHome(c, s) /\ FromPark(c, s)
    BY <1>4 DEF Queued, FlightHome, FromPark
  <2>4. Kept(c, s)
    BY <1>2, <1>4, GameStoreAssumption DEF Kept
  <2> QED  BY <1>5, <2>1, <2>2, <2>3, <2>4 DEF Core
<1>7. Good(c, s)
  BY <1>4, <1>6 DEF Good, Open, OnItsWay
<1>8. Posted(wire, s) /\ Sent(c) \subseteq wire
  <2>1. c.flight = NoRequest /\ c.claim = NoRequest /\ c.get = NoRequest /\ wire = {}
    BY <1>4 DEF Init
  <2>2. NoRequest.cred # Session
    BY GameStoreAssumption DEF NoRequest
  <2> QED  BY <2>1, <2>2 DEF Posted, Sent
<1> QED  BY <1>3, <1>7, <1>8 DEF Init, Inv, BatchStaysHome

\* Every step keeps the invariant.
LEMMA StepKeeps == Inv /\ [Next]_vars => Inv'
<1> SUFFICES ASSUME Inv, [Next]_vars PROVE Inv'
  OBVIOUS
<1>1. ASSUME NEW r \in wire, ProcessWorld(r) PROVE Inv'
  BY <1>1, ProcessWorldKeeps
<1>2. ASSUME NEW r \in wire, ProcessClaim(r) PROVE Inv'
  BY <1>2, ProcessClaimKeeps
<1>3. ASSUME NEW g \in Guests, DeleteGuest(g) PROVE Inv'
  BY <1>3, DeleteGuestKeeps
<1>4. ASSUME NEW g \in Guests, GuestLands(g) PROVE Inv'
  BY <1>4, UnwantedKeeps, WantedKeeps
<1>5. CASE SessionDies
  BY <1>5, SessionDiesKeeps
<1>6. CASE Load \/ Close \/ BootHealth \/ BootSession \/ BeginSignIn
  BY <1>6, LoadKeeps, CloseKeeps, BootHealthKeeps, BootSessionKeeps
<1>7. CASE SignInCommits \/ SignInSucceeds \/ SignInFails
  BY <1>7, SignInCommitsKeeps, SignInSucceedsKeeps, SignInFailsKeeps
<1>8. ASSUME NEW b \in Batches, Send(b) PROVE Inv'
  BY <1>8, SendKeeps
<1>9. CASE Resend \/ Trigger
  BY <1>9, ResendKeeps, TriggerKeeps
<1>10. CASE PostIgnored \/ PostAdopted \/ PostFailed \/ PostRefused
  BY <1>10, PostIgnoredKeeps, PostAdoptedKeeps, PostFailedKeeps, PostRefusedKeeps
<1>11. CASE GetLands \/ GetFailed \/ GetRefused
  BY <1>11, GetLandsKeeps, GetFailedKeeps, GetRefusedKeeps
<1>12. ASSUME NEW l \in c.loads, AdoptLoad(l) PROVE Inv'
  BY <1>12, AdoptLoadKeeps
<1>13. CASE GuestFails \/ GuestRetry \/ NewFactory
  BY <1>13, GuestFailsKeeps, GuestRetryKeeps, NewFactoryKeeps
<1>14. ASSUME NEW answer \in Answers, ClaimLands(answer) PROVE Inv'
  BY <1>14, ClaimLandsKeeps
<1>15. CASE ClaimRetry \/ SignOut \/ SignOutAsks \/ SignedOut
  BY <1>15, ClaimRetryKeeps, SignOutKeeps, SignOutAsksKeeps, SignedOutKeeps
<1>16. CASE UNCHANGED vars
  <2>1. Around' = Around
    BY <1>16 DEF vars, server, history, Around
  <2>2. /\ c' = c /\ wire' = wire /\ applied' = applied /\ made' = made
        /\ carried' = carried /\ hurried' = hurried /\ astray' = astray
    BY <1>16 DEF vars, server, history
  <2>3. Sent(c)' = Sent(c)
    BY <2>2 DEF Sent
  <2> QED  BY <2>1, <2>2, <2>3 DEF Inv, BatchStaysHome
<1> QED
  BY <1>1, <1>2, <1>3, <1>4, <1>5, <1>6, <1>7, <1>8, <1>9, <1>10, <1>11, <1>12, <1>13, <1>14,
     <1>15, <1>16 DEF Next

\* What the page and its surroundings always are.
THEOREM StoreInvariant == Spec => []Inv
BY InitHolds, StepKeeps, PTL DEF Spec

\* store.ts, W-14: a batch is applied in the world it was made for and in no other, whatever
\* signs in, signs out, is claimed, parked or deleted meanwhile.  Excepted are batches pending at
\* a new factory, guests of a raced page, and batches of a page that could not read its session.
THEOREM BatchesStayHome == Spec => []BatchStaysHome
<1>1. Inv => BatchStaysHome
  BY DEF Inv
<1> QED  BY <1>1, StoreInvariant, PTL

\* store.ts #park, #unpark, #expire: the page keeps the token of every guest's world, never holds
\* two, and never waits for a guest that nobody makes (but after a new factory, and for the
\* guests of a raced page).
THEOREM GuestsAreSafe == Spec => []GuestSafe
<1>1. ASSUME Inv PROVE GuestSafe
  <2>1. Good(c, Around) /\ Core(c, Around) /\ Page(c) /\ Surrounds(Around)
    BY <1>1 DEF Inv, Good, Core
  <2>2. /\ Around.guest = guest /\ Around.acct = acct /\ Around.made = made
        /\ Around.carried = carried /\ Around.hurried = hurried
    BY DEF Around
  <2>3. TypeOK
    <3>1. applied \subseteq Batches \X World
      BY <1>1 DEF Inv
    <3>2. /\ c.flight # NoRequest => c.queue # <<>>
          /\ c.pending => c.identity = "session" /\ c.auth # "idle"
          /\ c.claim # NoRequest => c.pending /\ c.token # None
      BY <2>1 DEF Core, Asked, AsSession, Bears
    <3> QED  BY <2>1, <2>2, <3>1, <3>2 DEF TypeOK, Page, Surrounds
  <2>4. WorldNeverLost
    BY <2>1, <2>2 DEF Core, Kept, WorldNeverLost
  <2>5. OneToken
    BY <2>1 DEF Core, AsGuest, OneToken
  <2>6. GuestOnItsWay
    BY <2>1, <2>2 DEF Good, OnItsWay, GuestOnItsWay
  <2> QED  BY <2>3, <2>4, <2>5, <2>6 DEF GuestSafe
<1> QED  BY <1>1, StoreInvariant, PTL

-----------------------------------------------------------------------------
(***************************************************************************)
(* No session's request before the guest's world is claimed.               *)
(***************************************************************************)
\* A page that can say what its GET carries.
Shaped(x) ==
    DOMAIN x = Fields /\ DOMAIN x.get = {"fresh", "as", "cred"} /\ Session \notin {x.token, x.parked}

\* y's GET with the session's credential was x's, or is sent with the cookie both have.
GetFrom(x, y) ==
    /\ Shaped(y) /\ y.cookie = x.cookie
    /\ y.get.cred = Session => y.cookie \/ x.get.cred = Session

\* Page records are shaped.
LEMMA PageShaped == ASSUME NEW x, Page(x) PROVE Shaped(x)
<1>1. x.get \in Requests
  BY DEF Page
<1>2. DOMAIN x.get = {"fresh", "as", "cred"}
  BY <1>1 DEF Requests
<1> QED  BY <1>2, GameStoreAssumption DEF Page, Shaped

\* Where a GET comes from, over two methods.
LEMMA GetThrough ==
    ASSUME NEW x, NEW y, NEW z, GetFrom(x, y), GetFrom(y, z) PROVE GetFrom(x, z)
BY DEF GetFrom

\* y has x's GET and cookie, and its tokens or fewer.
Beside(x, y) ==
    /\ DOMAIN y = Fields /\ y.get = x.get /\ y.cookie = x.cookie
    /\ y.token \in {x.token, x.parked, None} /\ y.parked \in {x.token, x.parked, None}

\* A method that leaves the GET and the cookie alone.
LEMMA GetStays == ASSUME NEW x, Shaped(x), NEW y, Beside(x, y) PROVE GetFrom(x, y)
<1>1. None # Session
  BY GameStoreAssumption
<1> QED  BY <1>1 DEF Beside, GetFrom, Shaped

\* The GET is asked with what the browser holds.
LEMMA WantGetFrom == ASSUME NEW x, Shaped(x) PROVE GetFrom(x, WantGet(x))
<1>1. CASE WantGet(x) = x
  BY <1>1 DEF GetFrom
<1>2. CASE WantGet(x) = [x EXCEPT !.get = Request(x)]
  <2> DEFINE y == [x EXCEPT !.get = Request(x)]
  <2>1. /\ DOMAIN y = Fields /\ y.get = Request(x) /\ y.cookie = x.cookie
        /\ y.token = x.token /\ y.parked = x.parked
    BY DEF Shaped, Fields
  <2>2. WantGet(x) = y
    BY <1>2
  <2> HIDE DEF y
  <2>3. DOMAIN Request(x) = {"fresh", "as", "cred"}
    BY DEF Request
  <2>4. Request(x).cred = IF x.cookie THEN Session ELSE x.token
    BY DEF Request
  <2> QED  BY <2>1, <2>2, <2>3, <2>4 DEF GetFrom, Shaped
<1> QED  BY <1>1, <1>2 DEF WantGet

\* The methods that only touch other fields.
LEMMA OthersFrom ==
    ASSUME NEW x, Shaped(x)
    PROVE  /\ GetFrom(x, CreateGuest(x)) /\ GetFrom(x, Pump(x)) /\ GetFrom(x, StartOutbox(x))
           /\ GetFrom(x, ClearOutbox(x)) /\ GetFrom(x, SettleHead(x)) /\ GetFrom(x, SettleClaim(x))
           /\ GetFrom(x, Park(x)) /\ GetFrom(x, Unpark(x))
           /\ \A r, w : GetFrom(x, Adopt(x, r, w))
<1>1. GetFrom(x, CreateGuest(x))
  <2>1. Beside(x, CreateGuest(x))
    BY DEF Beside, CreateGuest, Shaped, Fields
  <2> QED  BY <2>1, GetStays
<1>2. ASSUME NEW z, Shaped(z) PROVE GetFrom(z, Pump(z))
  <2>1. Beside(z, Pump(z))
    BY <1>2 DEF Beside, Pump, Shaped, Fields
  <2> QED  BY <1>2, <2>1, GetStays
<1>3. GetFrom(x, StartOutbox(x))
  <2> DEFINE z == [x EXCEPT !.held = FALSE]
  <2>1. Beside(x, z)
    BY DEF Beside, Shaped, Fields
  <2>2. StartOutbox(x) = Pump(z)
    BY DEF StartOutbox
  <2> HIDE DEF z
  <2>3. GetFrom(x, z) /\ Shaped(z)
    BY <2>1, GetStays DEF GetFrom
  <2> QED  BY <1>2, <2>2, <2>3, GetThrough
<1>4. GetFrom(x, ClearOutbox(x))
  <2>1. Beside(x, ClearOutbox(x))
    BY DEF Beside, ClearOutbox, Shaped, Fields
  <2> QED  BY <2>1, GetStays
<1>5. GetFrom(x, SettleHead(x))
  <2> DEFINE z == [x EXCEPT !.queue = Tail(@), !.flight = NoRequest]
  <2>1. Beside(x, z)
    BY DEF Beside, Shaped, Fields
  <2>2. SettleHead(x) = Pump(z)
    BY DEF SettleHead
  <2> HIDE DEF z
  <2>3. GetFrom(x, z) /\ Shaped(z)
    BY <2>1, GetStays DEF GetFrom
  <2> QED  BY <1>2, <2>2, <2>3, GetThrough
<1>6. GetFrom(x, SettleClaim(x))
  <2>1. Beside(x, SettleClaim(x))
    BY DEF Beside, SettleClaim, Shaped, Fields
  <2> QED  BY <2>1, GetStays
<1>7. GetFrom(x, Park(x))
  <2>1. Beside(x, Park(x))
    BY DEF Beside, Park, Shaped, Fields
  <2> QED  BY <2>1, GetStays
<1>8. GetFrom(x, Unpark(x))
  <2>1. Beside(x, Unpark(x))
    BY DEF Beside, Unpark, Shaped, Fields
  <2> QED  BY <2>1, GetStays
<1>9. ASSUME NEW r, NEW w PROVE GetFrom(x, Adopt(x, r, w))
  <2>1. Beside(x, Adopt(x, r, w))
    BY DEF Beside, Adopt, Shaped, Fields
  <2> QED  BY <2>1, GetStays
<1> QED  BY <1>1, <1>2, <1>3, <1>4, <1>5, <1>6, <1>7, <1>8, <1>9

\* Whatever is adopted.
LEMMA AdoptedFrom ==
    ASSUME NEW x, Shaped(x), NEW r, NEW w, NEW y \in Adopted(x, r, w)
    PROVE  GetFrom(x, y)
<1>1. y = x \/ \E v : y = Adopt(x, r, v)
  BY DEF Adopted
<1>2. Beside(x, x)
  BY DEF Beside, Shaped
<1> QED  BY <1>1, <1>2, GetStays, OthersFrom

\* An outdated GET carries what it did.
LEMMA ResetWorldFrom == ASSUME NEW x, Shaped(x) PROVE GetFrom(x, ResetWorld(x))
<1> DEFINE y == ResetWorld(x)
<1>1. /\ DOMAIN y = Fields /\ y.get = Outdated(x.get) /\ y.cookie = x.cookie
      /\ y.token = x.token /\ y.parked = x.parked
  BY DEF ResetWorld, Shaped, Fields
<1> HIDE DEF y
<1>2. DOMAIN y.get = {"fresh", "as", "cred"} /\ y.get.cred = x.get.cred
  BY <1>1 DEF Outdated, Shaped
<1> QED  BY <1>1, <1>2 DEF GetFrom, Shaped, y

\* #resume
LEMMA ResumeFrom == ASSUME NEW x, Shaped(x) PROVE GetFrom(x, Resume(x))
BY WantGetFrom, OthersFrom DEF Resume

\* #leaveSession
LEMMA LeaveSessionFrom == ASSUME NEW x, Shaped(x) PROVE GetFrom(x, LeaveSession(x))
<1> DEFINE x0 == ClearOutbox(x)
           x1 == [x0 EXCEPT !.identity = "guest", !.auth = "idle", !.raced = @ \/ x.leaving]
           x2 == ResetWorld(x1)
           x3 == Unpark(x2)
           x4 == StartOutbox(x3)
<1>0. LeaveSession(x) = Resume(x4)
  BY DEF LeaveSession
<1>1. GetFrom(x, x0) /\ Shaped(x0)
  BY OthersFrom DEF GetFrom
<1> HIDE DEF x0
<1>2. GetFrom(x0, x1) /\ Shaped(x1)
  <2>1. Beside(x0, x1)
    BY <1>1 DEF Beside, Shaped, Fields
  <2> HIDE DEF x1
  <2> QED  BY <1>1, <2>1, GetStays DEF GetFrom
<1> HIDE DEF x1
<1>3. GetFrom(x1, x2) /\ Shaped(x2)
  BY <1>2, ResetWorldFrom DEF GetFrom
<1> HIDE DEF x2
<1>4. GetFrom(x2, x3) /\ Shaped(x3)
  BY <1>3, OthersFrom DEF GetFrom
<1> HIDE DEF x3
<1>5. GetFrom(x3, x4) /\ Shaped(x4)
  BY <1>4, OthersFrom DEF GetFrom
<1> HIDE DEF x4
<1>6. GetFrom(x4, Resume(x4))
  BY <1>5, ResumeFrom
<1> QED  BY <1>0, <1>1, <1>2, <1>3, <1>4, <1>5, <1>6, GetThrough

\* #expire
LEMMA ExpireFrom == ASSUME NEW x, Shaped(x), NEW api PROVE GetFrom(x, Expire(x, api))
<1> DEFINE x0 == ClearOutbox(x)
           x1 == [x0 EXCEPT !.token = None, !.fromPark = FALSE]
           x2 == ResetWorld(x1)
           x3 == [x0 EXCEPT !.halted = TRUE]
<1>0. Expire(x, api) \in {LeaveSession(x), CreateGuest(x2), x3}
  BY DEF Expire
<1>1. GetFrom(x, x0) /\ Shaped(x0)
  BY OthersFrom DEF GetFrom
<1> HIDE DEF x0
<1>2. Beside(x0, x1) /\ Beside(x0, x3)
  BY <1>1 DEF Beside, Shaped, Fields
<1> HIDE DEF x1, x3
<1>3. GetFrom(x0, x1) /\ GetFrom(x0, x3) /\ Shaped(x1)
  BY <1>1, <1>2, GetStays DEF GetFrom
<1>4. GetFrom(x1, x2) /\ Shaped(x2)
  BY <1>3, ResetWorldFrom DEF GetFrom
<1> HIDE DEF x2
<1>5. GetFrom(x2, CreateGuest(x2))
  BY <1>4, OthersFrom
<1>6. GetFrom(x, CreateGuest(x2)) /\ GetFrom(x, x3)
  BY <1>1, <1>3, <1>4, <1>5, GetThrough
<1> QED  BY <1>0, <1>6, LeaveSessionFrom

\* #handle
LEMMA HandleGoneFrom ==
    ASSUME NEW x, Shaped(x), NEW r, NEW status
    PROVE  GetFrom(x, HandleGone(x, r, status))
<1> DEFINE z == [x EXCEPT !.notFound = TRUE]
<1>1. HandleGone(x, r, status) \in {x, Expire(x, TRUE), Expire(x, FALSE), WantGet(z)}
  BY DEF HandleGone
<1>2. Beside(x, z) /\ Beside(x, x)
  BY DEF Beside, Shaped, Fields
<1> HIDE DEF z
<1>3. GetFrom(x, z) /\ Shaped(z) /\ GetFrom(x, x)
  BY <1>2, GetStays DEF GetFrom
<1>4. GetFrom(x, WantGet(z))
  BY <1>3, WantGetFrom, GetThrough
<1>5. GetFrom(x, Expire(x, TRUE)) /\ GetFrom(x, Expire(x, FALSE))
  BY ExpireFrom, Zenon
<1> QED  BY <1>1, <1>3, <1>4, <1>5, Zenon

\* #afterClaim
LEMMA AfterClaimFrom == ASSUME NEW x, Shaped(x) PROVE GetFrom(x, AfterClaim(x))
<1> DEFINE z == StartOutbox(x)
<1>1. AfterClaim(x) \in {z, WantGet(z)}
  BY DEF AfterClaim
<1>2. GetFrom(x, z) /\ Shaped(z)
  BY OthersFrom DEF GetFrom
<1> HIDE DEF z
<1> QED  BY <1>1, <1>2, WantGetFrom, GetThrough

\* A claim that was not granted.
LEMMA SettledFrom ==
    ASSUME NEW x, Shaped(x)
    PROVE  GetFrom(x, AfterClaim(ResetWorld(ClearOutbox(SettleClaim(x)))))
<1> DEFINE x1 == SettleClaim(x)
           x2 == ClearOutbox(x1)
           x3 == ResetWorld(x2)
<1>1. GetFrom(x, x1) /\ Shaped(x1)
  BY OthersFrom DEF GetFrom
<1> HIDE DEF x1
<1>2. GetFrom(x1, x2) /\ Shaped(x2)
  BY <1>1, OthersFrom DEF GetFrom
<1> HIDE DEF x2
<1>3. GetFrom(x2, x3) /\ Shaped(x3)
  BY <1>2, ResetWorldFrom DEF GetFrom
<1> HIDE DEF x3
<1>4. GetFrom(x, AfterClaim(x3))
  BY <1>1, <1>2, <1>3, AfterClaimFrom, GetThrough
<1> QED  BY <1>4 DEF x1, x2, x3

\* #claim
LEMMA ClaimFrom == ASSUME NEW x, Shaped(x) PROVE GetFrom(x, Claim(x))
<1>1. Beside(x, x) /\ Beside(x, [x EXCEPT !.claim = Request(x)])
  BY DEF Beside, Shaped, Fields
<1>2. GetFrom(x, x) /\ GetFrom(x, [x EXCEPT !.claim = Request(x)])
  BY <1>1, GetStays
<1> QED  BY <1>2, SettledFrom DEF Claim

\* #release
LEMMA ReleaseFrom == ASSUME NEW x, Shaped(x) PROVE GetFrom(x, Release(x))
<1> DEFINE z == [x EXCEPT !.auth = "idle"]
           w == StartOutbox(z)
<1>1. Release(x) = Resume(w)
  BY DEF Release
<1>2. Beside(x, z)
  BY DEF Beside, Shaped, Fields
<1> HIDE DEF z
<1>3. GetFrom(x, z) /\ Shaped(z)
  BY <1>2, GetStays DEF GetFrom
<1>4. GetFrom(z, w) /\ Shaped(w)
  BY <1>3, OthersFrom DEF GetFrom
<1> HIDE DEF w
<1> QED  BY <1>1, <1>3, <1>4, ResumeFrom, GetThrough

\* A step's GET with the session's credential is sent with its cookie, or was sent before.
Came == c'.get.cred = Session => c'.cookie \/ c.get.cred = Session

\* The page's life.
LEMMA LifeCame ==
    ASSUME Shaped(c),
           Load \/ Close \/ BootHealth \/ BootSession \/ SignInSucceeds \/ SignInFails \/ BeginSignIn
    PROVE  Came
<1>1. CASE Load
  <2>1. c'.get = c.get
    BY <1>1 DEF Load, Becomes, Shaped, Fields
  <2> QED  BY <2>1 DEF Came
<1>2. CASE Close \/ BeginSignIn
  <2>1. c'.get = NoRequest
    BY <1>2 DEF Close, BeginSignIn, Becomes, Closed
  <2> QED  BY <2>1, GameStoreAssumption DEF Came, NoRequest
<1>3. CASE BootHealth
  <2>1. c'.get = c.get
    BY <1>3 DEF BootHealth, Becomes, Shaped, Fields
  <2> QED  BY <2>1 DEF Came
<1>4. CASE BootSession
  <2>0. PICK session \in {c.cookie, FALSE} :
          LET alone == IF session THEN c ELSE Unpark(c)
              x == [alone EXCEPT !.boot = "done", !.callback = FALSE] IN
          c' = IF c.callback /\ ~session
               THEN [x EXCEPT !.boot = "callback", !.identity = "guest", !.auth = "held"]
               ELSE IF session /\ c.token # None
               THEN Claim([x EXCEPT !.identity = "session", !.pending = TRUE, !.auth = "held"])
               ELSE Resume(StartOutbox(
                   [x EXCEPT !.identity = IF session THEN "session" ELSE "guest",
                             !.misread = c.cookie /\ ~session]))
    BY <1>4 DEF BootSession, Becomes
  <2> DEFINE alone == IF session THEN c ELSE Unpark(c)
             x == [alone EXCEPT !.boot = "done", !.callback = FALSE]
             x1 == [x EXCEPT !.boot = "callback", !.identity = "guest", !.auth = "held"]
             x2 == [x EXCEPT !.identity = "session", !.pending = TRUE, !.auth = "held"]
             x3 == [x EXCEPT !.identity = IF session THEN "session" ELSE "guest",
                             !.misread = c.cookie /\ ~session]
  <2>1. c' \in {x1, Claim(x2), Resume(StartOutbox(x3))}
    BY <2>0
  <2>2. GetFrom(c, alone) /\ Shaped(alone)
    <3>1. Beside(c, c)
      BY DEF Beside, Shaped
    <3> QED  BY <3>1, GetStays, OthersFrom DEF GetFrom
  <2> HIDE DEF alone
  <2>3. Beside(alone, x)
    BY <2>2 DEF Beside, Shaped, Fields
  <2> HIDE DEF x
  <2>4. GetFrom(alone, x) /\ Shaped(x)
    BY <2>2, <2>3, GetStays DEF GetFrom
  <2>5. Beside(x, x1) /\ Beside(x, x2) /\ Beside(x, x3)
    BY <2>4 DEF Beside, Shaped, Fields
  <2> HIDE DEF x1, x2, x3
  <2>6. /\ GetFrom(x, x1) /\ GetFrom(x, x2) /\ GetFrom(x, x3)
        /\ Shaped(x2) /\ Shaped(x3)
    BY <2>4, <2>5, GetStays DEF GetFrom
  <2>7. GetFrom(x, Claim(x2))
    BY <2>6, ClaimFrom, GetThrough
  <2>8. GetFrom(x3, StartOutbox(x3)) /\ Shaped(StartOutbox(x3))
    BY <2>6, OthersFrom DEF GetFrom
  <2>9. GetFrom(x, Resume(StartOutbox(x3)))
    BY <2>6, <2>8, ResumeFrom, GetThrough
  <2>10. GetFrom(x, c')
    BY <2>1, <2>6, <2>7, <2>9
  <2>11. GetFrom(c, c')
    BY <2>2, <2>4, <2>10, GetThrough
  <2> QED  BY <2>11 DEF Came, GetFrom
<1>5. CASE SignInSucceeds
  <2> DEFINE x == [c EXCEPT !.boot = "done", !.identity = "session", !.pending = TRUE]
  <2>1. c' = Claim(x)
    BY <1>5 DEF SignInSucceeds, Becomes
  <2>2. Beside(c, x)
    BY DEF Beside, Shaped, Fields
  <2> HIDE DEF x
  <2>3. GetFrom(c, x) /\ Shaped(x)
    BY <2>2, GetStays DEF GetFrom
  <2>4. GetFrom(c, c')
    BY <2>1, <2>3, ClaimFrom, GetThrough
  <2> QED  BY <2>4 DEF Came, GetFrom
<1>6. CASE SignInFails
  <2> DEFINE x == [c EXCEPT !.boot = "done", !.misread = c.cookie]
  <2>1. c' = Release(x)
    BY <1>6 DEF SignInFails, Becomes
  <2>2. Beside(c, x)
    BY DEF Beside, Shaped, Fields
  <2> HIDE DEF x
  <2>3. GetFrom(c, x) /\ Shaped(x)
    BY <2>2, GetStays DEF GetFrom
  <2>4. GetFrom(c, c')
    BY <2>1, <2>3, ReleaseFrom, GetThrough
  <2> QED  BY <2>4 DEF Came, GetFrom
<1> QED  BY <1>1, <1>2, <1>3, <1>4, <1>5, <1>6

\* Play: batches and the answers to them.
LEMMA PlayCame ==
    ASSUME Shaped(c),
           (\E b \in Batches : Send(b)) \/ Resend \/ Trigger
              \/ PostIgnored \/ PostAdopted \/ PostFailed \/ PostRefused
    PROVE  Came
<1> SUFFICES GetFrom(c, c')
  BY DEF Came, GetFrom
<1>1. CASE \E b \in Batches : Send(b)
  <2>1. PICK b \in Batches : c' = Pump([c EXCEPT !.queue = Append(@, b)])
    BY <1>1 DEF Send, Becomes
  <2> DEFINE x == [c EXCEPT !.queue = Append(@, b)]
  <2>2. Beside(c, x) /\ c' = Pump(x)
    BY <2>1 DEF Beside, Shaped, Fields
  <2> HIDE DEF x
  <2>3. GetFrom(c, x) /\ Shaped(x)
    BY <2>2, GetStays DEF GetFrom
  <2> QED  BY <2>2, <2>3, OthersFrom, GetThrough
<1>2. CASE Resend
  <2>1. c' = Pump(c)
    BY <1>2 DEF Resend, Becomes
  <2> QED  BY <2>1, OthersFrom
<1>3. CASE Trigger
  <2>1. c' = WantGet(c)
    BY <1>3 DEF Trigger, Becomes
  <2> QED  BY <2>1, WantGetFrom
<1>4. CASE PostIgnored
  <2>1. Beside(c, c')
    BY <1>4 DEF PostIgnored, Becomes, Beside, Shaped, Fields
  <2> QED  BY <2>1, GetStays
<1>5. CASE PostAdopted
  <2>1. PICK w \in World : \E y \in Adopted(c, c.flight, w) : c' = SettleHead(y)
    BY <1>5 DEF PostAdopted, Becomes
  <2>2. PICK y \in Adopted(c, c.flight, w) : c' = SettleHead(y)
    BY <2>1
  <2>4. GetFrom(c, y) /\ Shaped(y)
    BY <2>2, AdoptedFrom DEF GetFrom
  <2> QED  BY <2>2, <2>4, OthersFrom, GetThrough
<1>6. CASE PostFailed
  <2>1. c' = [c EXCEPT !.flight = NoRequest] \/ c' = SettleHead(c)
    BY <1>6 DEF PostFailed, Becomes
  <2>2. Beside(c, [c EXCEPT !.flight = NoRequest])
    BY DEF Beside, Shaped, Fields
  <2> QED  BY <2>1, <2>2, GetStays, OthersFrom
<1>7. CASE PostRefused
  <2>1. PICK status \in {401, 404} : c' = SettleHead(HandleGone(c, c.flight, status))
    BY <1>7 DEF PostRefused, Becomes
  <2> DEFINE y == HandleGone(c, c.flight, status)
  <2>2. GetFrom(c, y) /\ Shaped(y)
    BY HandleGoneFrom DEF GetFrom
  <2> HIDE DEF y
  <2> QED  BY <2>1, <2>2, OthersFrom, GetThrough DEF y
<1> QED  BY <1>1, <1>2, <1>3, <1>4, <1>5, <1>6, <1>7

\* The answers to the GET.
LEMMA GetCame ==
    ASSUME Shaped(c), GetLands \/ GetFailed \/ GetRefused \/ (\E l \in c.loads : AdoptLoad(l))
    PROVE  Came
<1> DEFINE x == GetDone
<1>1. /\ DOMAIN x = Fields /\ x.get = NoRequest /\ x.cookie = c.cookie
      /\ x.token = c.token /\ x.parked = c.parked
  BY DEF GetDone, Shaped, Fields
<1> HIDE DEF x
<1>2. GetFrom(c, x) /\ Shaped(x)
  BY <1>1, GameStoreAssumption DEF GetFrom, Shaped, NoRequest
<1>3. CASE GetLands
  <2> DEFINE w == IF c.get.cred = Session THEN Reach(Session) ELSE c.get.cred
             y == [x EXCEPT !.loads = @ \cup
                    {[fresh |-> TRUE, world |-> w, by |-> "get", awaited |-> c.awaits]}]
  <2>1. c' = y \/ c' = WantGet(x)
    BY <1>3 DEF GetLands, Becomes, x
  <2>2. Beside(x, y)
    BY <1>2 DEF Beside, Shaped, Fields
  <2> HIDE DEF y
  <2>3. GetFrom(c, c')
    BY <1>2, <2>1, <2>2, GetStays, WantGetFrom, GetThrough
  <2> QED  BY <2>3 DEF Came, GetFrom
<1>4. CASE GetFailed
  <2>1. c' = x
    BY <1>4 DEF GetFailed, Becomes, x
  <2> QED  BY <1>2, <2>1 DEF Came, GetFrom
<1>5. CASE GetRefused
  <2>1. PICK status \in {401, 404} : c' = WantGet(x) \/ c' = HandleGone(x, c.get, status)
    BY <1>5 DEF GetRefused, Becomes, x
  <2>2. GetFrom(c, c')
    BY <1>2, <2>1, WantGetFrom, HandleGoneFrom, GetThrough
  <2> QED  BY <2>2 DEF Came, GetFrom
<1>6. CASE \E l \in c.loads : AdoptLoad(l)
  <2>1. PICK l \in c.loads : AdoptLoad(l)
    BY <1>6
  <2> DEFINE y == [c EXCEPT !.loads = @ \ {l}, !.guesting = IF l.by = "guest" THEN NoRequest ELSE @]
  <2>2. c' = WantGet(y) \/ \E z \in Adopted(y, l, l.world) : c' = z \/ c' = AfterClaim(z)
    BY <2>1, Zenon DEF AdoptLoad, Becomes
  <2>3. Beside(c, y)
    BY DEF Beside, Shaped, Fields
  <2> HIDE DEF y
  <2>4. GetFrom(c, y) /\ Shaped(y)
    BY <2>3, GetStays DEF GetFrom
  <2>5. GetFrom(c, c')
    <3>1. ASSUME NEW z \in Adopted(y, l, l.world), c' = z \/ c' = AfterClaim(z)
          PROVE  GetFrom(c, c')
      <4>1. GetFrom(c, z) /\ Shaped(z)
        BY <2>4, <3>1, AdoptedFrom, GetThrough DEF GetFrom
      <4> QED  BY <3>1, <4>1, AfterClaimFrom, GetThrough
    <3> QED  BY <2>2, <2>4, <3>1, WantGetFrom, GetThrough
  <2> QED  BY <2>5 DEF Came, GetFrom
<1> QED  BY <1>3, <1>4, <1>5, <1>6

\* Guests, claims, sign-out.
LEMMA IdentityCame ==
    ASSUME Shaped(c),
           (\E g \in Guests : GuestLands(g)) \/ GuestFails \/ GuestRetry \/ NewFactory
              \/ (\E answer \in Answers : ClaimLands(answer)) \/ ClaimRetry
              \/ SignOut \/ SignOutAsks \/ SignedOut
    PROVE  Came
<1>1. CASE \E g \in Guests : GuestLands(g)
  <2>1. \/ c' = [c EXCEPT !.guesting = NoRequest]
        \/ \E g, ls : c' = [c EXCEPT !.token = g, !.fromPark = FALSE, !.loads = ls]
    BY <1>1, Zenon DEF GuestLands, Becomes
  <2>2. "get" \in DOMAIN c
    BY DEF Shaped, Fields
  <2>3. CASE c' = [c EXCEPT !.guesting = NoRequest]
    BY <2>2, <2>3 DEF Came
  <2>4. ASSUME NEW g, NEW ls, c' = [c EXCEPT !.token = g, !.fromPark = FALSE, !.loads = ls]
        PROVE  Came
    BY <2>2, <2>4 DEF Came
  <2> QED  BY <2>1, <2>3, <2>4, Zenon
<1>2. CASE GuestFails
  <2>1. c'.get = c.get
    BY <1>2 DEF GuestFails, Becomes, Shaped, Fields
  <2> QED  BY <2>1 DEF Came
<1>3. CASE GuestRetry
  <2>1. c' = CreateGuest([c EXCEPT !.again = FALSE])
    BY <1>3 DEF GuestRetry, Becomes
  <2>2. c'.get = c.get
    BY <2>1 DEF CreateGuest, Shaped, Fields
  <2> QED  BY <2>2 DEF Came
<1>4. CASE NewFactory
  <2> DEFINE x == [c EXCEPT !.token = None, !.fromPark = FALSE, !.raced = @ \/ c.again]
  <2>1. c' = CreateGuest(ResetWorld(x))
    BY <1>4 DEF NewFactory, Becomes
  <2>2. Beside(c, x)
    BY DEF Beside, Shaped, Fields
  <2> HIDE DEF x
  <2>3. GetFrom(c, x) /\ Shaped(x)
    BY <2>2, GetStays DEF GetFrom
  <2>4. GetFrom(x, ResetWorld(x)) /\ Shaped(ResetWorld(x))
    BY <2>3, ResetWorldFrom DEF GetFrom
  <2>5. GetFrom(c, c')
    BY <2>1, <2>3, <2>4, OthersFrom, GetThrough
  <2> QED  BY <2>5 DEF Came, GetFrom
<1>5. CASE \E answer \in Answers : ClaimLands(answer)
  <2>1. PICK answer \in Answers : ClaimLands(answer)
    BY <1>5
  <2> DEFINE x == [c EXCEPT !.claim = NoRequest]
             load == [fresh |-> TRUE, world |-> acct, by |-> "claim", awaited |-> FALSE]
             x0 == [x EXCEPT !.token = None]
             x1 == [x EXCEPT !.token = None, !.loads = @ \cup {load}]
             y2 == [SettleClaim(x) EXCEPT !.identity = "guest"]
             y3 == [x EXCEPT !.auth = "claiming"]
             y4 == TokenAfter(x, answer)
  <2>2. c' \in {SettleClaim(x1), Release(y2), y3,
                AfterClaim(ResetWorld(ClearOutbox(SettleClaim(y4))))}
    BY <2>1 DEF ClaimLands, Becomes, Answers
  <2>3. Beside(c, x)
    BY DEF Beside, Shaped, Fields
  <2> HIDE DEF x
  <2>4. GetFrom(c, x) /\ Shaped(x)
    BY <2>3, GetStays DEF GetFrom
  <2>5. Beside(x, x0) /\ Beside(x, x1) /\ Beside(x, y3)
    BY <2>4 DEF Beside, Shaped, Fields
  <2>6. Beside(x, y2)
    BY <2>4 DEF SettleClaim, Beside, Shaped, Fields
  <2>7. GetFrom(x, y4) /\ Shaped(y4)
    BY <2>4, <2>5, GetStays, OthersFrom DEF TokenAfter, GetFrom
  <2> HIDE DEF x1, y2, y3, y4
  <2>8. /\ GetFrom(x, x1) /\ GetFrom(x, y2) /\ GetFrom(x, y3)
        /\ Shaped(x1) /\ Shaped(y2)
    BY <2>4, <2>5, <2>6, GetStays DEF GetFrom
  <2>11. GetFrom(x, SettleClaim(x1))
    BY <2>8, OthersFrom, GetThrough
  <2>12. GetFrom(x, Release(y2))
    BY <2>8, ReleaseFrom, GetThrough
  <2>13. GetFrom(x, AfterClaim(ResetWorld(ClearOutbox(SettleClaim(y4)))))
    BY <2>7, SettledFrom, GetThrough
  <2>14. GetFrom(x, c')
    BY <2>2, <2>8, <2>11, <2>12, <2>13
  <2>15. GetFrom(c, c')
    BY <2>4, <2>14, GetThrough
  <2> QED  BY <2>15 DEF Came, GetFrom
<1>6. CASE ClaimRetry
  <2>1. GetFrom(c, c')
    BY <1>6, ClaimFrom DEF ClaimRetry, Becomes
  <2> QED  BY <2>1 DEF Came, GetFrom
<1>7. CASE SignOut
  <2>2. \E ls : c' = [c EXCEPT !.auth = "held", !.held = TRUE, !.leaving = TRUE, !.again = FALSE,
                                !.awaits = c.get # NoRequest, !.loads = ls]
    BY <1>7, Zenon DEF SignOut, Becomes
  <2>1. c'.get = c.get
    BY <2>2 DEF Shaped, Fields
  <2> QED  BY <2>1 DEF Came
<1>9. CASE SignOutAsks
  <2>1. c'.get = c.get
    BY <1>9 DEF SignOutAsks, Becomes, Shaped, Fields
  <2> QED  BY <2>1 DEF Came
<1>8. CASE SignedOut
  <2> DEFINE w == [c EXCEPT !.leaving = FALSE, !.asking = FALSE]
             x == [w EXCEPT !.cookie = FALSE]
  <2>1. c' = LeaveSession(x) \/ c' = Release(w)
    BY <1>8 DEF SignedOut, Becomes
  <2>2. /\ DOMAIN x = Fields /\ x.get = c.get /\ x.token = c.token /\ x.parked = c.parked
        /\ DOMAIN w = Fields /\ w.get = c.get /\ w.token = c.token /\ w.parked = c.parked
    BY DEF Shaped, Fields
  <2> HIDE DEF x, w
  <2>3. Shaped(x) /\ Shaped(w)
    BY <2>2 DEF Shaped
  <2>4. GetFrom(x, c') \/ GetFrom(w, c')
    BY <2>1, <2>3, LeaveSessionFrom, ReleaseFrom
  <2> QED  BY <2>2, <2>4 DEF Came, GetFrom
<1> QED  BY <1>1, <1>2, <1>3, <1>4, <1>5, <1>6, <1>7, <1>8, <1>9

\* The account gets its world in the GET's answer, which leaves the outbox alone.
LEMMA WorldGiven ==
    ASSUME Inv, Next
    PROVE  wire' = wire \/ acct' = acct \/ (c'.flight = c.flight /\ c'.queue = c.queue)
<1>1. CASE GetLands
  <2>1. DOMAIN c = Fields
    BY DEF Inv, Good, Core, Page
  <2>2. c' = WantGet(GetDone) \/ \E ls : c' = [GetDone EXCEPT !.loads = ls]
    BY <1>1 DEF GetLands, Becomes
  <2> DEFINE x == GetDone
  <2>3. DOMAIN x = Fields /\ x.flight = c.flight /\ x.queue = c.queue
    BY <2>1 DEF GetDone, Fields
  <2>4. c' = WantGet(x) \/ \E ls : c' = [x EXCEPT !.loads = ls]
    BY <2>2
  <2> HIDE DEF x
  <2> QED  BY <2>3, <2>4 DEF WantGet, Fields
<1>2. ASSUME NEW r \in wire, ProcessWorld(r) \/ ProcessClaim(r) PROVE wire' = wire
  BY <1>2 DEF ProcessWorld, ProcessClaim
<1>3. ASSUME NEW g \in Guests, DeleteGuest(g) \/ GuestLands(g) PROVE acct' = acct
  BY <1>3 DEF DeleteGuest, GuestLands
<1>4. ASSUME NEW b \in Batches, Send(b) PROVE acct' = acct
  BY <1>4 DEF Send, server
<1>5. ASSUME NEW l \in c.loads, AdoptLoad(l) PROVE acct' = acct
  BY <1>5 DEF AdoptLoad, server
<1>6. ASSUME NEW answer \in Answers, ClaimLands(answer) PROVE acct' = acct
  BY <1>6 DEF ClaimLands, server
<1>7. CASE SessionDies \/ Load \/ Close \/ BootHealth \/ BootSession \/ SignInCommits
              \/ SignInSucceeds \/ SignInFails \/ BeginSignIn \/ Resend \/ Trigger
  BY <1>7 DEF SessionDies, Load, Close, BootHealth, BootSession, SignInCommits,
              SignInSucceeds, SignInFails, BeginSignIn, Resend, Trigger, server
<1>8. CASE PostIgnored \/ PostAdopted \/ PostFailed \/ PostRefused \/ GetFailed \/ GetRefused
              \/ GuestFails \/ GuestRetry \/ NewFactory \/ ClaimRetry \/ SignOut
              \/ SignOutAsks \/ SignedOut
  BY <1>8 DEF PostIgnored, PostAdopted, PostFailed, PostRefused, GetFailed, GetRefused,
              GuestFails, GuestRetry, NewFactory, ClaimRetry, SignOut, SignOutAsks, SignedOut,
              server
<1> QED  BY <1>1, <1>2, <1>3, <1>4, <1>5, <1>6, <1>7, <1>8 DEF Next

\* Every step's GET.
LEMMA StepCame == ASSUME Inv, Next, wire' # wire PROVE Came
<1>1. Shaped(c)
  BY PageShaped DEF Inv, Good, Core
<1>2. ~SessionDies /\ ~SignInCommits /\ \A r \in wire : ~ProcessWorld(r) /\ ~ProcessClaim(r)
  BY DEF SessionDies, SignInCommits, ProcessWorld, ProcessClaim
<1>3. \A g \in Guests : ~DeleteGuest(g)
  BY DEF DeleteGuest
<1> QED  BY <1>1, <1>2, <1>3, LifeCame, PlayCame, GetCame, IdentityCame DEF Next

\* What a step adds to the wire is what the page sends.
LEMMA StepSends == ASSUME Next PROVE wire' \subseteq wire \cup Sent(c')
<1>1. ASSUME NEW r \in wire, ProcessWorld(r) \/ ProcessClaim(r) PROVE wire' = wire
  BY <1>1 DEF ProcessWorld, ProcessClaim
<1>2. ASSUME NEW g \in Guests, DeleteGuest(g) \/ GuestLands(g) PROVE wire' = wire \/ Becomes(c')
  BY <1>2 DEF DeleteGuest, GuestLands, Becomes
<1>3. ASSUME NEW b \in Batches, Send(b) PROVE Becomes(c')
  BY <1>3 DEF Send, Becomes
<1>4. ASSUME NEW l \in c.loads, AdoptLoad(l) PROVE Becomes(c')
  BY <1>4 DEF AdoptLoad, Becomes
<1>5. ASSUME NEW answer \in Answers, ClaimLands(answer) PROVE Becomes(c')
  BY <1>5 DEF ClaimLands, Becomes
<1>6. CASE SessionDies \/ SignInCommits
  BY <1>6 DEF SessionDies, SignInCommits
<1>7. ASSUME Load \/ Close \/ BootHealth \/ BootSession \/ SignInSucceeds \/ SignInFails
                \/ BeginSignIn \/ Resend \/ Trigger
      PROVE  Becomes(c')
  BY <1>7 DEF Load, Close, BootHealth, BootSession, SignInSucceeds, SignInFails, BeginSignIn,
              Resend, Trigger, Becomes
<1>8. ASSUME PostIgnored \/ PostAdopted \/ PostFailed \/ PostRefused \/ GetLands \/ GetFailed
                \/ GetRefused
      PROVE  Becomes(c')
  BY <1>8 DEF PostIgnored, PostAdopted, PostFailed, PostRefused, GetLands, GetFailed, GetRefused,
              Becomes
<1>9. ASSUME GuestFails \/ GuestRetry \/ NewFactory \/ ClaimRetry \/ SignOut
                \/ SignOutAsks \/ SignedOut
      PROVE  Becomes(c')
  <2>1. SignOut => Becomes(c')
    BY Zenon DEF SignOut, Becomes
  <2>2. SignOutAsks => Becomes(c')
    BY DEF SignOutAsks, Becomes
  <2> QED  BY <1>9, <2>1, <2>2 DEF GuestFails, GuestRetry, NewFactory, ClaimRetry, SignedOut, Becomes
<1> QED  BY <1>1, <1>2, <1>3, <1>4, <1>5, <1>6, <1>7, <1>8, <1>9 DEF Next, Becomes

\* A page that has the cookie is a session with no guest but the one it is claiming, unless it
\* could not read its session.
LEMMA CookieHolder ==
    ASSUME NEW x, NEW s, Core(x, s), x.get.cred = Session, x.cookie
    PROVE  x.token = None \/ x.misread
<1>1. x.get # NoRequest
  BY GameStoreAssumption DEF NoRequest
<1>2. x.boot = "done" /\ ~x.pending
  BY <1>1 DEF Core, Blank, Quiet, AsSession
<1>3. x.identity = "session" \/ x.misread
  BY <1>2 DEF Core, AsGuest, Page
<1> QED  BY <1>2, <1>3 DEF Core, AsSession

\* store.ts #finishIdentity: "a GET first would make the account an empty world and strand the
\* guest's": a guest's world is claimed before a session's request can make another, unless the
\* page plays as a guest because it could not read its session.
THEOREM NoWorldStranded == Spec => NothingStranded
<1> DEFINE A == \A r \in wire' \ wire :
                  r.kind # "claim" /\ r.cred = Session /\ acct = None
                  => c'.token = None \/ guest[c'.token] # "live" \/ c'.misread
<1>1. ASSUME Inv, Inv', Next PROVE A
  <2> SUFFICES ASSUME NEW r \in wire' \ wire, r.kind # "claim", r.cred = Session, acct = None
               PROVE  c'.token = None \/ c'.misread
    OBVIOUS
  <2>1. Came /\ wire' # wire
    BY <1>1, StepCame
  <2>2. r \in Sent(c') /\ r \notin Sent(c)
    BY <1>1, StepSends DEF Inv
  <2>3. CASE r.kind = "get"
    <3>1. c'.get.cred = Session
      BY <2>2, <2>3 DEF Sent
    <3>2. CASE c'.cookie
      <4>1. Core(c', Around')
        BY <1>1 DEF Inv, Good
      <4> QED  BY <3>1, <3>2, <4>1, CookieHolder
    <3>3. CASE c.get.cred = Session
      <4>1. r = [kind |-> "get", batch |-> None, cred |-> Session]
        BY <2>2, <2>3 DEF Sent
      <4>2. r \in Sent(c)
        BY <3>3, <4>1 DEF Sent
      <4> QED  BY <2>2, <4>2
    <3> QED  BY <2>1, <3>1, <3>2, <3>3 DEF Came
  <2>4. CASE r.kind = "post"
    <3>1. /\ c'.flight # NoRequest
          /\ r = [kind |-> "post", batch |-> Head(c'.queue), cred |-> c'.flight.cred]
      BY <2>2, <2>4 DEF Sent
    <3>2. Page(c') /\ Queued(c', Around') /\ FlightHome(c', Around') /\ c'.queue # <<>>
      BY <1>1, <3>1 DEF Inv, Good, Core, Asked
    <3>3. 1 \in 1..Len(c'.queue)
      BY <3>2 DEF Page
    <3>4. CASE c'.queue[1] \in astray'
      BY <3>2, <3>3, <3>4 DEF Queued, Around
    <3>5. CASE c'.queue[1] \notin astray'
      <4>1. acct' # None
        BY <2>2, <3>1, <3>2, <3>5 DEF FlightHome, Home, Around
      <4>2. c'.flight = c.flight /\ c'.queue = c.queue
        BY <1>1, <2>1, <4>1, WorldGiven
      <4>3. r \in Sent(c)
        BY <3>1, <4>2 DEF Sent
      <4> QED  BY <2>2, <4>3
    <3> QED  BY <3>4, <3>5
  <2>5. r.kind \in {"get", "post", "claim"}
    BY <2>2 DEF Sent
  <2> QED  BY <2>3, <2>4, <2>5
<1>2. Inv /\ Inv' /\ [Next]_vars => [A]_vars
  BY <1>1
<1> QED  BY <1>2, StoreInvariant, PTL DEF Spec, NothingStranded
=============================================================================
