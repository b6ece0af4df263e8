------------------------------ MODULE UiProofs ------------------------------
(***************************************************************************)
(* The page's parts, for any values of their constants: Polling, a page in *)
(* sight of a world that moves keeps a timer or a GET; Taps, no tap is     *)
(* lost, late or discarded; PriorityList, what was asked last is what is   *)
(* shown, and what the server ends up with, and nothing jumps.             *)
(***************************************************************************)
EXTENDS Polling, Taps, PriorityList, FiniteSetTheorems, SequenceTheorems, TLAPS

PollingSpec == (\E runs \in BOOLEAN : PollingInit(runs)) /\ [][PollingNext]_polling

Snapshots == [version : Nat, at : Nat, moving : BOOLEAN]
Pages == [running : BOOLEAN, visible : BOOLEAN, paused : BOOLEAN, boundary : BOOLEAN,
          deferred : {"no", "weak", "forced"}, snapshot : Snapshots]
Flights == [phase : {"no", "sent", "served"}, body : Snapshots]

PollingTypeOK ==
    /\ world \in [version : Nat \ {0}, at : Nat]
    /\ page \in Pages
    /\ get \in Flights /\ post \in Flights

\* What the server has served is a world, and no placeholder.
ServedIsReal == \A flight \in {get, post} : flight.phase = "served" => flight.body.version > 0

PollingInv == PollingTypeOK /\ ServedIsReal /\ PollsOn

Excused == {"client bug", "stale answer"}

----------------------------------------------------------------------------
\* The helpers, field by field.

LEMMA ArmSets ==
    ASSUME NEW q \in Pages
    PROVE  /\ Arm(q) \in Pages
           /\ Arm(q).running = q.running /\ Arm(q).visible = q.visible
           /\ Arm(q).snapshot = q.snapshot
           /\ q.running /\ q.visible /\ q.snapshot.version > 0 /\ q.snapshot.moving => Arm(q).boundary
BY DEF Arm, NextFetch, Pages, Snapshots

LEMMA DeferSets ==
    ASSUME NEW q \in Pages, NEW force \in BOOLEAN
    PROVE  /\ Defer(q, force) \in Pages
           /\ Defer(q, force).running = q.running /\ Defer(q, force).visible = q.visible
           /\ Defer(q, force).snapshot = q.snapshot /\ Defer(q, force).boundary = q.boundary
           /\ q.running => Defer(q, force).deferred # NoWait
           /\ q.running /\ force => Defer(q, force).deferred = "forced"
           /\ q.deferred = "forced" => Defer(q, force).deferred = "forced"
           /\ q.deferred # NoWait => Defer(q, force).deferred # NoWait
BY DEF Defer, NoWait, Pages

LEMMA HeardSets ==
    ASSUME NEW q \in Pages
    PROVE  /\ Heard(q) \in Pages
           /\ Heard(q).running = q.running /\ Heard(q).visible = q.visible
           /\ Heard(q).snapshot = q.snapshot
BY DEF Heard, NoWait, Pages

\* Whatever becomes of an answer, it leaves a timer if it is adopted or a GET's.
LEMMA AdoptedSets ==
    ASSUME NEW q \in Pages, NEW body \in Snapshots, body.version > 0, NEW cause \in {"get", "post"}
    PROVE  /\ Adopted(q, body, cause) \in Pages
           /\ LET p == Adopted(q, body, cause)
              IN  /\ p.running = q.running /\ p.visible = q.visible
                  /\ \/ /\ p.snapshot.version > 0
                        /\ p.running /\ p.visible /\ p.snapshot.moving => p.boundary
                     \/ cause = "post" /\ p.snapshot = q.snapshot
<1>1. CASE Adoptable(q.snapshot, body)
  <2> DEFINE r == [Heard(q) EXCEPT !.snapshot = body]
  <2>1. /\ r \in Pages /\ r.snapshot = body
        /\ r.running = q.running /\ r.visible = q.visible
    BY HeardSets DEF Pages
  <2>2. Adopted(q, body, cause) = Arm(r)
    BY <1>1 DEF Adopted
  <2> HIDE DEF r
  <2> QED
    BY <2>1, <2>2, ArmSets
<1>2. CASE ~Adoptable(q.snapshot, body) /\ cause = "get"
  <2>1. Adopted(q, body, cause) = Arm(Heard(q))
    BY <1>2 DEF Adopted
  <2>2. q.snapshot.version > 0
    BY <1>2 DEF Adoptable, Pages, Snapshots
  <2> QED
    BY <2>1, <2>2, HeardSets, ArmSets
<1>3. CASE ~Adoptable(q.snapshot, body) /\ cause = "post"
  <2>1. Adopted(q, body, cause) = Heard(q)
    BY <1>3 DEF Adopted
  <2> QED
    BY <1>3, <2>1, HeardSets
<1> QED
  BY <1>1, <1>2, <1>3

\* A GET that is wanted is sent, under way, or put off to a pause's end; what a snapshot
\* is too young for leaves the timers alone.
LEMMA WantGetSets ==
    ASSUME NEW q \in Pages, NEW force \in BOOLEAN, NEW fresh \in BOOLEAN, get \in Flights,
           WantGet(q, force, fresh)
    PROVE  /\ page' \in Pages
           /\ get' = get \/ get' = Sent
           /\ page'.running = q.running /\ page'.visible = q.visible
           /\ page'.snapshot = q.snapshot /\ page'.boundary = q.boundary
           /\ get'.phase = "no" =>
                 /\ get.phase = "no"
                 /\ q.deferred # NoWait => page'.deferred # NoWait
                 /\ q.deferred = "forced" => page'.deferred = "forced"
                 /\ q.running /\ (force \/ q.snapshot.version = 0) => Waiting(page')
<1>1. CASE Asks(q, force, fresh)
  <2>1. page' = [q EXCEPT !.deferred = NoWait] /\ get' = Sent
    BY <1>1 DEF WantGet
  <2> QED
    BY <2>1 DEF Sent, Pages, NoWait
<1>2. CASE ~Asks(q, force, fresh) /\ q.paused /\ get.phase = "no"
  <2>1. page' = Defer(q, force) /\ get' = get
    BY <1>2 DEF WantGet
  <2>2. page' \in Pages
    BY <2>1, DeferSets
  <2>3. q.running /\ (force \/ q.snapshot.version = 0) => Waiting(page')
    BY <2>1, DeferSets DEF Waiting
  <2> QED
    BY <1>2, <2>1, <2>2, <2>3, DeferSets
<1>3. CASE ~Asks(q, force, fresh) /\ ~(q.paused /\ get.phase = "no")
  <2>1. page' = q /\ get' = get
    BY <1>3 DEF WantGet
  <2>2. get.phase = "no" => ~(q.running /\ (force \/ q.snapshot.version = 0))
    BY <1>3 DEF Asks
  <2> QED
    BY <2>1, <2>2
<1> QED
  BY <1>1, <1>2, <1>3

\* What a step has to show: a page that falls silent was silent, or its step is an excuse.
LEMMA SilencedKeeps ==
    ASSUME PollsOn, NEW cause, Silenced(cause),
           Live' /\ ~Asking' => Live /\ (~Asking \/ cause \in Excused)
    PROVE  PollsOn'
BY DEF PollsOn, Silenced, Asking, Excused

\* A step that wants a GET: forced, sent, or with every timer that would have asked.
LEMMA WantKeeps ==
    ASSUME PollingInv, NEW q \in Pages, NEW force \in BOOLEAN, NEW fresh \in BOOLEAN,
           NEW cause, WantGet(q, force, fresh), Silenced(cause),
           world' = world, post' \in {post, Idle}, q.snapshot = page.snapshot,
           \/ force
           \/ get'.phase # "no"
           \/ /\ q.running = page.running /\ q.visible = page.visible
              /\ page.snapshot.version > 0 /\ Waiting(page) => Waiting(q)
    PROVE  PollingInv'
<1>1. /\ page' \in Pages /\ get' \in {get, Sent}
      /\ page'.running = q.running /\ page'.visible = q.visible
      /\ page'.snapshot = q.snapshot /\ page'.boundary = q.boundary
      /\ get'.phase = "no" =>
            /\ get.phase = "no"
            /\ q.deferred # NoWait => page'.deferred # NoWait
            /\ q.deferred = "forced" => page'.deferred = "forced"
            /\ q.running /\ (force \/ q.snapshot.version = 0) => Waiting(page')
  BY WantGetSets DEF PollingInv, PollingTypeOK
<1>2. PollingTypeOK' /\ ServedIsReal'
  <2>1. /\ Sent \in Flights /\ Sent.phase = "sent"
        /\ Idle \in Flights /\ Idle.phase = "no"
    BY DEF Sent, Idle, NoSnapshot, Flights, Snapshots
  <2>2. PollingTypeOK'
    BY <1>1, <2>1 DEF PollingInv, PollingTypeOK
  <2>3. get'.phase = "served" => get' = get
    BY <1>1, <2>1
  <2>4. post'.phase = "served" => post' = post
    BY <2>1
  <2>5. ServedIsReal'
    BY <2>3, <2>4 DEF PollingInv, ServedIsReal
  <2> QED
    BY <2>2, <2>5
<1>3. ASSUME Live', ~Asking' PROVE Live /\ ~Asking
  <2>1. get'.phase = "no" /\ get.phase = "no" /\ ~Waiting(page') /\ page'.running /\ page'.visible
    BY <1>1, <1>3 DEF Live, Asking
  <2>2. ~force /\ q.snapshot.version # 0
    BY <1>1, <2>1
  <2>3. page.running /\ page.visible /\ page.snapshot.version > 0 /\ (Waiting(page) => Waiting(q))
    <3>1. page.snapshot.version > 0
      BY <2>2 DEF PollingInv, PollingTypeOK, Pages, Snapshots
    <3>2. q.running = page.running /\ q.visible = page.visible /\ (Waiting(page) => Waiting(q))
      BY <2>1, <2>2, <3>1
    <3> QED
      BY <1>1, <2>1, <3>1, <3>2
  <2>4. ~Waiting(q)
    BY <1>1, <2>1, <2>2 DEF Waiting
  <2>5. Live
    BY <1>1, <1>3, <2>3 DEF Live
  <2> QED
    BY <2>1, <2>3, <2>4, <2>5 DEF Asking
<1> QED
  BY <1>2, <1>3, SilencedKeeps DEF PollingInv

LEMMA TriggersKeep ==
    ASSUME PollingInv, NEW fresh \in BOOLEAN,
           \/ BoundaryFires \/ DeferredFires(fresh) \/ Show(fresh) \/ Focus(fresh)
           \/ Online(fresh) \/ Start \/ PostRefused
    PROVE  PollingInv'
<1>0. page \in Pages /\ get \in Flights
  BY DEF PollingInv, PollingTypeOK
<1>1. CASE BoundaryFires
  <2> DEFINE q == [page EXCEPT !.boundary = FALSE]
  <2>1. q \in Pages /\ q.snapshot = page.snapshot
    BY <1>0 DEF Pages
  <2>2. WantGet(q, TRUE, FALSE) /\ UNCHANGED <<world, post>> /\ Silenced("stopped")
    BY <1>1 DEF BoundaryFires
  <2> HIDE DEF q
  <2> QED
    BY <2>1, <2>2, WantKeeps
<1>2. CASE DeferredFires(fresh)
  <2> DEFINE q == [page EXCEPT !.deferred = NoWait]
             force == page.deferred = "forced"
  <2>1. /\ q \in Pages /\ q.snapshot = page.snapshot /\ force \in BOOLEAN
        /\ q.running = page.running /\ q.visible = page.visible
        /\ ~force /\ page.snapshot.version > 0 /\ Waiting(page) => Waiting(q)
    BY <1>0 DEF Pages, Snapshots, NoWait, Waiting
  <2>2. WantGet(q, force, fresh) /\ UNCHANGED <<world, post>> /\ Silenced("stopped")
    BY <1>2 DEF DeferredFires
  <2> HIDE DEF q, force
  <2> QED
    BY <2>1, <2>2, WantKeeps
<1>3. CASE Show(fresh)
  <2> DEFINE q == [page EXCEPT !.visible = TRUE]
  <2>1. q \in Pages /\ q.snapshot = page.snapshot /\ q.visible
    BY <1>0 DEF Pages
  <2>2. CASE (Asks(q, FALSE, fresh) \/ get.phase # "no") /\ WantGet(q, FALSE, fresh)
    <3>1. get'.phase # "no"
      BY <2>2 DEF WantGet, Sent
    <3>2. UNCHANGED <<world, post>> /\ Silenced("shown")
      BY <1>3 DEF Show
    <3> HIDE DEF q
    <3> QED
      BY <2>1, <2>2, <3>1, <3>2, WantKeeps
  <2>3. CASE /\ ~Asks(q, FALSE, fresh) /\ get.phase = "no"
             /\ page' = Arm(IF page.paused THEN Defer(q, FALSE) ELSE q) /\ UNCHANGED get
    <3> DEFINE r == IF page.paused THEN Defer(q, FALSE) ELSE q
    <3>0. q.paused = page.paused
      BY <1>0 DEF Pages
    <3> HIDE DEF q
    <3>1. /\ r \in Pages /\ r.snapshot = page.snapshot /\ r.visible
          /\ r.running /\ q.paused => r.deferred # NoWait
          /\ r.running = q.running
      BY <2>1, <3>0, DeferSets
    <3>2. q.running => q.paused \/ page.snapshot.version > 0
      BY <2>1, <2>3 DEF Asks, Pages, Snapshots
    <3> HIDE DEF r
    <3>3. page' = Arm(r)
      BY <2>3 DEF r
    <3>4. /\ page' \in Pages /\ page'.running = r.running /\ page'.snapshot = page.snapshot
          /\ r.running /\ page.snapshot.version > 0 /\ page.snapshot.moving => page'.boundary
          /\ page'.deferred = r.deferred
      BY <3>1, <3>3, ArmSets DEF Arm, Pages
    <3>5. ~(Live' /\ ~Asking')
      <4> SUFFICES ASSUME Live' PROVE Waiting(page')
        BY DEF Asking
      <4>1. CASE page.snapshot.version > 0
        BY <3>4, <4>1 DEF Live, Waiting, Pages, Snapshots
      <4>2. CASE ~(page.snapshot.version > 0)
        <5>1. page.snapshot.version = 0
          BY <1>0, <4>2 DEF Pages, Snapshots
        <5> QED
          BY <3>1, <3>2, <3>4, <4>2, <5>1 DEF Live, Waiting
      <4> QED
        BY <4>1, <4>2
    <3>6. Silenced("shown") /\ UNCHANGED <<world, post>>
      BY <1>3 DEF Show
    <3>7. PollsOn'
      BY <3>5, <3>6, SilencedKeeps DEF PollingInv
    <3> QED
      BY <2>3, <3>4, <3>6, <3>7 DEF PollingInv, PollingTypeOK, ServedIsReal
  <2> QED
    BY <1>3, <2>2, <2>3 DEF Show
<1>4. CASE Focus(fresh)
  BY <1>0, <1>4, WantKeeps DEF Focus
<1>5. CASE Online(fresh)
  <2> DEFINE free == page.deferred # NoWait /\ ~page.paused
             q == IF free THEN [page EXCEPT !.deferred = NoWait] ELSE page
             force == free /\ page.deferred = "forced"
  <2>1. /\ q \in Pages /\ q.snapshot = page.snapshot /\ force \in BOOLEAN
        /\ q.running = page.running /\ q.visible = page.visible
        /\ ~force /\ page.snapshot.version > 0 /\ Waiting(page) => Waiting(q)
    BY <1>0 DEF Pages, Snapshots, NoWait, Waiting
  <2>2. WantGet(q, force, fresh) /\ UNCHANGED <<world, post>> /\ Silenced("online")
    BY <1>5 DEF Online
  <2> HIDE DEF q, force
  <2> QED
    BY <2>1, <2>2, WantKeeps
<1>6. CASE Start
  <2> DEFINE q == [page EXCEPT !.running = TRUE]
  <2>1. q \in Pages /\ q.snapshot = page.snapshot
    BY <1>0 DEF Pages
  <2>2. WantGet(q, TRUE, FALSE) /\ UNCHANGED <<world, post>> /\ Silenced("stopped")
    BY <1>6 DEF Start
  <2> HIDE DEF q
  <2> QED
    BY <2>1, <2>2, WantKeeps
<1>7. CASE PostRefused
  BY <1>0, <1>7, WantKeeps DEF PostRefused
<1> QED
  BY <1>1, <1>2, <1>3, <1>4, <1>5, <1>6, <1>7

\* The server moves on, and a batch or a pause comes and goes: nobody stops asking.
LEMMA QuietKeep ==
    ASSUME PollingInv,
           \/ \E moving \in BOOLEAN : GetServed(moving) \/ PostServed(moving)
           \/ PostSent \/ PostPaused \/ PauseEnds
    PROVE  PollingInv'
<1>0. /\ page \in Pages /\ get \in Flights /\ post \in Flights
      /\ world \in [version : Nat \ {0}, at : Nat]
      /\ Sent \in Flights /\ Sent.phase = "sent"
  BY DEF PollingInv, PollingTypeOK, Sent, NoSnapshot, Flights, Snapshots
<1>1. CASE \E moving \in BOOLEAN : GetServed(moving)
  <2>1. PICK moving \in BOOLEAN : GetServed(moving)
    BY <1>1
  <2>2. Answer(moving) \in Snapshots /\ Answer(moving).version > 0
    BY <1>0 DEF Answer, Snapshots
  <2>3. get' = [phase |-> "served", body |-> Answer(moving)] /\ get.phase = "sent"
    BY <2>1 DEF GetServed
  <2>4. get' \in Flights /\ get'.phase = "served" /\ get'.body.version > 0
    BY <2>2, <2>3 DEF Flights
  <2>5. world' \in [version : Nat \ {0}, at : Nat] /\ UNCHANGED <<page, post, silence>>
    BY <1>0, <2>1 DEF GetServed
  <2>6. PollsOn'
    BY <2>3, <2>4, <2>5 DEF PollingInv, PollsOn, Live, Asking, Waiting
  <2> QED
    BY <2>4, <2>5, <2>6 DEF PollingInv, PollingTypeOK, ServedIsReal
<1>2. CASE \E moving \in BOOLEAN : PostServed(moving)
  <2>1. PICK moving \in BOOLEAN : PostServed(moving)
    BY <1>2
  <2> DEFINE body == [Answer(moving) EXCEPT !.version = @ + 1]
  <2>2. body \in Snapshots /\ body.version > 0
    BY <1>0 DEF Answer, Snapshots
  <2>3. post' = [phase |-> "served", body |-> body]
    BY <2>1 DEF PostServed
  <2> HIDE DEF body
  <2>4. post' \in Flights /\ post'.body.version > 0
    BY <2>2, <2>3 DEF Flights
  <2>5. world' \in [version : Nat \ {0}, at : Nat] /\ UNCHANGED <<page, get, silence>>
    BY <1>0, <2>1 DEF PostServed
  <2>6. PollsOn'
    BY <2>5 DEF PollingInv, PollsOn, Live, Asking, Waiting
  <2> QED
    BY <2>4, <2>5, <2>6 DEF PollingInv, PollingTypeOK, ServedIsReal
<1>3. CASE PostSent
  <2>1. post' = Sent /\ UNCHANGED <<world, page, get, silence>>
    BY <1>3 DEF PostSent
  <2>2. PollsOn'
    BY <2>1 DEF PollingInv, PollsOn, Live, Asking, Waiting
  <2> QED
    BY <1>0, <2>1, <2>2 DEF PollingInv, PollingTypeOK, ServedIsReal
<1>4. CASE PostPaused \/ PauseEnds
  <2>1. /\ \/ page' = [page EXCEPT !.paused = TRUE]
           \/ page' = [page EXCEPT !.paused = FALSE]
        /\ UNCHANGED <<world, get, post, silence>>
    BY <1>4 DEF PostPaused, PauseEnds
  <2>2. /\ page' \in Pages /\ page'.running = page.running /\ page'.visible = page.visible
        /\ page'.boundary = page.boundary /\ page'.deferred = page.deferred
        /\ page'.snapshot = page.snapshot
    BY <1>0, <2>1 DEF Pages
  <2>3. PollsOn'
    BY <2>1, <2>2 DEF PollingInv, PollsOn, Live, Asking, Waiting
  <2> QED
    BY <2>1, <2>2, <2>3 DEF PollingInv, PollingTypeOK, ServedIsReal
<1> QED
  BY <1>1, <1>2, <1>3, <1>4

\* Answers, and what ends the view: the page is out of sight, has a timer or an excuse.
LEMMA AnswersKeep ==
    ASSUME PollingInv,
           \/ GetAdopted \/ GetFailed \/ GetPaused \/ GetClientBug
           \/ PostAdopted \/ PostAdoptFails \/ Hide \/ Stop
    PROVE  PollingInv'
<1>0. /\ page \in Pages /\ get \in Flights /\ post \in Flights
      /\ Idle \in Flights /\ Idle.phase = "no"
  BY DEF PollingInv, PollingTypeOK, Idle, NoSnapshot, Flights, Snapshots
<1>1. ASSUME page' \in Pages, world' = world, get' \in {get, Idle}, post' \in {post, Idle}, PollsOn'
      PROVE  PollingInv'
  <2>1. PollingTypeOK'
    BY <1>0, <1>1 DEF PollingInv, PollingTypeOK
  <2>2. ServedIsReal'
    BY <1>0, <1>1 DEF PollingInv, ServedIsReal
  <2> QED
    BY <1>1, <2>1, <2>2 DEF PollingInv
<1>2. CASE GetAdopted
  <2> DEFINE q == Adopted(page, get.body, "get")
  <2>1. /\ q \in Pages /\ q.running = page.running
        /\ q.snapshot.version > 0
        /\ q.running /\ q.visible /\ q.snapshot.moving => q.boundary
    BY <1>0, <1>2, AdoptedSets DEF GetAdopted, PollingInv, ServedIsReal, Flights
  <2>2. /\ page' = IF page.running THEN q ELSE page
        /\ get' = Idle /\ UNCHANGED <<world, post>> /\ Silenced("nothing to wait for")
    BY <1>2 DEF GetAdopted, GetAnswered
  <2> HIDE DEF q
  <2>3. page' \in Pages /\ (Live' => page' = q)
    BY <1>0, <2>1, <2>2 DEF Live
  <2>4. Live' => Asking'
    BY <2>1, <2>3 DEF Live, Asking, Waiting, Pages, Snapshots
  <2>5. PollsOn'
    BY <2>4 DEF PollsOn
  <2> QED
    BY <1>1, <2>2, <2>3, <2>5
<1>3. CASE GetFailed \/ PostAdoptFails
  <2> DEFINE q == Defer(page, TRUE)
  <2>1. q \in Pages /\ (page.running => q.deferred = "forced") /\ q.running = page.running
    BY <1>0, DeferSets
  <2>2. /\ page' = q \/ (page' = page /\ ~page.running)
        /\ get' \in {get, Idle} /\ post' \in {post, Idle} /\ world' = world
    BY <1>3 DEF GetFailed, GetAnswered, PostAdoptFails
  <2> HIDE DEF q
  <2>3. PollsOn'
    BY <2>1, <2>2 DEF PollsOn, Live, Asking, Waiting
  <2> QED
    BY <1>0, <1>1, <2>1, <2>2, <2>3
<1>4. CASE GetPaused
  <2> DEFINE p == [page EXCEPT !.paused = TRUE]
             q == Defer(p, TRUE)
  <2>0. p \in Pages /\ p.running = page.running
    BY <1>0 DEF Pages
  <2> HIDE DEF p
  <2>1. q \in Pages /\ (page.running => q.deferred = "forced") /\ q.running = page.running
    BY <2>0, DeferSets
  <2>2. /\ page' = q \/ (page' = page /\ ~page.running)
        /\ get' = Idle /\ UNCHANGED <<world, post>>
    BY <1>4 DEF GetPaused, GetAnswered, p
  <2> HIDE DEF q
  <2>3. PollsOn'
    BY <2>1, <2>2 DEF PollsOn, Live, Asking, Waiting
  <2> QED
    BY <1>0, <1>1, <2>1, <2>2, <2>3
<1>5. CASE GetClientBug
  <2>1. /\ page' = [page EXCEPT !.boundary = FALSE] \/ page' = page
        /\ get.phase = "sent" /\ get' = Idle /\ UNCHANGED <<world, post>> /\ Silenced("client bug")
    BY <1>5 DEF GetClientBug, GetAnswered
  <2>2. /\ page' \in Pages /\ page'.running = page.running /\ page'.visible = page.visible
        /\ page'.snapshot = page.snapshot
    BY <1>0, <2>1 DEF Pages
  <2>3. Live' => Live
    BY <2>2 DEF Live
  <2>4. PollsOn'
    BY <2>1, <2>3, SilencedKeeps DEF PollingInv, Excused
  <2> QED
    BY <1>1, <2>1, <2>2, <2>4
<1>6. CASE PostAdopted
  <2> DEFINE q == Adopted(page, post.body, "post")
  <2>1. /\ q \in Pages /\ q.running = page.running /\ q.visible = page.visible
        /\ \/ /\ q.snapshot.version > 0
              /\ q.running /\ q.visible /\ q.snapshot.moving => q.boundary
           \/ q.snapshot = page.snapshot
    BY <1>0, <1>6, AdoptedSets DEF PostAdopted, PollingInv, ServedIsReal, Flights
  <2>2. page' = q /\ post' = Idle /\ UNCHANGED <<world, get>> /\ Silenced("stale answer")
    BY <1>6 DEF PostAdopted
  <2> HIDE DEF q
  <2>3. Live' /\ ~Asking' => Live
    <3>1. CASE q.snapshot = page.snapshot
      BY <2>1, <2>2, <3>1 DEF Live
    <3>2. CASE /\ q.snapshot.version > 0
               /\ q.running /\ q.visible /\ q.snapshot.moving => q.boundary
      <4>1. q.snapshot.version # 0
        BY <2>1, <3>2 DEF Pages, Snapshots
      <4> QED
        BY <2>2, <3>2, <4>1 DEF Live, Asking, Waiting
    <3> QED
      BY <2>1, <3>1, <3>2
  <2>4. PollsOn'
    BY <2>2, <2>3, SilencedKeeps DEF PollingInv, Excused
  <2> QED
    BY <1>1, <2>1, <2>2, <2>4
<1>7. CASE Hide \/ Stop
  <2>1. /\ \/ page' = [page EXCEPT !.visible = FALSE, !.boundary = FALSE]
           \/ page' = [page EXCEPT !.running = FALSE, !.boundary = FALSE, !.deferred = NoWait]
        /\ UNCHANGED <<world, get, post>>
    BY <1>7 DEF Hide, Stop
  <2>2. page' \in Pages /\ ~(page'.running /\ page'.visible)
    BY <1>0, <2>1 DEF Pages, NoWait
  <2>3. PollsOn'
    BY <2>2 DEF PollsOn, Live
  <2> QED
    BY <1>1, <2>1, <2>2, <2>3
<1> QED
  BY <1>2, <1>3, <1>4, <1>5, <1>6, <1>7

LEMMA InitPolls == ASSUME NEW runs \in BOOLEAN, PollingInit(runs) PROVE PollingInv
<1>1. PollingTypeOK
  BY DEF PollingInit, PollingTypeOK, Sent, Idle, NoSnapshot, NoWait, Pages, Flights, Snapshots
<1>2. ServedIsReal
  BY DEF PollingInit, ServedIsReal, Sent, Idle
<1>3. PollsOn
  BY DEF PollingInit, PollsOn, Live, Asking, Sent, Idle
<1> QED
  BY <1>1, <1>2, <1>3 DEF PollingInv

\* store.ts, refetch.ts: however answers, failures, pauses, timers, hiding and restarts fall, a page
\* in sight of a world that moves, or of none yet, has a timer or a GET, but for a client bug and
\* a stale answer to a POST.
THEOREM PageAlwaysPolls == PollingSpec => []PollsOn
<1>1. (\E runs \in BOOLEAN : PollingInit(runs)) => PollingInv
  BY InitPolls
<1>2. PollingInv /\ [PollingNext]_polling => PollingInv'
  <2>1. ASSUME PollingInv, PollingNext PROVE PollingInv'
    BY <2>1, TriggersKeep, QuietKeep, AnswersKeep DEF PollingNext
  <2>2. ASSUME PollingInv, UNCHANGED polling PROVE PollingInv'
    BY <2>2 DEF PollingInv, PollingTypeOK, ServedIsReal, PollsOn, Live, Asking, Waiting, polling
  <2> QED
    BY <2>1, <2>2
<1>3. PollingInv => PollsOn
  BY DEF PollingInv
<1> QED
  BY <1>1, <1>2, <1>3, PTL DEF PollingSpec

----------------------------------------------------------------------------
\* The crank.

TapsSpec == TapsInit /\ [][TapsNext]_crank

TapsTypeOK ==
    /\ now \in Nat /\ running \in BOOLEAN
    /\ hold \in [on : BOOLEAN, pressAt : Nat, repeat : Nat \cup {Unset}]
    /\ taps \in [pending : Nat, origin : Nat, lastTapAt : Nat \cup {Unset},
                 lastFlushAt : Nat \cup {Forever}, due : Nat \cup {Unset}]
    /\ batch \in [count : Nat, elapsed : Nat, by : {"nobody", "timer", "keepalive", "sign-in"},
                  gap : Int]
    /\ ledger \in [made : Nat, sent : Nat, idleSince : Nat]

\* What is in the past.
Behind ==
    /\ hold.pressAt <= now /\ taps.origin <= now /\ taps.lastTapAt <= now
    /\ taps.lastFlushAt <= now /\ ledger.idleSince <= now

\* A hold has its repeat, after the last tap, and its flush, within a period; a page that
\* stopped has neither.
TimersFollow ==
    /\ hold.repeat # Unset => hold.on /\ hold.repeat > taps.lastTapAt
    /\ hold.on => running /\ taps.due # Unset /\ taps.due <= now + Every
    /\ ~running => taps.due = Unset

\* No two taps in one instant, so those that wait number at most the instants since the origin.
TapsSpread == taps.pending > 0 => taps.pending <= taps.lastTapAt - taps.origin + 1

\* Whatever sets the flush, it is a period after the one before.
DueLater == taps.due # Unset => taps.due >= taps.lastFlushAt + Every

TapsInv ==
    /\ TapsTypeOK /\ Behind /\ TimersFollow /\ TapsSpread /\ DueLater
    /\ EveryTapCounts /\ FlushOnItsWay /\ NothingDiscarded /\ FlushesApart

Cranks == [pending : Nat, origin : Nat, lastTapAt : Nat \cup {Unset},
           lastFlushAt : Nat \cup {Forever}, due : Nat \cup {Unset}]

\* A flush is set no later than asked, and never moved back.
LEMMA ArmFlushSets ==
    ASSUME NEW t \in Cranks, NEW due \in Nat
    PROVE  LET a == ArmFlush(t, due) IN
           /\ a \in Cranks
           /\ a.pending = t.pending /\ a.origin = t.origin /\ a.lastTapAt = t.lastTapAt
           /\ a.lastFlushAt = t.lastFlushAt
           /\ a.due # Unset /\ a.due <= due /\ a.due \in {t.due, due}
BY DEF ArmFlush, Cranks, Unset

\* A tap an instant is within two an instant.
LEMMA Grants ==
    ASSUME NEW c \in Nat, NEW e \in Nat, c <= e + 1
    PROVE  c <= PerUnit * e + (IF e = 0 THEN 1 ELSE 0)
<1>1. CASE e = 0
  <2>1. PerUnit * e = 0  BY <1>1, Pace
  <2> QED BY <1>1, <2>1
<1>2. CASE e # 0
  <2>1. PerUnit * e >= 2 * e  BY Pace, SMTT(20)
  <2>2. PerUnit * e \in Nat  BY Pace
  <2> QED BY <1>2, <2>1, <2>2
<1> QED BY <1>1, <1>2

\* A page that has just been opened.
LEMMA TapsInitHolds == TapsInit => TapsInv
BY Pace DEF TapsInit, TapsInv, TapsTypeOK, Behind, TimersFollow, TapsSpread, DueLater, NoBatch,
   Forever, Unset, EveryTapCounts, FlushOnItsWay, NothingDiscarded, FlushesApart

Holds == [on : BOOLEAN, pressAt : Nat, repeat : Nat \cup {Unset}]

\* What the accumulator holds after a tap.
LEMMA TappedSets ==
    ASSUME TapsTypeOK
    PROVE  /\ Tapped(taps) \in Cranks
           /\ Tapped(taps).pending = taps.pending + 1 /\ Tapped(taps).lastTapAt = now
           /\ Tapped(taps).origin = taps.origin /\ Tapped(taps).lastFlushAt = taps.lastFlushAt
           /\ Tapped(taps).due = taps.due
<1>1. taps \in Cranks /\ taps.pending + 1 \in Nat /\ now \in Nat
  BY DEF TapsTypeOK, Cranks
<1>2. PICK n \in Nat : n = taps.pending + 1
  BY <1>1
<1>3. Tapped(taps) = [taps EXCEPT !.pending = n, !.lastTapAt = now]
  BY <1>2 DEF Tapped
<1> QED BY <1>1, <1>2, <1>3 DEF Cranks

\* What a take leaves: nothing pending, and under a hold a flush a period away.
LEMMA TakenSets ==
    ASSUME TapsTypeOK, NEW t \in Cranks, t.lastFlushAt <= now, NEW h \in Holds, h.pressAt <= now
    PROVE  /\ Taken(t, h) \in Cranks
           /\ Taken(t, h).pending = 0 /\ Taken(t, h).lastTapAt = t.lastTapAt
           /\ Taken(t, h).origin = (IF t.pending = 0 THEN t.origin ELSE now)
           /\ Taken(t, h).lastFlushAt = (IF t.pending = 0 THEN t.lastFlushAt ELSE now)
           /\ Taken(t, h).due = (IF h.on THEN now + Every ELSE Unset)
<1>1. PICK f \in Cranks :
        /\ f.pending = 0 /\ f.lastTapAt = t.lastTapAt
        /\ f.origin = (IF t.pending = 0 THEN t.origin ELSE now)
        /\ f.lastFlushAt = (IF t.pending = 0 THEN t.lastFlushAt ELSE now)
        /\ f.due = Unset
        /\ Taken(t, h) =
             IF h.on THEN ArmFlush(f, Largest(Largest(f.lastFlushAt, h.pressAt), now) + Every)
                         ELSE f
  <2> DEFINE cleared == [t EXCEPT !.due = Unset]
             flushed == IF t.pending = 0 THEN cleared
                        ELSE [cleared EXCEPT !.pending = 0, !.origin = now, !.lastFlushAt = now]
  <2>1. /\ cleared \in Cranks /\ cleared.pending = t.pending /\ cleared.lastTapAt = t.lastTapAt
        /\ cleared.origin = t.origin /\ cleared.lastFlushAt = t.lastFlushAt /\ cleared.due = Unset
    BY DEF Cranks, Unset
  <2>2. flushed \in Cranks
    BY <2>1 DEF Cranks, TapsTypeOK
  <2>3. /\ flushed.pending = 0 /\ flushed.lastTapAt = t.lastTapAt
        /\ flushed.origin = (IF t.pending = 0 THEN t.origin ELSE now)
        /\ flushed.lastFlushAt = (IF t.pending = 0 THEN t.lastFlushAt ELSE now)
        /\ flushed.due = Unset
    BY <2>1 DEF Cranks
  <2>4. Taken(t, h) =
          IF h.on
          THEN ArmFlush(flushed, Largest(Largest(flushed.lastFlushAt, h.pressAt), now) + Every)
          ELSE flushed
    BY DEF Taken
  <2> HIDE DEF flushed
  <2> QED BY <2>2, <2>3, <2>4
<1>2. f.lastFlushAt <= now /\ f.lastFlushAt \in Int /\ h.pressAt \in Nat /\ now \in Nat
  BY <1>1, Pace DEF Cranks, Holds, TapsTypeOK, Forever
<1>3. Largest(Largest(f.lastFlushAt, h.pressAt), now) + Every = now + Every
  BY <1>2 DEF Largest
<1>4. CASE h.on
  <2>1. PICK due \in Nat : due = now + Every  BY <1>2, Pace
  <2>2. ArmFlush(f, due) = [f EXCEPT !.due = due]  BY <1>1 DEF ArmFlush
  <2>3. Taken(t, h) = [f EXCEPT !.due = due]  BY <1>1, <1>3, <1>4, <2>1, <2>2
  <2> QED BY <1>1, <1>4, <2>1, <2>3 DEF Cranks
<1>5. CASE ~h.on
  BY <1>1, <1>5
<1> QED BY <1>4, <1>5

\* What a release leaves: the flush of what is pending, not later than it was.
LEMMA ReleasedSets ==
    ASSUME TapsTypeOK, DueLater
    PROVE  /\ Released(taps) \in Cranks
           /\ Released(taps).pending = taps.pending /\ Released(taps).lastTapAt = taps.lastTapAt
           /\ Released(taps).origin = taps.origin /\ Released(taps).lastFlushAt = taps.lastFlushAt
           /\ Released(taps).due # Unset => Released(taps).due >= taps.lastFlushAt + Every
           /\ taps.pending > 0 =>
                /\ Released(taps).due # Unset
                /\ taps.due # Unset => Released(taps).due <= taps.due
           /\ taps.pending = 0 => Released(taps).due = Unset
<1>1. CASE taps.pending = 0
  BY <1>1 DEF Released, TapsTypeOK, Cranks, Unset
<1>2. CASE taps.pending # 0
  <2>1. /\ taps \in Cranks /\ now \in Nat /\ AfterRelease \in Nat /\ Every \in Nat
        /\ taps.lastFlushAt \in Nat \cup {Forever} /\ taps.due \in Nat \cup {Unset}
        /\ taps.pending \in Nat
    BY Pace DEF TapsTypeOK, Cranks
  <2>2. PICK due \in Nat : due = ReleaseDue(taps) /\ due >= taps.lastFlushAt + Every
    BY <2>1 DEF ReleaseDue, Largest, Forever
  <2>3. Released(taps) = ArmFlush(taps, due)
    BY <1>2, <2>2 DEF Released
  <2>4. ArmFlush(taps, due).due >= taps.lastFlushAt + Every
    <3>1. ArmFlush(taps, due).due \in {taps.due, due} /\ ArmFlush(taps, due).due # Unset
      BY <2>1, ArmFlushSets
    <3> QED BY <2>2, <3>1 DEF DueLater
  <2>5. taps.due # Unset => ArmFlush(taps, due).due <= taps.due
    <3>1. SUFFICES ASSUME taps.due # Unset PROVE ArmFlush(taps, due).due <= taps.due
      OBVIOUS
    <3>2. taps.due \in Nat  BY <2>1, <3>1
    <3>3. CASE taps.due <= due  BY <3>1, <3>2, <3>3 DEF ArmFlush
    <3>4. CASE ~(taps.due <= due)
      <4>1. ArmFlush(taps, due).due = due  BY <2>1, <3>4 DEF ArmFlush, Cranks
      <4> QED BY <2>2, <3>2, <3>4, <4>1
    <3> QED BY <3>3, <3>4
  <2>6. PICK a : a = ArmFlush(taps, due)
    OBVIOUS
  <2>7. /\ a \in Cranks /\ a.pending = taps.pending /\ a.origin = taps.origin
        /\ a.lastTapAt = taps.lastTapAt /\ a.lastFlushAt = taps.lastFlushAt /\ a.due # Unset
    BY <2>1, <2>2, <2>6, ArmFlushSets
  <2> QED BY <1>2, <2>3, <2>4, <2>5, <2>6, <2>7
<1> QED BY <1>1, <1>2

\* Letting go ends the repeat.
LEMMA HoldSets == TapsTypeOK => hold \in Holds /\ LetGo \in Holds /\ LetGo.on = FALSE
                                /\ LetGo.repeat = Unset /\ LetGo.pressAt = hold.pressAt
BY DEF TapsTypeOK, Holds, LetGo, Unset

BatchOK ==
    /\ batch \in [count : Nat, elapsed : Nat, by : {"nobody", "timer", "keepalive", "sign-in"},
                  gap : Int]
    /\ NothingDiscarded

\* The history of a hand-over.
LEMMA LedgerHandsOver ==
    ASSUME TapsTypeOK, NEW by, HandOver(taps, by)
    PROVE  /\ ledger' \in [made : Nat, sent : Nat, idleSince : Nat]
           /\ ledger'.made = ledger.made /\ ledger'.sent = ledger.sent + taps.pending
           /\ ledger'.idleSince = (IF hold.on THEN now ELSE ledger.idleSince)
<1>1. PICK sent \in Nat : sent = ledger.sent + taps.pending
  BY DEF TapsTypeOK
<1>2. PICK idle \in Nat : idle = IF hold.on THEN now ELSE ledger.idleSince
  BY DEF TapsTypeOK
<1>3. ledger' = [ledger EXCEPT !.sent = sent, !.idleSince = idle]
  BY <1>1, <1>2 DEF HandOver
<1> QED BY <1>1, <1>2, <1>3 DEF TapsTypeOK

\* A batch of taps made in as many instants as it has is within the engine's rate.
LEMMA BatchHandsOver ==
    ASSUME TapsTypeOK, Behind, TapsSpread, NothingDiscarded,
           NEW by \in {"timer", "keepalive", "sign-in"}, HandOver(taps, by)
    PROVE  /\ BatchOK'
           /\ taps.pending > 0 => batch'.gap = now - taps.lastFlushAt /\ batch'.by = by
           /\ taps.pending = 0 => batch' = batch
<1>1. /\ now \in Nat /\ taps.pending \in Nat /\ taps.origin \in Nat
      /\ taps.lastTapAt \in Int /\ taps.lastFlushAt \in Int
  BY Pace DEF TapsTypeOK, Unset, Forever
<1>2. CASE taps.pending = 0
  BY <1>1, <1>2 DEF HandOver, BatchOK, NothingDiscarded, TapsTypeOK
<1>3. CASE taps.pending > 0
  <2>1. PICK e \in Nat, g \in Int : e = now - taps.origin /\ g = now - taps.lastFlushAt
    BY <1>1 DEF Behind
  <2>2. batch' = [count |-> taps.pending, elapsed |-> e, by |-> by, gap |-> g]
    BY <1>3, <2>1 DEF HandOver
  <2>3. taps.pending <= e + 1
    BY <1>1, <1>3, <2>1 DEF TapsSpread, Behind
  <2>4. NothingDiscarded'
    BY <1>1, <2>2, <2>3, Grants DEF NothingDiscarded
  <2> QED BY <1>1, <1>3, <2>1, <2>2, <2>4 DEF BatchOK
<1> QED BY <1>1, <1>2, <1>3

\* What is left to show of a step once its fields are known.
LEMMA FieldsKeepInv ==
    ASSUME TapsInv, TapsTypeOK',
           Behind', TimersFollow', TapsSpread', DueLater', EveryTapCounts', FlushOnItsWay',
           NothingDiscarded', FlushesApart'
    PROVE  TapsInv'
BY DEF TapsInv

\* Every handler, late timer, hiding, halt and restart keeps the invariant.
LEMMA TapsKeepInv == TapsInv /\ [TapsNext]_crank => TapsInv'
<1> SUFFICES ASSUME TapsInv, [TapsNext]_crank PROVE TapsInv'  OBVIOUS
<1>0. /\ now \in Nat /\ running \in BOOLEAN /\ hold \in Holds /\ taps \in Cranks
      /\ AfterRelease \in Nat /\ Every \in Nat /\ Unset = -1 /\ Forever = -Every - 1
      /\ hold.pressAt \in Nat /\ hold.repeat \in Nat \cup {Unset} /\ hold.on \in BOOLEAN
      /\ taps.pending \in Nat /\ taps.origin \in Nat /\ taps.lastTapAt \in Nat \cup {Unset}
      /\ taps.lastFlushAt \in Nat \cup {Forever} /\ taps.due \in Nat \cup {Unset}
      /\ ledger.made \in Nat /\ ledger.sent \in Nat /\ ledger.idleSince \in Nat
      /\ ledger \in [made : Nat, sent : Nat, idleSince : Nat]
      /\ TapsTypeOK
  BY Pace DEF TapsInv, TapsTypeOK, Holds, Cranks, Unset, Forever
<1>00. /\ Behind /\ TimersFollow /\ TapsSpread /\ DueLater
       /\ EveryTapCounts /\ FlushOnItsWay /\ NothingDiscarded /\ FlushesApart
  BY DEF TapsInv
<1> USE DEF Behind, TimersFollow, TapsSpread, DueLater, EveryTapCounts, FlushOnItsWay
<1>1. CASE UNCHANGED crank
  BY <1>1 DEF crank, TapsInv, TapsTypeOK, NothingDiscarded, FlushesApart
<1>2. CASE Press
  <2>1. PICK due \in Nat : due = Largest(taps.lastFlushAt, now) + Every /\ due = now + Every
    BY <1>0, <1>00 DEF Largest
  <2>2. PICK t \in Cranks :
           /\ t = Tapped(taps) /\ t.pending = taps.pending + 1 /\ t.lastTapAt = now
           /\ t.origin = taps.origin /\ t.lastFlushAt = taps.lastFlushAt /\ t.due = taps.due
    BY <1>0, TappedSets
  <2>3. taps' = ArmFlush(t, due)
    BY <1>2, <2>1, <2>2 DEF Press
  <2>4. /\ taps' \in Cranks
        /\ taps'.pending = taps.pending + 1 /\ taps'.lastTapAt = now
        /\ taps'.origin = taps.origin /\ taps'.lastFlushAt = taps.lastFlushAt
        /\ taps'.due # Unset /\ taps'.due <= due /\ taps'.due \in {taps.due, due}
    BY <2>2, <2>3, ArmFlushSets
  <2>5. /\ hold' \in Holds /\ hold'.on = TRUE /\ hold'.pressAt = now /\ hold'.repeat = now + 1
        /\ ledger' \in [made : Nat, sent : Nat, idleSince : Nat]
        /\ ledger'.made = ledger.made + 1 /\ ledger'.sent = ledger.sent
        /\ ledger'.idleSince = ledger.idleSince
        /\ now' = now /\ running' = running /\ batch' = batch /\ running /\ taps.lastTapAt < now
    BY <1>0, <1>2 DEF Press, Holds
  <2> HIDE DEF Holds, Cranks
  <2>6. TapsTypeOK'
    BY <1>0, <2>4, <2>5 DEF TapsTypeOK, Holds, Cranks
  <2>7. Behind'  BY <1>0, <1>00, <2>4, <2>5
  <2>8. TimersFollow'  BY <1>0, <1>00, <2>1, <2>4, <2>5
  <2>9. TapsSpread'  BY <1>0, <1>00, <2>4, <2>5
  <2>10. DueLater'  BY <1>0, <1>00, <2>1, <2>4, <2>5
  <2>11. EveryTapCounts'  BY <1>0, <1>00, <2>4, <2>5
  <2>12. FlushOnItsWay'  BY <1>0, <1>00, <2>1, <2>4, <2>5
  <2>13. NothingDiscarded' /\ FlushesApart'  BY <1>00, <2>5 DEF NothingDiscarded, FlushesApart
  <2> QED BY <2>6, <2>7, <2>8, <2>9, <2>10, <2>11, <2>12, <2>13, FieldsKeepInv
<1>3. CASE Release
  <2>1. /\ taps' = Released(taps) /\ hold' = LetGo /\ hold.on
        /\ ledger' \in [made : Nat, sent : Nat, idleSince : Nat]
        /\ ledger'.made = ledger.made /\ ledger'.sent = ledger.sent /\ ledger'.idleSince = now
        /\ now' = now /\ running' = running /\ batch' = batch
    BY <1>0, <1>3 DEF Release
  <2>2. /\ taps' \in Cranks
        /\ taps'.pending = taps.pending /\ taps'.lastTapAt = taps.lastTapAt
        /\ taps'.origin = taps.origin /\ taps'.lastFlushAt = taps.lastFlushAt
        /\ taps'.due # Unset => taps'.due >= taps.lastFlushAt + Every
        /\ taps.pending > 0 => taps'.due # Unset /\ (taps.due # Unset => taps'.due <= taps.due)
        /\ taps.pending = 0 => taps'.due = Unset
        /\ taps'.due \in Nat \cup {Unset}
    BY <1>0, <1>00, <2>1, ReleasedSets DEF Cranks
  <2>3. /\ hold' \in Holds /\ hold'.on = FALSE /\ hold'.pressAt = hold.pressAt
        /\ hold'.repeat = Unset
    BY <1>0, <2>1, HoldSets
  <2> HIDE DEF Holds, Cranks
  <2>4. TapsTypeOK'
    BY <1>0, <2>1, <2>2, <2>3 DEF TapsTypeOK, Holds, Cranks
  <2>5. Behind'  BY <1>0, <1>00, <2>1, <2>2, <2>3
  <2>6. TimersFollow'  BY <1>0, <1>00, <2>1, <2>2, <2>3
  <2>7. TapsSpread'  BY <1>0, <1>00, <2>1, <2>2, <2>3
  <2>8. DueLater'  BY <1>0, <1>00, <2>1, <2>2, <2>3
  <2>9. EveryTapCounts'  BY <1>0, <1>00, <2>1, <2>2, <2>3
  <2>10. FlushOnItsWay'  BY <1>0, <1>00, <2>1, <2>2, <2>3
  <2>11. NothingDiscarded' /\ FlushesApart'
    BY <1>00, <2>1, <2>2, <2>3 DEF NothingDiscarded, FlushesApart
  <2> QED BY <2>4, <2>5, <2>6, <2>7, <2>8, <2>9, <2>10, <2>11, FieldsKeepInv
<1>4. CASE RepeatFires
  <2>1. /\ hold.repeat # Unset /\ hold.repeat <= now
        /\ taps' = Tapped(taps) /\ hold' = [hold EXCEPT !.repeat = now + 1]
        /\ ledger' = [ledger EXCEPT !.made = ledger.made + 1]
        /\ now' = now /\ running' = running /\ batch' = batch
    BY <1>4 DEF RepeatFires
  <2>2. /\ taps' \in Cranks
        /\ taps'.pending = taps.pending + 1 /\ taps'.lastTapAt = now
        /\ taps'.origin = taps.origin /\ taps'.lastFlushAt = taps.lastFlushAt
        /\ taps'.due = taps.due
    BY <1>0, <2>1, TappedSets
  <2>3. PICK n \in Nat : n = now + 1
    BY <1>0
  <2>4. /\ hold' \in Holds /\ hold'.on = hold.on /\ hold'.pressAt = hold.pressAt
        /\ hold'.repeat = n
    BY <1>0, <2>1, <2>3 DEF Holds
  <2>5. /\ ledger' \in [made : Nat, sent : Nat, idleSince : Nat]
        /\ ledger'.made = ledger.made + 1 /\ ledger'.sent = ledger.sent
        /\ ledger'.idleSince = ledger.idleSince
    BY <1>0, <2>1
  <2> HIDE DEF Holds, Cranks
  <2>6. TapsTypeOK'
    BY <1>0, <2>1, <2>2, <2>3, <2>4, <2>5 DEF TapsTypeOK, Holds, Cranks
  <2>7. Behind'  BY <1>0, <1>00, <2>1, <2>2, <2>3, <2>4, <2>5
  <2>8. TimersFollow'  BY <1>0, <1>00, <2>1, <2>2, <2>3, <2>4, <2>5
  <2>9. TapsSpread'  BY <1>0, <1>00, <2>1, <2>2, <2>3, <2>4, <2>5
  <2>10. DueLater'  BY <1>0, <1>00, <2>1, <2>2, <2>3, <2>4, <2>5
  <2>11. EveryTapCounts'  BY <1>0, <1>00, <2>1, <2>2, <2>3, <2>4, <2>5
  <2>12. FlushOnItsWay'  BY <1>0, <1>00, <2>1, <2>2, <2>3, <2>4, <2>5
  <2>13. NothingDiscarded' /\ FlushesApart'
    BY <1>00, <2>1, <2>2, <2>3, <2>4, <2>5 DEF NothingDiscarded, FlushesApart
  <2> QED BY <2>6, <2>7, <2>8, <2>9, <2>10, <2>11, <2>12, <2>13, FieldsKeepInv
<1>5. CASE FlushFires
  <2>1. /\ taps.due # Unset /\ taps.due <= now
        /\ taps' = Taken(taps, hold) /\ HandOver(taps, "timer")
        /\ now' = now /\ running' = running /\ hold' = hold
    BY <1>5 DEF FlushFires
  <2>2. /\ taps' \in Cranks
        /\ taps'.pending = 0 /\ taps'.lastTapAt = taps.lastTapAt
        /\ taps'.origin = (IF taps.pending = 0 THEN taps.origin ELSE now)
        /\ taps'.lastFlushAt = (IF taps.pending = 0 THEN taps.lastFlushAt ELSE now)
        /\ taps'.due = (IF hold.on THEN now + Every ELSE Unset)
    BY <1>0, <1>00, <2>1, TakenSets
  <2>3. /\ ledger' \in [made : Nat, sent : Nat, idleSince : Nat]
        /\ ledger'.made = ledger.made /\ ledger'.sent = ledger.sent + taps.pending
        /\ ledger'.idleSince = (IF hold.on THEN now ELSE ledger.idleSince)
    BY <1>0, <2>1, LedgerHandsOver
  <2>4. BatchOK' /\ (taps.pending > 0 => batch'.gap = now - taps.lastFlushAt)
        /\ (taps.pending = 0 => batch' = batch)
    BY <1>0, <1>00, <2>1, BatchHandsOver
  <2> HIDE DEF Holds, Cranks
  <2>5. TapsTypeOK'
    BY <1>0, <2>1, <2>2, <2>3, <2>4 DEF TapsTypeOK, BatchOK, Holds, Cranks
  <2>6. Behind'  BY <1>0, <1>00, <2>1, <2>2, <2>3
  <2>7. TimersFollow'  BY <1>0, <1>00, <2>1, <2>2
  <2>8. TapsSpread'  BY <2>2
  <2>9. DueLater'  BY <1>0, <1>00, <2>1, <2>2
  <2>10. EveryTapCounts'  BY <1>0, <1>00, <2>2, <2>3
  <2>11. FlushOnItsWay'  BY <2>2
  <2>12. NothingDiscarded'  BY <2>4 DEF BatchOK
  <2>13. FlushesApart'  BY <1>0, <1>00, <2>1, <2>4 DEF FlushesApart
  <2> QED BY <2>5, <2>6, <2>7, <2>8, <2>9, <2>10, <2>11, <2>12, <2>13, FieldsKeepInv
<1>6. CASE Leave
  <2>1. /\ HandOver(taps, "keepalive") /\ hold' = LetGo
        /\ now' = now /\ running' = running /\ running = TRUE
    BY <1>0, <1>6 DEF Leave
  <2>2. PICK t \in Cranks :
           /\ taps' = Taken(t, LetGo)
           /\ t.pending = taps.pending /\ t.lastTapAt = taps.lastTapAt
           /\ t.origin = taps.origin /\ t.lastFlushAt = taps.lastFlushAt
    <3>1. taps' = Taken(IF hold.on THEN Released(taps) ELSE taps, LetGo)
      BY <1>6 DEF Leave
    <3>2. /\ Released(taps) \in Cranks
          /\ Released(taps).pending = taps.pending /\ Released(taps).lastTapAt = taps.lastTapAt
          /\ Released(taps).origin = taps.origin /\ Released(taps).lastFlushAt = taps.lastFlushAt
      BY <1>0, <1>00, ReleasedSets
    <3> QED BY <1>0, <3>1, <3>2
  <2>3. /\ hold' \in Holds /\ hold'.on = FALSE /\ hold'.pressAt = hold.pressAt
        /\ hold'.repeat = Unset
    BY <1>0, <2>1, HoldSets
  <2>4. /\ taps' \in Cranks
        /\ taps'.pending = 0 /\ taps'.lastTapAt = taps.lastTapAt
        /\ taps'.origin = (IF taps.pending = 0 THEN taps.origin ELSE now)
        /\ taps'.lastFlushAt = (IF taps.pending = 0 THEN taps.lastFlushAt ELSE now)
        /\ taps'.due = Unset
    BY <1>0, <1>00, <2>2, HoldSets, TakenSets
  <2>5. /\ ledger' \in [made : Nat, sent : Nat, idleSince : Nat]
        /\ ledger'.made = ledger.made /\ ledger'.sent = ledger.sent + taps.pending
        /\ ledger'.idleSince = (IF hold.on THEN now ELSE ledger.idleSince)
    BY <1>0, <2>1, LedgerHandsOver
  <2>6. BatchOK' /\ (batch'.by = "timer" => batch' = batch)
    BY <1>0, <1>00, <2>1, BatchHandsOver
  <2> HIDE DEF Holds, Cranks
  <2>7. TapsTypeOK'
    BY <1>0, <2>1, <2>3, <2>4, <2>5, <2>6 DEF TapsTypeOK, BatchOK, Holds, Cranks
  <2>8. Behind'  BY <1>0, <1>00, <2>1, <2>3, <2>4, <2>5
  <2>9. TimersFollow'  BY <2>1, <2>3, <2>4
  <2>10. TapsSpread' /\ FlushOnItsWay'  BY <2>4
  <2>11. DueLater'  BY <2>4
  <2>12. EveryTapCounts'  BY <1>0, <1>00, <2>4, <2>5
  <2>13. NothingDiscarded'  BY <2>6 DEF BatchOK
  <2>14. FlushesApart'  BY <1>00, <2>6 DEF FlushesApart
  <2> QED BY <2>7, <2>8, <2>9, <2>10, <2>11, <2>12, <2>13, <2>14, FieldsKeepInv
<1>7. CASE SignIn
  <2>1. /\ HandOver(taps, "sign-in") /\ hold' = LetGo
        /\ now' = now /\ running' = running /\ running = TRUE
    BY <1>0, <1>7 DEF SignIn
  <2>2. PICK t \in Cranks :
           /\ taps' = Taken(t, LetGo)
           /\ t.pending = taps.pending /\ t.lastTapAt = taps.lastTapAt
           /\ t.origin = taps.origin /\ t.lastFlushAt = taps.lastFlushAt
    BY <1>0, <1>7 DEF SignIn
  <2>3. /\ hold' \in Holds /\ hold'.on = FALSE /\ hold'.pressAt = hold.pressAt
        /\ hold'.repeat = Unset
    BY <1>0, <2>1, HoldSets
  <2>4. /\ taps' \in Cranks
        /\ taps'.pending = 0 /\ taps'.lastTapAt = taps.lastTapAt
        /\ taps'.origin = (IF taps.pending = 0 THEN taps.origin ELSE now)
        /\ taps'.lastFlushAt = (IF taps.pending = 0 THEN taps.lastFlushAt ELSE now)
        /\ taps'.due = Unset
    BY <1>0, <1>00, <2>2, HoldSets, TakenSets
  <2>5. /\ ledger' \in [made : Nat, sent : Nat, idleSince : Nat]
        /\ ledger'.made = ledger.made /\ ledger'.sent = ledger.sent + taps.pending
        /\ ledger'.idleSince = (IF hold.on THEN now ELSE ledger.idleSince)
    BY <1>0, <2>1, LedgerHandsOver
  <2>6. BatchOK' /\ (batch'.by = "timer" => batch' = batch)
    BY <1>0, <1>00, <2>1, BatchHandsOver
  <2> HIDE DEF Holds, Cranks
  <2>7. TapsTypeOK'
    BY <1>0, <2>1, <2>3, <2>4, <2>5, <2>6 DEF TapsTypeOK, BatchOK, Holds, Cranks
  <2>8. Behind'  BY <1>0, <1>00, <2>1, <2>3, <2>4, <2>5
  <2>9. TimersFollow'  BY <2>1, <2>3, <2>4
  <2>10. TapsSpread' /\ FlushOnItsWay'  BY <2>4
  <2>11. DueLater'  BY <2>4
  <2>12. EveryTapCounts'  BY <1>0, <1>00, <2>4, <2>5
  <2>13. NothingDiscarded'  BY <2>6 DEF BatchOK
  <2>14. FlushesApart'  BY <1>00, <2>6 DEF FlushesApart
  <2> QED BY <2>7, <2>8, <2>9, <2>10, <2>11, <2>12, <2>13, <2>14, FieldsKeepInv
<1>8. CASE Halt
  <2>1. /\ running' = FALSE /\ hold' = LetGo /\ now' = now /\ batch' = batch /\ ledger' = ledger
        /\ taps' = [taps EXCEPT !.due = Unset]
    BY <1>8 DEF Halt
  <2>2. /\ taps' \in Cranks
        /\ taps'.pending = taps.pending /\ taps'.lastTapAt = taps.lastTapAt
        /\ taps'.origin = taps.origin /\ taps'.lastFlushAt = taps.lastFlushAt
        /\ taps'.due = Unset
    BY <1>0, <2>1 DEF Cranks
  <2>3. /\ hold' \in Holds /\ hold'.on = FALSE /\ hold'.pressAt = hold.pressAt
        /\ hold'.repeat = Unset
    BY <1>0, <2>1, HoldSets
  <2> HIDE DEF Holds, Cranks
  <2>4. TapsTypeOK'
    BY <1>0, <2>1, <2>2, <2>3 DEF TapsTypeOK, Holds, Cranks
  <2>5. Behind'  BY <1>0, <1>00, <2>1, <2>2, <2>3
  <2>6. TimersFollow'  BY <1>0, <1>00, <2>1, <2>2, <2>3
  <2>7. TapsSpread'  BY <1>0, <1>00, <2>1, <2>2, <2>3
  <2>8. DueLater'  BY <1>0, <1>00, <2>1, <2>2, <2>3
  <2>9. EveryTapCounts'  BY <1>0, <1>00, <2>1, <2>2, <2>3
  <2>10. FlushOnItsWay'  BY <1>0, <1>00, <2>1, <2>2, <2>3
  <2>11. NothingDiscarded' /\ FlushesApart'
    BY <1>00, <2>1, <2>2, <2>3 DEF NothingDiscarded, FlushesApart
  <2> QED BY <2>4, <2>5, <2>6, <2>7, <2>8, <2>9, <2>10, <2>11, FieldsKeepInv
<1>9. CASE Restart
  <2>1. /\ ~running /\ running' = TRUE /\ now' = now /\ hold' = hold /\ batch' = batch
        /\ taps' = IF taps.pending > 0 /\ ~hold.on
                   THEN ArmFlush(taps, Largest(now, taps.lastFlushAt + Every)) ELSE taps
        /\ ledger' = [ledger EXCEPT !.idleSince = now]
    BY <1>9 DEF Restart
  <2>2. PICK due \in Nat :
           /\ due = Largest(now, taps.lastFlushAt + Every)
           /\ due <= now + Every /\ due >= taps.lastFlushAt + Every
    BY <1>0, <1>00 DEF Largest
  <2>3. /\ taps' \in Cranks
        /\ taps'.pending = taps.pending /\ taps'.lastTapAt = taps.lastTapAt
        /\ taps'.origin = taps.origin /\ taps'.lastFlushAt = taps.lastFlushAt
        /\ taps'.due \in Nat \cup {Unset}
        /\ taps'.due \in {taps.due, due}
        /\ taps.pending > 0 /\ ~hold.on => taps'.due # Unset
    <3>1. CASE taps.pending > 0 /\ ~hold.on
      <4>1. taps' = ArmFlush(taps, due)  BY <2>1, <2>2, <3>1
      <4>2. PICK a : a = ArmFlush(taps, due)  OBVIOUS
      <4>3. /\ a \in Cranks /\ a.pending = taps.pending /\ a.lastTapAt = taps.lastTapAt
            /\ a.origin = taps.origin /\ a.lastFlushAt = taps.lastFlushAt
            /\ a.due # Unset /\ a.due \in {taps.due, due}
        BY <1>0, <2>2, <4>2, ArmFlushSets
      <4> QED BY <1>0, <2>2, <4>1, <4>2, <4>3
    <3>2. CASE ~(taps.pending > 0 /\ ~hold.on)
      BY <1>0, <2>1, <3>2
    <3> QED BY <3>1, <3>2
  <2>4. /\ ledger' \in [made : Nat, sent : Nat, idleSince : Nat]
        /\ ledger'.made = ledger.made /\ ledger'.sent = ledger.sent /\ ledger'.idleSince = now
    BY <1>0, <2>1
  <2> HIDE DEF Holds, Cranks
  <2>5. TapsTypeOK'
    BY <1>0, <2>1, <2>2, <2>3, <2>4 DEF TapsTypeOK, Holds, Cranks
  <2>6. Behind'  BY <1>0, <1>00, <2>1, <2>2, <2>3, <2>4
  <2>7. TimersFollow'  BY <1>0, <1>00, <2>1, <2>2, <2>3, <2>4
  <2>8. TapsSpread'  BY <1>0, <1>00, <2>1, <2>2, <2>3, <2>4
  <2>9. DueLater'  BY <1>0, <1>00, <2>1, <2>2, <2>3, <2>4
  <2>10. EveryTapCounts'  BY <1>0, <1>00, <2>1, <2>2, <2>3, <2>4
  <2>11. FlushOnItsWay'  BY <1>0, <1>00, <2>1, <2>2, <2>3, <2>4
  <2>12. NothingDiscarded' /\ FlushesApart'
    BY <1>00, <2>1, <2>2, <2>3, <2>4 DEF NothingDiscarded, FlushesApart
  <2> QED BY <2>5, <2>6, <2>7, <2>8, <2>9, <2>10, <2>11, <2>12, FieldsKeepInv
<1>10. CASE Later
  <2>1. /\ now' = now + 1 /\ running' = running /\ hold' = hold /\ taps' = taps
        /\ batch' = batch /\ ledger' = ledger
    BY <1>10 DEF Later
  <2> HIDE DEF Holds, Cranks
  <2>2. TapsTypeOK'  BY <1>0, <2>1 DEF TapsTypeOK
  <2>3. Behind' /\ TimersFollow' /\ TapsSpread' /\ DueLater' /\ EveryTapCounts'
    BY <1>0, <1>00, <2>1
  <2>4. FlushOnItsWay'  BY <1>0, <1>00, <2>1
  <2>5. NothingDiscarded' /\ FlushesApart'
    BY <1>00, <2>1 DEF NothingDiscarded, FlushesApart
  <2> QED BY <2>2, <2>3, <2>4, <2>5, FieldsKeepInv
<1> QED BY <1>1, <1>2, <1>3, <1>4, <1>5, <1>6, <1>7, <1>8, <1>9, <1>10 DEF TapsNext

\* store.ts:444-540, taps.ts: for any periods, and an engine that grants two taps in the time of a
\* repeat, no tap is lost or left without a flush, and no batch comes too soon or is cut short.
THEOREM CrankAlwaysHolds == TapsSpec => []CrankHolds
<1>1. TapsInv => CrankHolds  BY DEF TapsInv, CrankHolds, TapsKept
<1> QED BY <1>1, TapsInitHolds, TapsKeepInv, PTL DEF TapsSpec

----------------------------------------------------------------------------
\* The priority list.

PrioritySpec ==
    /\ \E list \in Seq(Entries) : list # <<>> /\ list[1] = Power /\ PriorityInit(list)
    /\ [][PriorityNext]_priorities

Controls == {OrderKey, SettingsKey}
SettingsSet == [mode : {"guaranteed", "share"}, paused : BOOLEAN]
SettingsActions == [mode : {"guaranteed", "share"}]
                   \cup [mode : {"guaranteed", "share"}, paused : BOOLEAN]

\* What an order is made of plays no part.
IsSeq(s) == s \in Seq(ToSet(s))

IsWorld(w) == w \in [list : {w.list}, set : SettingsSet, tier : {0, 1}, version : Nat]

IsBatch(b, n) ==
    /\ b \in [token : 1..n, key : Controls, value : {b.value}, action : {b.action},
              phase : {"queued", "served", "landed"}, adopted : BOOLEAN, body : {b.body}]
    /\ b.key = SettingsKey => b.value \in SettingsSet /\ b.action \in SettingsActions
    /\ b.key = OrderKey => b.value = b.action
    /\ b.phase = "served" => IsWorld(b.body)

PriorityTypeOK ==
    /\ IsWorld(factory) /\ IsWorld(snapshot)
    /\ DOMAIN held = Controls
    /\ seq \in Nat
    /\ IsSeq(line)
    /\ \A i \in 1..Len(line) : IsBatch(line[i], seq)
    /\ told \in [list : {told.list}, set : SettingsSet, refused : BOOLEAN, foreign : BOOLEAN,
                 warned : BOOLEAN]

\* Requests wait in the order they were made, and one at a time is with the server.
InOrder ==
    /\ \A i, j \in 1..Len(line) : i < j => line[i].token < line[j].token
    /\ \A i \in 2..Len(line) : line[i].phase = "queued"

Queued(key) == {i \in 1..Len(line) : line[i].key = key /\ line[i].phase = "queued"}
WithPause == {i \in Queued(SettingsKey) : "paused" \in DOMAIN line[i].action}
Newest(S, i) == i \in S /\ \A j \in S : j <= i

\* Once the queue is served, the server has what was asked last.
ListLands ==
    /\ Queued(OrderKey) = {} => factory.list = told.list
    /\ \A i : Newest(Queued(OrderKey), i) => line[i].action = told.list
ModeLands ==
    /\ Queued(SettingsKey) = {} => factory.set.mode = told.set.mode
    /\ \A i : Newest(Queued(SettingsKey), i) => line[i].action.mode = told.set.mode
PauseLands ==
    /\ WithPause = {} => factory.set.paused = told.set.paused
    /\ \A i : Newest(WithPause, i) => line[i].action.paused = told.set.paused

\* The snapshot lags by the request whose answer is on its way.
SnapshotFollows ==
    /\ line # <<>> /\ line[1].phase = "served" =>
           line[1].body.set = factory.set /\ line[1].body.version <= factory.version
    /\ snapshot.version <= factory.version
    /\ snapshot.set # factory.set =>
           /\ line # <<>> /\ line[1].phase = "served" /\ line[1].key = SettingsKey
           /\ snapshot.version < line[1].body.version

HeldIsAsked == HeldKey(held, SettingsKey) => held[SettingsKey].value = told.set

Lands ==
    ~told.foreign /\ ~told.refused =>
        ListLands /\ ModeLands /\ PauseLands /\ SnapshotFollows /\ HeldIsAsked

\* No order in sight or on its way has power off the top.
PowerOnTop ==
    ~told.warned /\ ~told.foreign =>
        /\ factory.list[1] = Power /\ snapshot.list[1] = Power
        /\ \A i \in 1..Len(line) :
              /\ line[i].key = OrderKey => line[i].action[1] = Power
              /\ line[i].phase = "served" => line[i].body.list[1] = Power

PriorityInv == PriorityTypeOK /\ InOrder /\ HeldIsNewest /\ Lands /\ PowerOnTop

----------------------------------------------------------------------------
\* Sequences whose elements are of any kind.

\* A sequence is one over its own elements.
LEMMA IsSeqOf == ASSUME NEW S, NEW s \in Seq(S) PROVE IsSeq(s)
BY DEF IsSeq, ToSet

\* One more at the end.
LEMMA AppendIs ==
    ASSUME NEW s, IsSeq(s), NEW e
    PROVE  /\ IsSeq(Append(s, e)) /\ Len(s) \in Nat /\ Len(Append(s, e)) = Len(s) + 1
           /\ \A i \in 1..Len(s) : Append(s, e)[i] = s[i]
           /\ Append(s, e)[Len(s) + 1] = e
<1>1. s \in Seq(ToSet(s) \cup {e}) /\ Append(s, e) \in Seq(ToSet(s) \cup {e})
  BY DEF IsSeq
<1>2. IsSeq(Append(s, e))
  BY <1>1, IsSeqOf
<1> QED BY <1>1, <1>2

\* One less at the front.
LEMMA TailIs ==
    ASSUME NEW s, IsSeq(s), s # <<>>
    PROVE  /\ IsSeq(Tail(s)) /\ Len(s) \in Nat \ {0} /\ Len(Tail(s)) = Len(s) - 1
           /\ \A i \in 1..Len(Tail(s)) : Tail(s)[i] = s[i + 1]
<1>1. Tail(s) \in Seq(ToSet(s))
  BY DEF IsSeq
<1>2. IsSeq(Tail(s))
  BY <1>1, IsSeqOf
<1> QED BY <1>1, <1>2 DEF IsSeq

\* A function on the first so many numbers.
LEMMA IsSeqFcn ==
    ASSUME NEW n \in Nat \ {0}, NEW T, NEW t \in [1..n -> T]
    PROVE  IsSeq(t) /\ Len(t) = n
<1>1. t \in Seq(T)
  OBVIOUS
<1> QED BY <1>1, IsSeqOf

\* Gestures that ask nothing.
LEMMA StillKeeps ==
    ASSUME PriorityInv, UNCHANGED <<factory, snapshot, held, seq, line, told>>
    PROVE  PriorityInv'
<1>1. IsWorld(factory') /\ IsWorld(snapshot') /\ IsSeq(line')
      /\ \A i \in 1..Len(line') : IsBatch(line'[i], seq')
  BY DEF PriorityInv, PriorityTypeOK
<1>2. PriorityTypeOK'
  BY <1>1 DEF PriorityInv, PriorityTypeOK
<1>3. InOrder' /\ HeldIsNewest'
  BY DEF PriorityInv, InOrder, HeldIsNewest, Unsettled, HeldKey
<1>4. Lands'
  BY DEF PriorityInv, Lands, ListLands, ModeLands, PauseLands, SnapshotFollows, HeldIsAsked,
     Queued, WithPause, HeldKey
<1>5. PowerOnTop'
  BY DEF PriorityInv, PowerOnTop
<1> QED BY <1>2, <1>3, <1>4, <1>5 DEF PriorityInv

\* The world begins with power on top, and nothing is asked.
LEMMA PriorityInitHolds ==
    ASSUME NEW list, list # <<>>, list[1] = Power, PriorityInit(list)
    PROVE  PriorityInv
<1>1. /\ factory = [list |-> list, set |-> [mode |-> "guaranteed", paused |-> FALSE],
                    tier |-> 0, version |-> 1]
      /\ snapshot = factory /\ seq = 0 /\ line = <<>>
      /\ told = [list |-> list, set |-> factory.set, refused |-> FALSE, foreign |-> FALSE,
                 warned |-> FALSE]
      /\ held = [key \in Controls |-> NotHeld]
  BY DEF PriorityInit, Controls
<1>2. Len(line) = 0 /\ IsSeq(line) /\ DOMAIN line = {}
  BY <1>1 DEF IsSeq, ToSet
<1>3. PriorityTypeOK
  BY <1>1, <1>2 DEF PriorityTypeOK, IsWorld, SettingsSet
<1>4. InOrder
  BY <1>2 DEF InOrder
<1>5. \A key \in Controls : ~HeldKey(held, key)
  BY <1>1 DEF HeldKey, NotHeld
<1>6. HeldIsNewest
  BY <1>2, <1>5 DEF HeldIsNewest, Unsettled, Controls
<1>7. Queued(OrderKey) = {} /\ Queued(SettingsKey) = {} /\ WithPause = {}
  BY <1>2 DEF Queued, WithPause
<1>8. HeldIsAsked
  BY <1>5 DEF HeldIsAsked, Controls
<1>9. Lands
  BY <1>1, <1>7, <1>8 DEF Lands, ListLands, ModeLands, PauseLands, SnapshotFollows, Newest
<1>10. PowerOnTop
  BY <1>1, <1>2 DEF PowerOnTop
<1> QED BY <1>3, <1>4, <1>6, <1>9, <1>10 DEF PriorityInv

\* After another page's change or a re-pin, only the shape is promised.
LEMMA ForeignKeeps == PriorityInv /\ Foreign => PriorityInv'
<1> SUFFICES ASSUME PriorityInv, Foreign PROVE PriorityInv'  OBVIOUS
<1>1. /\ told' = [told EXCEPT !.foreign = TRUE]
      /\ UNCHANGED <<snapshot, held, seq, line, drag, confirm>>
      /\ \/ factory' = [factory EXCEPT !.list = Reverse(factory.list),
                            !.set.paused = ~factory.set.paused, !.version = factory.version + 1]
         \/ factory' = [factory EXCEPT !.list = Append(factory.list, Newcomer),
                            !.version = factory.version + 1]
  BY DEF Foreign
<1>2. PICK n \in Nat : n = factory.version + 1
  BY DEF PriorityInv, PriorityTypeOK, IsWorld
<1>3. IsWorld(factory')
  <2>1. CASE factory' = [factory EXCEPT !.list = Append(factory.list, Newcomer),
                            !.version = factory.version + 1]
    <3>1. PICK l : l = Append(factory.list, Newcomer)  OBVIOUS
    <3>2. factory' = [factory EXCEPT !.list = l, !.version = n]
      BY <1>2, <2>1, <3>1
    <3> QED BY <1>2, <3>2 DEF PriorityInv, PriorityTypeOK, IsWorld
  <2>2. CASE factory' = [factory EXCEPT !.list = Reverse(factory.list),
                            !.set.paused = ~factory.set.paused, !.version = factory.version + 1]
    <3>1. PICK l : l = Reverse(factory.list)  OBVIOUS
    <3>2. PICK p \in BOOLEAN : p = ~factory.set.paused  OBVIOUS
    <3>3. factory' = [factory EXCEPT !.list = l, !.set.paused = p, !.version = n]
      BY <1>2, <2>2, <3>1, <3>2
    <3> QED BY <1>2, <3>3 DEF PriorityInv, PriorityTypeOK, IsWorld, SettingsSet
  <2> QED BY <1>1, <2>1, <2>2
<1>4. IsWorld(snapshot') /\ IsSeq(line') /\ (\A i \in 1..Len(line') : IsBatch(line'[i], seq'))
  BY <1>1 DEF PriorityInv, PriorityTypeOK
<1>5. PriorityTypeOK'
  BY <1>1, <1>3, <1>4 DEF PriorityInv, PriorityTypeOK
<1>6. InOrder' /\ HeldIsNewest'
  BY <1>1 DEF PriorityInv, InOrder, HeldIsNewest, Unsettled, HeldKey
<1>7. told'.foreign
  BY <1>1 DEF PriorityInv, PriorityTypeOK
<1> QED BY <1>5, <1>6, <1>7 DEF PriorityInv, Lands, PowerOnTop

\* A milestone moves the version, and no order or setting.
LEMMA TierUpKeeps == PriorityInv /\ TierUp => PriorityInv'
<1> SUFFICES ASSUME PriorityInv, TierUp PROVE PriorityInv'  OBVIOUS
<1>1. /\ UNCHANGED <<snapshot, held, seq, line, drag, confirm, told>>
      /\ factory' = [factory EXCEPT !.tier = 1, !.version = factory.version + 1]
  BY DEF TierUp
<1>2. PICK n \in Nat : n = factory.version + 1
  BY DEF PriorityInv, PriorityTypeOK, IsWorld
<1>3. /\ IsWorld(factory') /\ factory'.list = factory.list /\ factory'.set = factory.set
      /\ factory'.version = n /\ factory.version \in Nat
  BY <1>1, <1>2 DEF PriorityInv, PriorityTypeOK, IsWorld
<1>4. IsWorld(snapshot') /\ IsSeq(line') /\ (\A i \in 1..Len(line') : IsBatch(line'[i], seq'))
  BY <1>1 DEF PriorityInv, PriorityTypeOK
<1>5. PriorityTypeOK'
  BY <1>1, <1>3, <1>4 DEF PriorityInv, PriorityTypeOK
<1>6. InOrder' /\ HeldIsNewest'
  BY <1>1 DEF PriorityInv, InOrder, HeldIsNewest, Unsettled, HeldKey
<1>7. SnapshotFollows => SnapshotFollows'
  <2>1. line # <<>> /\ line[1].phase = "served" => line[1].body.version \in Nat
    BY DEF PriorityInv, PriorityTypeOK, IsBatch, IsWorld, IsSeq
  <2>2. snapshot.version \in Nat
    BY DEF PriorityInv, PriorityTypeOK, IsWorld
  <2> QED BY <1>1, <1>2, <1>3, <2>1, <2>2 DEF SnapshotFollows
<1>8. Lands'
  BY <1>1, <1>3, <1>7 DEF PriorityInv, Lands, ListLands, ModeLands, PauseLands, HeldIsAsked, Queued,
     WithPause, HeldKey
<1>9. PowerOnTop'
  BY <1>1, <1>3 DEF PriorityInv, PowerOnTop
<1> QED BY <1>5, <1>6, <1>8, <1>9 DEF PriorityInv

\* A GET brings the snapshot up to the server.
LEMMA RefreshKeeps == PriorityInv /\ Refresh => PriorityInv'
<1> SUFFICES ASSUME PriorityInv, Refresh PROVE PriorityInv'  OBVIOUS
<1>1. UNCHANGED <<factory, held, seq, line, drag, confirm, told>> /\ snapshot' = factory
  BY DEF Refresh
<1>2. factory.version \in Nat
  BY DEF PriorityInv, PriorityTypeOK, IsWorld
<1>4. IsWorld(snapshot') /\ IsWorld(factory')
      /\ IsSeq(line') /\ (\A i \in 1..Len(line') : IsBatch(line'[i], seq'))
  BY <1>1 DEF PriorityInv, PriorityTypeOK
<1>5. PriorityTypeOK'
  BY <1>1, <1>4 DEF PriorityInv, PriorityTypeOK
<1>6. InOrder' /\ HeldIsNewest'
  BY <1>1 DEF PriorityInv, InOrder, HeldIsNewest, Unsettled, HeldKey
<1>7. SnapshotFollows => SnapshotFollows'
  BY <1>1, <1>2 DEF SnapshotFollows
<1>8. Lands'
  BY <1>1, <1>7 DEF PriorityInv, Lands, ListLands, ModeLands, PauseLands, HeldIsAsked, Queued,
     WithPause, HeldKey
<1>9. PowerOnTop'
  BY <1>1 DEF PriorityInv, PowerOnTop
<1> QED BY <1>5, <1>6, <1>8, <1>9 DEF PriorityInv

Request(key, value, action, n) ==
    [token |-> n, key |-> key, value |-> value, action |-> action, phase |-> "queued",
     adopted |-> FALSE, body |-> NoBody]

\* Tokens only grow.
LEMMA BatchOutlives ==
    ASSUME NEW m \in Nat, NEW b, IsBatch(b, m)
    PROVE  IsBatch(b, m + 1)
BY DEF IsBatch

\* A request joins the line, and its control holds its value.
LEMMA AskAppends ==
    ASSUME PriorityInv, NEW key \in Controls, NEW value, NEW action, Ask(key, value, action)
    PROVE  /\ seq \in Nat /\ seq' = seq + 1
           /\ IsSeq(line') /\ Len(line) \in Nat /\ Len(line') = Len(line) + 1
           /\ \A i \in 1..Len(line) : line'[i] = line[i]
           /\ line'[Len(line) + 1] = Request(key, value, action, seq + 1)
           /\ held' = [held EXCEPT ![key] = [value |-> value, token |-> seq + 1]]
<1>1. line' = Append(line, Request(key, value, action, seq + 1))
  BY DEF Ask, Request
<1>2. IsSeq(line) /\ seq \in Nat
  BY DEF PriorityInv, PriorityTypeOK
<1>3. PICK b : b = Request(key, value, action, seq + 1)
  OBVIOUS
<1>4. line' = Append(line, b)
  BY <1>1, <1>3
<1> QED BY <1>2, <1>3, <1>4, AppendIs DEF Ask, Holding

\* The newest request of a control is the one it shows.
LEMMA AskKeepsLine ==
    ASSUME PriorityInv, NEW key \in Controls, NEW value, NEW action, Ask(key, value, action),
           key = SettingsKey => value \in SettingsSet /\ action \in SettingsActions,
           key = OrderKey => value = action
    PROVE  /\ seq' \in Nat /\ DOMAIN held' = Controls /\ IsSeq(line')
           /\ \A i \in 1..Len(line') : IsBatch(line'[i], seq')
           /\ InOrder'
           /\ HeldIsNewest'
<1>1. PICK n \in Nat, m \in Nat : n = Len(line) /\ m = seq
  BY AskAppends
<1>2. PICK b : b = Request(key, value, action, m + 1)
  OBVIOUS
<1>3. /\ b.token = m + 1 /\ b.key = key /\ b.value = value /\ b.phase = "queued"
      /\ IsBatch(b, m + 1)
  BY <1>1, <1>2 DEF Request, IsBatch
<1>4. /\ seq' = m + 1 /\ IsSeq(line') /\ Len(line') = n + 1
      /\ \A i \in 1..n : line'[i] = line[i]
      /\ line'[n + 1] = b
      /\ held' = [held EXCEPT ![key] = [value |-> value, token |-> m + 1]]
  BY <1>1, <1>2, AskAppends
<1>5. DOMAIN held = Controls /\ DOMAIN line = 1..n /\ DOMAIN line' = 1..(n + 1)
  BY <1>1, <1>4, AskAppends DEF PriorityInv, PriorityTypeOK, IsSeq
<1>6. \A i \in 1..n : IsBatch(line[i], m) /\ line[i].token \in 1..m
  BY <1>1 DEF PriorityInv, PriorityTypeOK, IsBatch
<1>7. \A i \in 1..Len(line') : IsBatch(line'[i], seq')
  <2> TAKE i \in 1..Len(line')
  <2>1. CASE i = n + 1
    BY <1>3, <1>4, <2>1
  <2>2. CASE i \in 1..n
    BY <1>4, <1>6, <2>2, BatchOutlives
  <2> QED BY <1>1, <1>4, <2>1, <2>2
<1>8. InOrder'
  <2>1. \A i, j \in 1..(n + 1) : i < j => line'[i].token < line'[j].token
    <3> TAKE i, j \in 1..(n + 1)
    <3> SUFFICES ASSUME i < j PROVE line'[i].token < line'[j].token  OBVIOUS
    <3>1. i \in 1..n  BY <1>1
    <3>2. CASE j = n + 1
      BY <1>1, <1>3, <1>4, <1>6, <3>1, <3>2
    <3>3. CASE j \in 1..n
      BY <1>1, <1>4, <3>1, <3>3 DEF PriorityInv, InOrder
    <3> QED BY <1>1, <3>2, <3>3
  <2>2. \A i \in 2..(n + 1) : line'[i].phase = "queued"
    <3> TAKE i \in 2..(n + 1)
    <3>1. CASE i = n + 1
      BY <1>3, <1>4, <3>1
    <3>2. CASE i \in 2..n
      BY <1>1, <1>4, <3>2 DEF PriorityInv, InOrder
    <3> QED BY <1>1, <3>1, <3>2
  <2> QED BY <1>4, <2>1, <2>2 DEF InOrder
<1>9. HeldIsNewest'
  <2> SUFFICES ASSUME NEW other \in Controls
               PROVE  IF Unsettled(other)' = {} THEN ~HeldKey(held', other)
                      ELSE \E i \in Unsettled(other)' :
                              /\ \A j \in Unsettled(other)' : j <= i
                              /\ held'[other] = [value |-> line'[i].value, token |-> line'[i].token]
    BY DEF HeldIsNewest, Controls
  <2>1. CASE other = key
    <3>1. n + 1 \in Unsettled(key)' /\ \A j \in Unsettled(key)' : j <= n + 1
      BY <1>1, <1>3, <1>4, <1>5 DEF Unsettled
    <3>2. held'[key] = [value |-> line'[n + 1].value, token |-> line'[n + 1].token]
      BY <1>3, <1>4, <1>5
    <3> QED BY <2>1, <3>1, <3>2
  <2>2. CASE other # key
    <3>1. Unsettled(other)' = Unsettled(other)
      BY <1>1, <1>3, <1>4, <1>5, <2>2 DEF Unsettled
    <3>2. held'[other] = held[other]
      BY <1>4, <1>5, <2>2
    <3>3. HeldKey(held', other) = HeldKey(held, other)
      BY <3>2 DEF HeldKey
    <3>4. \A i \in Unsettled(other) : line'[i] = line[i]
      BY <1>4, <1>5 DEF Unsettled
    <3> QED BY <3>1, <3>2, <3>3, <3>4 DEF PriorityInv, HeldIsNewest, Controls
  <2> QED BY <2>1, <2>2
<1> QED BY <1>4, <1>5, <1>1, <1>7, <1>8, <1>9

\* Only the queue of its own control knows of a request, and the head of the line does not.
LEMMA AskQueues ==
    ASSUME PriorityInv, NEW key \in Controls, NEW value, NEW action, Ask(key, value, action)
    PROVE  /\ Len(line) + 1 \in Queued(key)'
           /\ \A i \in Queued(key)' : i <= Len(line) + 1
           /\ \A other \in Controls \ {key} : Queued(other)' = Queued(other)
           /\ Queued(key)' = Queued(key) \cup {Len(line) + 1}
           /\ line # <<>> => line' # <<>> /\ line'[1] = line[1]
           /\ line = <<>> => line' # <<>> /\ line'[1].phase = "queued"
           /\ \A other \in Controls \ {key} : held'[other] = held[other]
<1>1. PICK n \in Nat, m \in Nat : n = Len(line) /\ m = seq
  BY AskAppends
<1>2. PICK b : b = Request(key, value, action, m + 1)
  OBVIOUS
<1>3. b.token = m + 1 /\ b.key = key /\ b.value = value /\ b.phase = "queued"
  BY <1>1, <1>2 DEF Request
<1>4. /\ seq' = m + 1 /\ IsSeq(line') /\ Len(line') = n + 1
      /\ \A i \in 1..n : line'[i] = line[i]
      /\ line'[n + 1] = b
      /\ held' = [held EXCEPT ![key] = [value |-> value, token |-> m + 1]]
  BY <1>1, <1>2, AskAppends
<1>5. line # <<>> => n # 0
  BY <1>1 DEF PriorityInv, PriorityTypeOK, IsSeq
<1>6. line = <<>> => n = 0
  BY <1>1
<1>7. line' # <<>>
  BY <1>1, <1>4 DEF IsSeq
<1>8. DOMAIN held = Controls
  BY DEF PriorityInv, PriorityTypeOK
<1>9. Queued(key)' = Queued(key) \cup {n + 1}
  BY <1>1, <1>3, <1>4 DEF Queued
<1>10. \A other \in Controls \ {key} : Queued(other)' = Queued(other)
  BY <1>1, <1>3, <1>4 DEF Queued
<1> QED BY <1>1, <1>3, <1>4, <1>5, <1>6, <1>7, <1>8, <1>9, <1>10 DEF Queued

\* The history of an order asked for.
LEMMA ToldSets ==
    ASSUME PriorityTypeOK, NEW l, NEW w \in BOOLEAN, told' = [told EXCEPT !.list = l, !.warned = w]
    PROVE  /\ told' \in [list : {told'.list}, set : SettingsSet, refused : BOOLEAN,
                         foreign : BOOLEAN, warned : BOOLEAN]
           /\ told'.list = l /\ told'.warned = w /\ told'.set = told.set
           /\ told'.refused = told.refused /\ told'.foreign = told.foreign
BY DEF PriorityTypeOK

\* An order is asked for: it has power on top, or a warning was answered.
LEMMA AskOrderKeeps ==
    ASSUME PriorityInv, NEW next, Ask(OrderKey, next, next), UNCHANGED <<factory, snapshot>>,
           NEW w \in BOOLEAN, told' = [told EXCEPT !.list = next, !.warned = w],
           told.warned => w, next[1] = Power \/ w \/ told.foreign
    PROVE  PriorityInv'
<1>1. /\ OrderKey \in Controls /\ OrderKey # SettingsKey /\ SettingsKey \in Controls \ {OrderKey}
      /\ PriorityTypeOK
  BY DEF Controls, OrderKey, SettingsKey, PriorityInv
<1>2. /\ told' \in [list : {told'.list}, set : SettingsSet, refused : BOOLEAN,
                    foreign : BOOLEAN, warned : BOOLEAN]
      /\ told'.list = next /\ told'.warned = w /\ told'.set = told.set
      /\ told'.refused = told.refused /\ told'.foreign = told.foreign
  BY <1>1, ToldSets
<1>3. /\ seq' \in Nat /\ DOMAIN held' = Controls /\ IsSeq(line')
      /\ \A i \in 1..Len(line') : IsBatch(line'[i], seq')
      /\ InOrder' /\ HeldIsNewest'
  BY <1>1, AskKeepsLine
<1>4. IsWorld(factory') /\ IsWorld(snapshot')
  BY <1>1 DEF PriorityTypeOK
<1>5. PriorityTypeOK'
  BY <1>2, <1>3, <1>4 DEF PriorityTypeOK
<1>6. PICK n \in Nat : n = Len(line)
  BY <1>1, AskAppends
<1>7. /\ Len(line') = n + 1 /\ \A i \in 1..n : line'[i] = line[i]
      /\ line'[n + 1].action = next /\ line'[n + 1].key = OrderKey
      /\ line'[n + 1].phase = "queued"
  <2>1. line'[n + 1] = Request(OrderKey, next, next, seq + 1)
    BY <1>1, <1>6, AskAppends
  <2> QED BY <1>1, <1>6, <2>1, AskAppends DEF Request
<1>8. /\ n + 1 \in Queued(OrderKey)' /\ \A i \in Queued(OrderKey)' : i <= n + 1
      /\ Queued(SettingsKey)' = Queued(SettingsKey)
      /\ held'[SettingsKey] = held[SettingsKey]
      /\ line # <<>> => line' # <<>> /\ line'[1] = line[1]
      /\ line = <<>> => line' # <<>> /\ line'[1].phase = "queued"
  BY <1>1, <1>6, AskQueues
<1>9. Lands'
  <2> SUFFICES ASSUME ~told.foreign, ~told.refused
               PROVE  (ListLands /\ ModeLands /\ PauseLands /\ SnapshotFollows /\ HeldIsAsked)'
    BY <1>2 DEF Lands
  <2>0. ListLands /\ ModeLands /\ PauseLands /\ SnapshotFollows /\ HeldIsAsked
    BY DEF PriorityInv, Lands
  <2>1. ListLands'
    <3>1. \A i : Newest(Queued(OrderKey)', i) => i = n + 1
      BY <1>8 DEF Newest, Queued
    <3> QED BY <1>2, <1>7, <1>8, <3>1 DEF ListLands, Newest
  <2>2. \A i \in Queued(SettingsKey) : line'[i] = line[i]
    BY <1>6, <1>7 DEF Queued
  <2>3. ModeLands'
    BY <1>2, <1>8, <2>0, <2>2 DEF ModeLands, Newest
  <2>4. WithPause' = WithPause
    BY <1>8, <2>2 DEF WithPause
  <2>5. PauseLands'
    BY <1>2, <2>0, <2>2, <2>4 DEF PauseLands, Newest, WithPause
  <2>6. SnapshotFollows'
    BY <1>8, <2>0 DEF SnapshotFollows
  <2>7. HeldIsAsked'
    BY <1>2, <1>8, <2>0 DEF HeldIsAsked, HeldKey
  <2> QED BY <2>1, <2>3, <2>5, <2>6, <2>7
<1>10. PowerOnTop'
  <2> SUFFICES ASSUME ~w, ~told.foreign
               PROVE  /\ factory.list[1] = Power /\ snapshot.list[1] = Power
                      /\ \A i \in 1..Len(line') :
                            /\ line'[i].key = OrderKey => line'[i].action[1] = Power
                            /\ line'[i].phase = "served" => line'[i].body.list[1] = Power
    BY <1>2 DEF PowerOnTop
  <2>1. ~told.warned
    BY <1>1 DEF PriorityTypeOK
  <2>2. \A i \in 1..n :
            /\ line[i].key = OrderKey => line[i].action[1] = Power
            /\ line[i].phase = "served" => line[i].body.list[1] = Power
    BY <1>6, <2>1 DEF PriorityInv, PowerOnTop
  <2>3. next[1] = Power
    OBVIOUS
  <2> QED BY <1>6, <1>7, <2>1, <2>2, <2>3 DEF PriorityInv, PowerOnTop
<1> QED BY <1>3, <1>5, <1>9, <1>10 DEF PriorityInv

\* A value is held exactly while a request of its control is unsettled.
LEMMA HeldHasRequest ==
    ASSUME PriorityInv, NEW key \in Controls
    PROVE  HeldKey(held, key) <=>
               \E i \in 1..Len(line) : line[i].key = key /\ held[key].value = line[i].value
<1>1. IsSeq(line) /\ DOMAIN line = 1..Len(line)
  BY DEF PriorityInv, PriorityTypeOK, IsSeq
<1>2. CASE Unsettled(key) = {}
  <2>1. ~HeldKey(held, key)
    BY <1>2 DEF PriorityInv, HeldIsNewest, Controls
  <2> QED BY <1>1, <1>2, <2>1 DEF Unsettled
<1>3. CASE Unsettled(key) # {}
  <2>1. PICK i \in Unsettled(key) : held[key] = [value |-> line[i].value, token |-> line[i].token]
    BY <1>3 DEF PriorityInv, HeldIsNewest, Controls
  <2>2. i \in 1..Len(line) /\ line[i].key = key /\ held[key].value = line[i].value
    BY <1>1, <2>1 DEF Unsettled
  <2>3. line[i].token \in Nat
    BY <2>2 DEF PriorityInv, PriorityTypeOK, IsBatch
  <2>4. HeldKey(held, key)
    BY <2>1, <2>3, NobodyIsNoToken DEF HeldKey
  <2> QED BY <2>2, <2>4
<1> QED BY <1>2, <1>3

\* The row of settings shows settings.
LEMMA SettingsTyped ==
    ASSUME PriorityInv
    PROVE  Settings \in SettingsSet
<1>1. snapshot.set \in SettingsSet
  BY DEF PriorityInv, PriorityTypeOK, IsWorld
<1>2. ASSUME HeldKey(held, SettingsKey) PROVE held[SettingsKey].value \in SettingsSet
  BY <1>2, HeldHasRequest DEF Controls, PriorityInv, PriorityTypeOK, IsBatch
<1> QED BY <1>1, <1>2 DEF Settings, ShownAt

\* What the row of settings shows is what was asked last, as long as nobody interfered.
LEMMA ShownIsAsked ==
    ASSUME PriorityInv, ~told.foreign, ~told.refused
    PROVE  Settings = told.set
<1>1. ModeLands /\ PauseLands /\ SnapshotFollows /\ HeldIsAsked
  BY DEF PriorityInv, Lands
<1>2. CASE HeldKey(held, SettingsKey)
  BY <1>1, <1>2 DEF Settings, ShownAt, HeldIsAsked
<1>3. CASE ~HeldKey(held, SettingsKey)
  <2>1. \A i \in 1..Len(line) : line[i].key # SettingsKey
    <3>1. SUFFICES ASSUME NEW i \in 1..Len(line), line[i].key = SettingsKey PROVE FALSE
      OBVIOUS
    <3>2. DOMAIN line = 1..Len(line)
      BY DEF PriorityInv, PriorityTypeOK, IsSeq
    <3>3. Unsettled(SettingsKey) # {}
      BY <3>1, <3>2 DEF Unsettled
    <3>4. PICK j \in Unsettled(SettingsKey) :
             held[SettingsKey] = [value |-> line[j].value, token |-> line[j].token]
      BY <3>3 DEF PriorityInv, HeldIsNewest
    <3>5. line[j].token \in Nat
      BY <3>2, <3>4 DEF PriorityInv, PriorityTypeOK, IsBatch, Unsettled
    <3> QED BY <1>3, <3>4, <3>5, NobodyIsNoToken DEF HeldKey
  <2>2. Queued(SettingsKey) = {} /\ WithPause = {}
    BY <2>1 DEF Queued, WithPause
  <2>3. factory.set \in SettingsSet /\ told.set \in SettingsSet
    BY DEF PriorityInv, PriorityTypeOK, IsWorld
  <2>4. factory.set = told.set
    BY <1>1, <2>2, <2>3 DEF ModeLands, PauseLands, SettingsSet
  <2>5. line # <<>> => 1 \in 1..Len(line)
    BY DEF PriorityInv, PriorityTypeOK, IsSeq
  <2>6. snapshot.set = factory.set
    BY <1>1, <2>1, <2>5 DEF SnapshotFollows
  <2> QED BY <1>3, <2>4, <2>6 DEF Settings, ShownAt
<1> QED BY <1>2, <1>3

\* Settings are asked for: what the request does not carry is what the row shows.
LEMMA AskSettingsKeeps ==
    ASSUME PriorityInv, NEW value \in SettingsSet, NEW action \in SettingsActions,
           Ask(SettingsKey, value, action), UNCHANGED <<factory, snapshot>>,
           told' = [told EXCEPT !.set = value],
           action.mode = value.mode,
           "paused" \in DOMAIN action => action.paused = value.paused,
           "paused" \notin DOMAIN action => value.paused = Settings.paused
    PROVE  PriorityInv'
<1>1. /\ SettingsKey \in Controls /\ OrderKey # SettingsKey /\ OrderKey \in Controls \ {SettingsKey}
      /\ PriorityTypeOK
  BY DEF Controls, OrderKey, SettingsKey, PriorityInv
<1>2. /\ told' \in [list : {told'.list}, set : SettingsSet, refused : BOOLEAN,
                    foreign : BOOLEAN, warned : BOOLEAN]
      /\ told'.list = told.list /\ told'.warned = told.warned /\ told'.set = value
      /\ told'.refused = told.refused /\ told'.foreign = told.foreign
  BY <1>1 DEF PriorityTypeOK
<1>3. /\ seq' \in Nat /\ DOMAIN held' = Controls /\ IsSeq(line')
      /\ \A i \in 1..Len(line') : IsBatch(line'[i], seq')
      /\ InOrder' /\ HeldIsNewest'
  BY <1>1, AskKeepsLine
<1>4. IsWorld(factory') /\ IsWorld(snapshot')
  BY <1>1 DEF PriorityTypeOK
<1>5. PriorityTypeOK'
  BY <1>2, <1>3, <1>4 DEF PriorityTypeOK
<1>6. PICK n \in Nat : n = Len(line)
  BY <1>1, AskAppends
<1>7. /\ Len(line') = n + 1 /\ \A i \in 1..n : line'[i] = line[i]
      /\ line'[n + 1].action = action /\ line'[n + 1].key = SettingsKey
      /\ line'[n + 1].phase = "queued"
  <2>1. line'[n + 1] = Request(SettingsKey, value, action, seq + 1)
    BY <1>1, <1>6, AskAppends
  <2> QED BY <1>1, <1>6, <2>1, AskAppends DEF Request
<1>8. /\ n + 1 \in Queued(SettingsKey)' /\ \A i \in Queued(SettingsKey)' : i <= n + 1
      /\ Queued(SettingsKey)' = Queued(SettingsKey) \cup {n + 1}
      /\ Queued(OrderKey)' = Queued(OrderKey)
      /\ line # <<>> => line' # <<>> /\ line'[1] = line[1]
      /\ line = <<>> => line' # <<>> /\ line'[1].phase = "queued"
  BY <1>1, <1>6, AskQueues
<1>9. Lands'
  <2> SUFFICES ASSUME ~told.foreign, ~told.refused
               PROVE  (ListLands /\ ModeLands /\ PauseLands /\ SnapshotFollows /\ HeldIsAsked)'
    BY <1>2 DEF Lands
  <2>0. ListLands /\ ModeLands /\ PauseLands /\ SnapshotFollows /\ HeldIsAsked
    BY DEF PriorityInv, Lands
  <2>1. ModeLands'
    <3>1. \A i : Newest(Queued(SettingsKey)', i) => i = n + 1
      BY <1>8 DEF Newest, Queued
    <3> QED BY <1>2, <1>7, <1>8, <3>1 DEF ModeLands, Newest
  <2>2. \A i \in Queued(OrderKey) \cup Queued(SettingsKey) : line'[i] = line[i]
    BY <1>6, <1>7 DEF Queued
  <2>3. ListLands'
    BY <1>2, <1>8, <2>0, <2>2 DEF ListLands, Newest
  <2>4. PauseLands'
    <3>1. CASE "paused" \in DOMAIN action
      <4>1. n + 1 \in WithPause'
        BY <1>7, <1>8, <3>1 DEF WithPause
      <4>2. \A i : Newest(WithPause', i) => i = n + 1
        BY <1>8, <4>1 DEF Newest, WithPause, Queued
      <4> QED BY <1>2, <1>7, <3>1, <4>1, <4>2 DEF PauseLands, Newest
    <3>2. CASE "paused" \notin DOMAIN action
      <4>1. WithPause' = WithPause
        BY <1>7, <1>8, <2>2, <3>2 DEF WithPause
      <4>2. value.paused = told.set.paused
        BY <3>2, ShownIsAsked
      <4> QED BY <1>2, <2>0, <2>2, <4>1, <4>2 DEF PauseLands, Newest, WithPause
    <3> QED BY <3>1, <3>2
  <2>6. SnapshotFollows'
    BY <1>8, <2>0 DEF SnapshotFollows
  <2>7. HeldIsAsked'
    <3>1. held'[SettingsKey].value = value
      BY <1>1, AskAppends DEF PriorityTypeOK
    <3> QED BY <1>2, <3>1 DEF HeldIsAsked
  <2> QED BY <2>1, <2>3, <2>4, <2>6, <2>7
<1>10. PowerOnTop'
  <2> SUFFICES ASSUME ~told.warned, ~told.foreign
               PROVE  /\ factory.list[1] = Power /\ snapshot.list[1] = Power
                      /\ \A i \in 1..Len(line') :
                            /\ line'[i].key = OrderKey => line'[i].action[1] = Power
                            /\ line'[i].phase = "served" => line'[i].body.list[1] = Power
    BY <1>2 DEF PowerOnTop
  <2>2. \A i \in 1..n :
            /\ line[i].key = OrderKey => line[i].action[1] = Power
            /\ line[i].phase = "served" => line[i].body.list[1] = Power
    BY <1>6 DEF PriorityInv, PowerOnTop
  <2> QED BY <1>1, <1>6, <1>7, <2>2 DEF PriorityInv, PowerOnTop
<1> QED BY <1>3, <1>5, <1>9, <1>10 DEF PriorityInv

\* Both toggles send the mode; only one sends the pause.
LEMMA ToggleKeeps == PriorityInv /\ (TogglePause \/ ToggleMode) => PriorityInv'
<1> SUFFICES ASSUME PriorityInv, TogglePause \/ ToggleMode PROVE PriorityInv'  OBVIOUS
<1>1. PICK shown \in SettingsSet : shown = Settings
  BY SettingsTyped
<1>2. CASE TogglePause
  <2>1. PICK value \in SettingsSet, action \in SettingsActions :
           /\ value = [shown EXCEPT !.paused = ~shown.paused]
           /\ action = [mode |-> shown.mode, paused |-> ~shown.paused]
    BY DEF SettingsSet, SettingsActions
  <2>2. SetMode(value, action)
    BY <1>1, <1>2, <2>1 DEF TogglePause, ModeSent
  <2>3. action.mode = value.mode /\ "paused" \in DOMAIN action /\ action.paused = value.paused
    BY <2>1 DEF SettingsSet
  <2> QED BY <2>2, <2>3, AskSettingsKeeps DEF SetMode
<1>3. CASE ToggleMode
  <2>1. OtherMode \in {"guaranteed", "share"}
    BY DEF OtherMode
  <2>2. PICK value \in SettingsSet, action \in SettingsActions :
           /\ value = [shown EXCEPT !.mode = OtherMode] /\ action = [mode |-> OtherMode]
    BY <2>1 DEF SettingsSet, SettingsActions
  <2>3. SetMode(value, action)
    BY <1>1, <1>3, <2>2 DEF ToggleMode
  <2>4. action.mode = value.mode /\ "paused" \notin DOMAIN action /\ value.paused = shown.paused
    BY <2>2 DEF SettingsSet
  <2> QED BY <1>1, <2>3, <2>4, AskSettingsKeeps DEF SetMode
<1> QED BY <1>2, <1>3

\* The list shown has power on top until a warning is answered.
LEMMA ShownOnTop ==
    ASSUME PriorityInv, ~told.warned, ~told.foreign
    PROVE  All[1] = Power
<1>1. /\ snapshot.list[1] = Power
      /\ \A i \in 1..Len(line) : line[i].key = OrderKey => line[i].action[1] = Power
  BY DEF PriorityInv, PowerOnTop
<1>2. \A i \in 1..Len(line) : line[i].key = OrderKey => line[i].value[1] = Power
  BY <1>1 DEF PriorityInv, PriorityTypeOK, IsBatch
<1>3. ShownAt(held, OrderKey, snapshot.list)[1] = Power
  <2>1. HeldKey(held, OrderKey) =>
            \E i \in 1..Len(line) : line[i].key = OrderKey /\ held[OrderKey].value = line[i].value
    BY HeldHasRequest DEF Controls
  <2> QED BY <1>1, <1>2, <2>1 DEF ShownAt
<1> QED BY <1>1, <1>3 DEF All

\* An order sent without a warning.
LEMMA CommitKeeps ==
    ASSUME PriorityInv, NEW next, CommitOrder(next), UNCHANGED <<factory, snapshot>>,
           next[1] = Power \/ told.warned \/ told.foreign
    PROVE  PriorityInv'
<1>1. told.warned \in BOOLEAN /\ Ask(OrderKey, next, next) /\ told' = [told EXCEPT !.list = next]
  BY DEF CommitOrder, PriorityInv, PriorityTypeOK
<1>2. told' = [told EXCEPT !.list = next, !.warned = told.warned]
  BY <1>1 DEF PriorityInv, PriorityTypeOK
<1> QED BY <1>1, <1>2, AskOrderKeeps

\* A move is sent, or opens the warning, which it does when power would leave the top.
LEMMA MoveKeeps ==
    ASSUME PriorityInv, NEW id, NEW to, Move(id, to), UNCHANGED <<factory, snapshot>>
    PROVE  PriorityInv'
<1>1. PICK next : next = Reordered(id, to)
  OBVIOUS
<1>2. IF NeedsConfirm(id, next) THEN UNCHANGED <<seq, held, line, told>> ELSE CommitOrder(next)
  BY <1>1 DEF Move
<1>3. CASE NeedsConfirm(id, next)
  BY <1>2, <1>3, StillKeeps
<1>4. CASE ~NeedsConfirm(id, next)
  <2>1. ~told.warned /\ ~told.foreign => next[1] = Power
    BY <1>4, ShownOnTop DEF NeedsConfirm
  <2> QED BY <1>2, <1>4, <2>1, CommitKeeps
<1> QED BY <1>3, <1>4

\* Steps, drags and the warning's two answers.
LEMMA GesturesKeep ==
    ASSUME PriorityInv,
           \/ \E id \in Entries : StepRow(id, -1) \/ StepRow(id, 1) \/ StartDrag(id)
           \/ \E to \in 1..Cardinality(Entries) : Drop(to)
           \/ CancelDrag \/ AnswerMove \/ AnswerCancel
    PROVE  PriorityInv'
<1>1. ASSUME NEW id \in Entries, StepRow(id, -1) \/ StepRow(id, 1) PROVE PriorityInv'
  <2>1. UNCHANGED <<factory, snapshot>> /\ \E to : Move(id, to)
    BY <1>1 DEF StepRow
  <2> QED BY <2>1, MoveKeeps
<1>2. ASSUME NEW id \in Entries, StartDrag(id) PROVE PriorityInv'
  BY <1>2, StillKeeps DEF StartDrag
<1>3. ASSUME NEW to \in 1..Cardinality(Entries), Drop(to) PROVE PriorityInv'
  <2>1. /\ UNCHANGED <<factory, snapshot>>
        /\ Move(drag.id, to) \/ UNCHANGED <<held, seq, line, confirm, told>>
    BY <1>3 DEF Drop
  <2> QED BY <2>1, MoveKeeps, StillKeeps
<1>4. CASE CancelDrag
  BY <1>4, StillKeeps DEF CancelDrag
<1>5. CASE AnswerMove
  <2>1. PICK next : next = confirm.next
    OBVIOUS
  <2>2. /\ Ask(OrderKey, next, next) /\ UNCHANGED <<factory, snapshot>>
        /\ told' = [told EXCEPT !.list = next, !.warned = TRUE]
    BY <1>5, <2>1 DEF AnswerMove
  <2> QED BY <2>2, AskOrderKeeps
<1>6. CASE AnswerCancel
  BY <1>6, StillKeeps DEF AnswerCancel
<1> QED BY <1>1, <1>2, <1>3, <1>4, <1>5, <1>6

----------------------------------------------------------------------------
\* The head of the line: served, refused, landed.

\* Only the phase of the head of the line changes: the queues lose it.
LEMMA HeadMoves ==
    ASSUME PriorityInv, line # <<>>, NEW b, line' = [line EXCEPT ![1] = b],
           IsBatch(b, seq), b.token = line[1].token, b.key = line[1].key,
           b.value = line[1].value, b.action = line[1].action, b.phase # "queued",
           UNCHANGED <<held, seq>>
    PROVE  /\ Len(line) \in Nat \ {0} /\ Len(line') = Len(line) /\ line' # <<>>
           /\ line'[1] = b /\ \A i \in 2..Len(line) : line'[i] = line[i]
           /\ IsSeq(line') /\ \A i \in 1..Len(line') : IsBatch(line'[i], seq')
           /\ InOrder' /\ HeldIsNewest'
           /\ \A key \in Controls : Queued(key)' = Queued(key) \ {1}
           /\ WithPause' = WithPause \ {1}
<1>1. IsSeq(line) /\ seq' = seq
  BY DEF PriorityInv, PriorityTypeOK
<1>2. PICK n \in Nat \ {0} : n = Len(line) /\ DOMAIN line = 1..n /\ line \in Seq(ToSet(line))
  BY <1>1 DEF IsSeq
<1>3. /\ IsSeq(line') /\ Len(line') = n /\ line'[1] = b
      /\ \A i \in 2..n : line'[i] = line[i]
  <2>1. line' \in [1..n -> ToSet(line) \cup {b}]
    BY <1>2
  <2>2. PICK t : t = line'
    OBVIOUS
  <2>3. PICK T : t \in [1..n -> T]
    BY <2>1, <2>2
  <2>4. IsSeq(t) /\ Len(t) = n
    BY <2>3, IsSeqFcn
  <2> QED BY <1>2, <2>2, <2>4
<1>4. line' # <<>> /\ DOMAIN line = 1..n /\ DOMAIN line' = 1..n
  BY <1>1, <1>2, <1>3 DEF IsSeq
<1>5. \A i \in 1..n : line'[i].token = line[i].token /\ line'[i].key = line[i].key
                      /\ line'[i].value = line[i].value /\ line'[i].action = line[i].action
  <2> TAKE i \in 1..n
  <2>1. CASE i = 1  BY <1>3, <2>1
  <2>2. CASE i \in 2..n  BY <1>3, <2>2
  <2> QED BY <2>1, <2>2
<1>6. \A i \in 1..n : IsBatch(line'[i], seq')
  <2> TAKE i \in 1..n
  <2>1. CASE i = 1  BY <1>1, <1>3, <2>1
  <2>2. CASE i \in 2..n  BY <1>1, <1>2, <1>3, <2>2 DEF PriorityInv, PriorityTypeOK
  <2> QED BY <2>1, <2>2
<1>7. InOrder'
  BY <1>2, <1>3, <1>5 DEF PriorityInv, InOrder
<1>8. HeldIsNewest'
  <2>1. \A key \in Controls : Unsettled(key)' = Unsettled(key)
    BY <1>4, <1>5 DEF Unsettled
  <2>2. \A key \in Controls : \A i \in Unsettled(key) :
            line'[i].token = line[i].token /\ line'[i].value = line[i].value
    BY <1>4, <1>5 DEF Unsettled
  <2> QED BY <2>1, <2>2 DEF PriorityInv, HeldIsNewest, HeldKey, Controls
<1>9. \A key \in Controls : Queued(key)' = Queued(key) \ {1}
  BY <1>2, <1>3 DEF Queued
<1>10. WithPause' = WithPause \ {1}
  BY <1>5, <1>2, <1>3, <1>9 DEF WithPause, Queued, Controls
<1> QED BY <1>2, <1>3, <1>4, <1>6, <1>7, <1>8, <1>9, <1>10

\* After a refusal only the shape, the held values and the top are promised.
LEMMA RefuseKeeps == PriorityInv /\ Refuse => PriorityInv'
<1> SUFFICES ASSUME PriorityInv, Refuse PROVE PriorityInv'  OBVIOUS
<1>1. /\ line # <<>> /\ line' = [line EXCEPT ![1].phase = "landed"]
      /\ told' = [told EXCEPT !.refused = TRUE]
      /\ UNCHANGED <<factory, snapshot, held, seq>>
  BY DEF Refuse
<1>2. IsSeq(line) /\ IsBatch(line[1], seq) /\ 1 \in DOMAIN line
  BY <1>1 DEF PriorityInv, PriorityTypeOK, IsSeq
<1>3. PICK b : b = [line[1] EXCEPT !.phase = "landed"]
  OBVIOUS
<1>4. line' = [line EXCEPT ![1] = b]
  BY <1>1, <1>2, <1>3
<1>5. /\ IsBatch(b, seq) /\ b.token = line[1].token /\ b.key = line[1].key
      /\ b.value = line[1].value /\ b.action = line[1].action /\ b.phase = "landed"
  BY <1>2, <1>3 DEF IsBatch
<1>6. /\ Len(line) \in Nat \ {0} /\ Len(line') = Len(line)
      /\ line'[1] = b /\ \A i \in 2..Len(line) : line'[i] = line[i]
      /\ IsSeq(line') /\ \A i \in 1..Len(line') : IsBatch(line'[i], seq')
      /\ InOrder' /\ HeldIsNewest'
  BY <1>1, <1>4, <1>5, HeadMoves
<1>7. /\ told' \in [list : {told'.list}, set : SettingsSet, refused : BOOLEAN,
                    foreign : BOOLEAN, warned : BOOLEAN]
      /\ told'.refused /\ told'.warned = told.warned /\ told'.foreign = told.foreign
  BY <1>1 DEF PriorityInv, PriorityTypeOK
<1>8. IsWorld(factory') /\ IsWorld(snapshot')
  BY <1>1 DEF PriorityInv, PriorityTypeOK
<1>9. PriorityTypeOK'
  BY <1>1, <1>6, <1>7, <1>8 DEF PriorityInv, PriorityTypeOK
<1>10. Lands'
  BY <1>7 DEF Lands
<1>11. PowerOnTop'
  BY <1>1, <1>5, <1>6, <1>7 DEF PriorityInv, PowerOnTop
<1> QED BY <1>6, <1>9, <1>10, <1>11 DEF PriorityInv

\* What the engine makes of the head of the line.
LEMMA AppliedIs ==
    ASSUME PriorityInv, line # <<>>, factory' = Applied(line[1])
    PROVE  /\ IsWorld(factory') /\ factory'.version = factory.version + 1
           /\ line[1].key = OrderKey =>
                  factory'.list = line[1].action /\ factory'.set = factory.set
           /\ line[1].key = SettingsKey =>
                  /\ factory'.list = factory.list
                  /\ factory'.set.mode = line[1].action.mode
                  /\ factory'.set.paused = IF "paused" \in DOMAIN line[1].action
                                           THEN line[1].action.paused ELSE factory.set.paused
<1>1. IsWorld(factory) /\ IsBatch(line[1], seq)
  BY DEF PriorityInv, PriorityTypeOK, IsSeq
<1>2. PICK n \in Nat : n = factory.version + 1
  BY <1>1 DEF IsWorld
<1>3. PICK b : b = line[1]
  OBVIOUS
<1>4. CASE b.key = OrderKey
  <2>1. PICK l : l = b.action
    OBVIOUS
  <2>2. factory' = [factory EXCEPT !.list = l, !.version = n]
    BY <1>2, <1>3, <1>4, <2>1 DEF Applied
  <2>3. OrderKey # SettingsKey
    BY DEF OrderKey, SettingsKey
  <2> QED BY <1>1, <1>2, <1>3, <1>4, <2>1, <2>2, <2>3 DEF IsWorld
<1>5. CASE b.key = SettingsKey
  <2>1. b.action \in SettingsActions /\ factory.set \in SettingsSet
    BY <1>1, <1>3, <1>5 DEF IsBatch, IsWorld
  <2>2. PICK m \in {"guaranteed", "share"}, p \in BOOLEAN :
           /\ m = b.action.mode
           /\ p = IF "paused" \in DOMAIN b.action THEN b.action.paused ELSE factory.set.paused
    BY <2>1 DEF SettingsActions, SettingsSet
  <2>3. OrderKey # SettingsKey
    BY DEF OrderKey, SettingsKey
  <2>4. factory' = [factory EXCEPT !.set.mode = m, !.version = n, !.set.paused = p]
    BY <1>1, <1>2, <1>3, <1>5, <2>2, <2>3 DEF Applied, IsWorld, SettingsSet
  <2>5. PICK l : l = factory.list
    OBVIOUS
  <2>6. PICK f \in [list : {l}, set : SettingsSet, tier : {0, 1}, version : Nat] : f = factory
    BY <1>1, <2>5 DEF IsWorld
  <2>7. PICK g : g = [f EXCEPT !.set.mode = m, !.version = n, !.set.paused = p]
    OBVIOUS
  <2>8. f \in [list : {l}, set : [mode : {"guaranteed", "share"}, paused : BOOLEAN],
               tier : {0, 1}, version : Nat]
    BY <2>6 DEF SettingsSet
  <2>9. g.version = n /\ g.list = f.list /\ g.set = [mode |-> m, paused |-> p]
    BY ONLY <2>7, <2>8, <2>2
  <2>10. g \in [list : {l}, set : [mode : {"guaranteed", "share"}, paused : BOOLEAN],
               tier : {0, 1}, version : Nat]
    BY ONLY <2>7, <2>8, <2>2
  <2>11. g = factory'
    BY <2>4, <2>6, <2>7
  <2>12. IsWorld(g)
    BY <2>9, <2>10, <2>6 DEF IsWorld, SettingsSet
  <2> QED BY <1>2, <1>3, <1>5, <2>2, <2>3, <2>5, <2>6, <2>9, <2>11, <2>12
<1> QED BY <1>1, <1>3, <1>4, <1>5 DEF IsBatch, Controls

\* The server applies the head: what is left of a queue still ends in what was asked last.
LEMMA ServeKeeps == PriorityInv /\ Serve => PriorityInv'
<1> SUFFICES ASSUME PriorityInv, Serve PROVE PriorityInv'  OBVIOUS
<1>1. /\ line # <<>> /\ line[1].phase = "queued" /\ factory' = Applied(line[1])
      /\ line' = [line EXCEPT ![1].phase = "served", ![1].body = factory', ![1].adopted = TRUE]
      /\ UNCHANGED <<snapshot, held, seq, told>>
  BY DEF Serve
<1>2. IsSeq(line) /\ IsBatch(line[1], seq) /\ 1 \in DOMAIN line
  BY <1>1 DEF PriorityInv, PriorityTypeOK, IsSeq
<1>3. PICK w : w = factory' /\ IsWorld(w)
  BY <1>1, AppliedIs
<1>4. PICK b : b = [line[1] EXCEPT !.phase = "served", !.body = w, !.adopted = TRUE]
  OBVIOUS
<1>5. line' = [line EXCEPT ![1] = b]
  BY <1>1, <1>2, <1>3, <1>4
<1>6. /\ IsBatch(b, seq) /\ b.token = line[1].token /\ b.key = line[1].key
      /\ b.value = line[1].value /\ b.action = line[1].action /\ b.phase = "served"
      /\ b.body = w
  BY <1>2, <1>3, <1>4 DEF IsBatch
<1>7. /\ Len(line) \in Nat \ {0} /\ Len(line') = Len(line) /\ line' # <<>>
      /\ line'[1] = b /\ \A i \in 2..Len(line) : line'[i] = line[i]
      /\ IsSeq(line') /\ \A i \in 1..Len(line') : IsBatch(line'[i], seq')
      /\ InOrder' /\ HeldIsNewest'
      /\ \A key \in Controls : Queued(key)' = Queued(key) \ {1}
      /\ WithPause' = WithPause \ {1}
  BY <1>1, <1>5, <1>6, HeadMoves
<1>8. /\ factory'.version = factory.version + 1
      /\ line[1].key = OrderKey => factory'.list = line[1].action /\ factory'.set = factory.set
      /\ line[1].key = SettingsKey =>
             /\ factory'.list = factory.list
             /\ factory'.set.mode = line[1].action.mode
             /\ factory'.set.paused = IF "paused" \in DOMAIN line[1].action
                                      THEN line[1].action.paused ELSE factory.set.paused
      /\ factory.version \in Nat /\ snapshot.version \in Nat
      /\ line[1].key \in Controls /\ OrderKey # SettingsKey
      /\ OrderKey \in Controls /\ SettingsKey \in Controls
  BY <1>1, <1>2, AppliedIs
     DEF PriorityInv, PriorityTypeOK, IsWorld, IsBatch, Controls, OrderKey, SettingsKey
<1>9. PriorityTypeOK'
  <2>1. IsWorld(factory') /\ IsWorld(snapshot')
    BY <1>1, <1>3 DEF PriorityInv, PriorityTypeOK
  <2> QED BY <1>1, <1>7, <2>1 DEF PriorityInv, PriorityTypeOK
<1>10. Lands'
  <2> SUFFICES ASSUME ~told.foreign, ~told.refused
               PROVE  (ListLands /\ ModeLands /\ PauseLands /\ SnapshotFollows /\ HeldIsAsked)'
    BY <1>1 DEF Lands
  <2>0. ListLands /\ ModeLands /\ PauseLands /\ SnapshotFollows /\ HeldIsAsked
    BY DEF PriorityInv, Lands
  <2>1. \A i \in 1..Len(line) : line'[i].action = line[i].action
    <3> TAKE i \in 1..Len(line)
    <3>1. CASE i = 1  BY <1>6, <1>7, <3>1
    <3>2. CASE i \in 2..Len(line)  BY <1>7, <3>2
    <3> QED BY <1>7, <3>1, <3>2
  <2>2. \A key \in Controls : line[1].key = key <=> 1 \in Queued(key)
    BY <1>1, <1>7 DEF Queued
  <2>3. \A S \in {Queued(OrderKey), Queued(SettingsKey), WithPause} :
            /\ S \subseteq 1..Len(line)
            /\ 1 \in S /\ S \ {1} = {} => Newest(S, 1)
            /\ \A i : Newest(S \ {1}, i) => Newest(S, i)
    <3>1. \A S \in {Queued(OrderKey), Queued(SettingsKey), WithPause} : S \subseteq 1..Len(line)
      BY DEF Queued, WithPause
    <3> QED BY <1>7, <3>1 DEF Newest
  <2>4. told' = told
    BY <1>1
  <2>5. ListLands'
    <3>1. \A i : Newest(Queued(OrderKey)', i) => line'[i].action = told.list
      BY <1>7, <1>8, <2>0, <2>1, <2>3 DEF ListLands, Newest
    <3>2. Queued(OrderKey)' = {} => factory'.list = told.list
      <4>1. CASE line[1].key = OrderKey
        BY <1>7, <1>8, <2>0, <2>2, <2>3, <4>1 DEF ListLands
      <4>2. CASE line[1].key = SettingsKey
        <5>1. Queued(OrderKey)' = Queued(OrderKey)
          <6>1. 1 \notin Queued(OrderKey)
            BY <1>8, <2>2, <4>2
          <6>2. Queued(OrderKey)' = Queued(OrderKey) \ {1}
            BY <1>7, <1>8
          <6> QED BY <6>1, <6>2
        <5> QED BY <1>8, <2>0, <4>2, <5>1 DEF ListLands
      <4> QED BY <1>8, <4>1, <4>2 DEF Controls
    <3> QED BY <2>4, <3>1, <3>2 DEF ListLands
  <2>6. ModeLands'
    <3>1. \A i : Newest(Queued(SettingsKey)', i) => line'[i].action.mode = told.set.mode
      BY <1>7, <1>8, <2>0, <2>1, <2>3 DEF ModeLands, Newest
    <3>2. Queued(SettingsKey)' = {} => factory'.set.mode = told.set.mode
      <4>1. CASE line[1].key = SettingsKey
        BY <1>7, <1>8, <2>0, <2>2, <2>3, <4>1 DEF ModeLands
      <4>2. CASE line[1].key = OrderKey
        <5>1. Queued(SettingsKey)' = Queued(SettingsKey)
          <6>1. 1 \notin Queued(SettingsKey)
            BY <1>8, <2>2, <4>2
          <6>2. Queued(SettingsKey)' = Queued(SettingsKey) \ {1}
            BY <1>7, <1>8
          <6> QED BY <6>1, <6>2
        <5> QED BY <1>8, <2>0, <4>2, <5>1 DEF ModeLands
      <4> QED BY <1>8, <4>1, <4>2 DEF Controls
    <3> QED BY <2>4, <3>1, <3>2 DEF ModeLands
  <2>7. PauseLands'
    <3>1. \A i : Newest(WithPause', i) => line'[i].action.paused = told.set.paused
      BY <1>7, <2>0, <2>1, <2>3 DEF PauseLands, Newest
    <3>2. WithPause' = {} => factory'.set.paused = told.set.paused
      <4>1. CASE 1 \in WithPause
        <5>1. line[1].key = SettingsKey /\ "paused" \in DOMAIN line[1].action
          BY <4>1 DEF WithPause, Queued
        <5> QED BY <1>7, <1>8, <2>0, <2>3, <4>1, <5>1 DEF PauseLands
      <4>2. CASE 1 \notin WithPause
        <5>1. WithPause' = WithPause
          BY <1>7, <4>2
        <5>2. line[1].key = SettingsKey => "paused" \notin DOMAIN line[1].action
          BY <1>8, <2>2, <4>2 DEF WithPause
        <5>3. factory'.set.paused = factory.set.paused
          BY <1>8, <5>2 DEF Controls
        <5> QED BY <2>0, <5>1, <5>3 DEF PauseLands
      <4> QED BY <4>1, <4>2
    <3> QED BY <2>4, <3>1, <3>2 DEF PauseLands
  <2>8. SnapshotFollows'
    <3>1. line'[1].body = factory' /\ line'[1].phase = "served" /\ line'[1].key = line[1].key
      BY <1>3, <1>6, <1>7
    <3>2. snapshot' = snapshot /\ snapshot.version <= factory.version /\ snapshot.set = factory.set
      BY <1>1, <2>0 DEF SnapshotFollows
    <3>3. snapshot.set # factory'.set => line[1].key = SettingsKey
      BY <1>8, <3>2 DEF Controls
    <3> QED BY <1>7, <1>8, <3>1, <3>2, <3>3 DEF SnapshotFollows
  <2>9. HeldIsAsked'
    BY <1>1, <2>0 DEF HeldIsAsked, HeldKey
  <2> QED BY <2>5, <2>6, <2>7, <2>8, <2>9
<1>11. PowerOnTop'
  <2> SUFFICES ASSUME ~told.warned, ~told.foreign
               PROVE  /\ factory'.list[1] = Power /\ snapshot.list[1] = Power
                      /\ \A i \in 1..Len(line') :
                            /\ line'[i].key = OrderKey => line'[i].action[1] = Power
                            /\ line'[i].phase = "served" => line'[i].body.list[1] = Power
    BY <1>1 DEF PowerOnTop
  <2>1. /\ factory.list[1] = Power /\ snapshot.list[1] = Power
        /\ \A i \in 1..Len(line) :
              /\ line[i].key = OrderKey => line[i].action[1] = Power
              /\ line[i].phase = "served" => line[i].body.list[1] = Power
    BY DEF PriorityInv, PowerOnTop
  <2>2. 1 \in 1..Len(line)
    BY <1>7
  <2>3. factory'.list[1] = Power
    BY <1>8, <2>1, <2>2 DEF Controls
  <2>4. \A i \in 1..Len(line') :
            /\ line'[i].key = OrderKey => line'[i].action[1] = Power
            /\ line'[i].phase = "served" => line'[i].body.list[1] = Power
    <3> TAKE i \in 1..Len(line')
    <3>1. CASE i = 1  BY <1>3, <1>6, <1>7, <2>1, <2>2, <2>3, <3>1
    <3>2. CASE i \in 2..Len(line)  BY <1>7, <2>1, <3>2
    <3> QED BY <1>7, <3>1, <3>2
  <2> QED BY <2>1, <2>3, <2>4
<1> QED BY <1>7, <1>9, <1>10, <1>11 DEF PriorityInv

\* The answer is adopted unless a newer one was: the snapshot has caught up either way.
LEMMA LandKeeps == PriorityInv /\ Land => PriorityInv'
<1> SUFFICES ASSUME PriorityInv, Land PROVE PriorityInv'  OBVIOUS
<1>1. /\ line # <<>> /\ line[1].phase = "served"
      /\ snapshot' = IF NotOlder(line[1].body) THEN line[1].body ELSE snapshot
      /\ line' = [line EXCEPT ![1].phase = "landed"]
      /\ UNCHANGED <<factory, held, seq, told>>
  BY DEF Land
<1>2. IsSeq(line) /\ IsBatch(line[1], seq) /\ 1 \in DOMAIN line /\ 1 \in 1..Len(line)
  BY <1>1 DEF PriorityInv, PriorityTypeOK, IsSeq
<1>3. PICK b : b = [line[1] EXCEPT !.phase = "landed"]
  OBVIOUS
<1>4. line' = [line EXCEPT ![1] = b]
  BY <1>1, <1>2, <1>3
<1>5. /\ IsBatch(b, seq) /\ b.token = line[1].token /\ b.key = line[1].key
      /\ b.value = line[1].value /\ b.action = line[1].action /\ b.phase = "landed"
  BY <1>2, <1>3 DEF IsBatch
<1>6. /\ Len(line) \in Nat \ {0} /\ Len(line') = Len(line) /\ line' # <<>>
      /\ line'[1] = b /\ \A i \in 2..Len(line) : line'[i] = line[i]
      /\ IsSeq(line') /\ \A i \in 1..Len(line') : IsBatch(line'[i], seq')
      /\ InOrder' /\ HeldIsNewest'
      /\ \A key \in Controls : Queued(key)' = Queued(key) \ {1}
      /\ WithPause' = WithPause \ {1}
  BY <1>1, <1>4, <1>5, HeadMoves
<1>7. /\ IsWorld(snapshot) /\ IsWorld(factory) /\ IsWorld(line[1].body)
  BY <1>1, <1>2 DEF PriorityInv, PriorityTypeOK, IsBatch
<1>8. /\ snapshot.version \in Nat /\ line[1].body.version \in Nat /\ factory.version \in Nat
      /\ IsWorld(snapshot') /\ IsWorld(factory')
      /\ line[1].body.version >= snapshot.version => snapshot' = line[1].body
      /\ ~(line[1].body.version >= snapshot.version) => snapshot' = snapshot
  BY <1>1, <1>7 DEF IsWorld, NotOlder
<1>9. PriorityTypeOK'
  BY <1>1, <1>6, <1>8 DEF PriorityInv, PriorityTypeOK
<1>10. Queued(OrderKey)' = Queued(OrderKey) /\ Queued(SettingsKey)' = Queued(SettingsKey)
       /\ WithPause' = WithPause
  <2>1. 1 \notin Queued(OrderKey) /\ 1 \notin Queued(SettingsKey) /\ 1 \notin WithPause
    BY <1>1 DEF Queued, WithPause
  <2>2. OrderKey \in Controls /\ SettingsKey \in Controls
    BY DEF Controls
  <2>3. /\ Queued(OrderKey)' = Queued(OrderKey) \ {1}
        /\ Queued(SettingsKey)' = Queued(SettingsKey) \ {1}
    BY <1>6, <2>2
  <2> QED BY <1>6, <2>1, <2>3
<1>11. \A i \in Queued(OrderKey) \cup Queued(SettingsKey) \cup WithPause : line'[i] = line[i]
  <2>1. \A i \in Queued(OrderKey) \cup Queued(SettingsKey) \cup WithPause :
           i \in 1..Len(line) /\ i # 1
    BY <1>1 DEF Queued, WithPause
  <2> QED BY <1>6, <2>1
<1>12. Lands'
  <2> SUFFICES ASSUME ~told.foreign, ~told.refused
               PROVE  (ListLands /\ ModeLands /\ PauseLands /\ SnapshotFollows /\ HeldIsAsked)'
    BY <1>1 DEF Lands
  <2>0. ListLands /\ ModeLands /\ PauseLands /\ SnapshotFollows /\ HeldIsAsked
    BY DEF PriorityInv, Lands
  <2>1. ListLands'
    BY <1>1, <1>10, <1>11, <2>0 DEF ListLands, Newest
  <2>2. ModeLands'
    BY <1>1, <1>10, <1>11, <2>0 DEF ModeLands, Newest
  <2>3. PauseLands'
    BY <1>1, <1>10, <1>11, <2>0 DEF PauseLands, Newest
  <2>4. SnapshotFollows'
    <3>1. line'[1].phase # "served"
      BY <1>5, <1>6
    <3>2. snapshot'.set = factory.set /\ snapshot'.version <= factory.version
      BY <1>1, <1>8, <2>0 DEF SnapshotFollows
    <3> QED BY <1>1, <3>1, <3>2 DEF SnapshotFollows
  <2>5. HeldIsAsked'
    BY <1>1, <2>0 DEF HeldIsAsked, HeldKey
  <2> QED BY <2>1, <2>2, <2>3, <2>4, <2>5
<1>13. PowerOnTop'
  <2> SUFFICES ASSUME ~told.warned, ~told.foreign
               PROVE  /\ factory.list[1] = Power /\ snapshot'.list[1] = Power
                      /\ \A i \in 1..Len(line') :
                            /\ line'[i].key = OrderKey => line'[i].action[1] = Power
                            /\ line'[i].phase = "served" => line'[i].body.list[1] = Power
    BY <1>1 DEF PowerOnTop
  <2>1. /\ factory.list[1] = Power /\ snapshot.list[1] = Power
        /\ \A i \in 1..Len(line) :
              /\ line[i].key = OrderKey => line[i].action[1] = Power
              /\ line[i].phase = "served" => line[i].body.list[1] = Power
    BY DEF PriorityInv, PowerOnTop
  <2>2. snapshot'.list[1] = Power
    BY <1>1, <1>2, <2>1
  <2>3. \A i \in 1..Len(line') :
            /\ line'[i].key = OrderKey => line'[i].action[1] = Power
            /\ line'[i].phase = "served" => line'[i].body.list[1] = Power
    <3> TAKE i \in 1..Len(line')
    <3>1. CASE i = 1  BY <1>2, <1>5, <1>6, <2>1, <3>1
    <3>2. CASE i \in 2..Len(line)  BY <1>6, <2>1, <3>2
    <3> QED BY <1>6, <3>1, <3>2
  <2> QED BY <2>1, <2>2, <2>3
<1> QED BY <1>6, <1>9, <1>12, <1>13 DEF PriorityInv

----------------------------------------------------------------------------

\* Only the newest request of a control lets its value go.
LEMMA SettleKeeps == PriorityInv /\ Settle => PriorityInv'
<1> SUFFICES ASSUME PriorityInv, Settle PROVE PriorityInv'  OBVIOUS
<1>1. /\ line # <<>> /\ line[1].phase = "landed"
      /\ held' = Releasing(held, line[1].key, line[1].token)
      /\ line' = Tail(line)
      /\ UNCHANGED <<factory, snapshot, seq, told>>
  BY DEF Settle
<1>2. IsSeq(line)
  BY DEF PriorityInv, PriorityTypeOK
<1>3. PICK n \in Nat : Len(line) = n + 1
  BY <1>1, <1>2, TailIs
<1>4. /\ IsSeq(line') /\ Len(line') = n /\ \A i \in 1..n : line'[i] = line[i + 1]
  BY <1>1, <1>2, <1>3, TailIs
<1>5. DOMAIN line = 1..(n + 1) /\ DOMAIN line' = 1..n
  BY <1>2, <1>3, <1>4 DEF IsSeq
<1>6. PICK b : b = line[1] /\ IsBatch(b, seq)
  BY <1>3 DEF PriorityInv, PriorityTypeOK
<1>7. /\ DOMAIN held = Controls /\ b.key \in Controls
      /\ held' = IF held[b.key].token = b.token THEN [held EXCEPT ![b.key] = NotHeld] ELSE held
  BY <1>1, <1>6 DEF PriorityInv, PriorityTypeOK, Releasing, IsBatch
<1>8. \A i \in 1..n : IsBatch(line'[i], seq')
  <2> TAKE i \in 1..n
  <2>1. i + 1 \in 1..Len(line)
    BY <1>3
  <2> QED BY <1>1, <1>4, <2>1 DEF PriorityInv, PriorityTypeOK
<1>9. PriorityTypeOK'
  <2>1. IsWorld(factory') /\ IsWorld(snapshot') /\ DOMAIN held' = Controls
    BY <1>1, <1>7 DEF PriorityInv, PriorityTypeOK
  <2> QED BY <1>1, <1>4, <1>8, <2>1 DEF PriorityInv, PriorityTypeOK
<1>10. InOrder'
  <2>1. \A i, j \in 1..n : i < j => line'[i].token < line'[j].token
    <3> TAKE i, j \in 1..n
    <3>1. i + 1 \in 1..Len(line) /\ j + 1 \in 1..Len(line) /\ (i < j => i + 1 < j + 1)
      BY <1>3
    <3> QED BY <1>4, <3>1 DEF PriorityInv, InOrder
  <2>2. \A i \in 1..n : line'[i].phase = "queued"
    <3> TAKE i \in 1..n
    <3>1. i + 1 \in 2..Len(line)
      BY <1>3
    <3> QED BY <1>4, <3>1 DEF PriorityInv, InOrder
  <2> QED BY <1>4, <2>1, <2>2 DEF InOrder
<1>11. HeldIsNewest'
  <2> SUFFICES ASSUME NEW key \in Controls
               PROVE  IF Unsettled(key)' = {} THEN ~HeldKey(held', key)
                      ELSE \E i \in Unsettled(key)' :
                              /\ \A j \in Unsettled(key)' : j <= i
                              /\ held'[key] = [value |-> line'[i].value, token |-> line'[i].token]
    BY DEF HeldIsNewest, Controls
  <2>1. \A i \in 1..n : i \in Unsettled(key)' <=> i + 1 \in Unsettled(key)
    BY <1>3, <1>4, <1>5 DEF Unsettled
  <2>2. Unsettled(key)' \subseteq 1..n /\ Unsettled(key) \subseteq 1..(n + 1)
    BY <1>5 DEF Unsettled
  <2>3. 1 \in Unsettled(key) <=> b.key = key
    BY <1>3, <1>5, <1>6 DEF Unsettled
  <2>4. CASE Unsettled(key) = {}
    <3>1. Unsettled(key)' = {} /\ b.key # key
      BY <2>1, <2>2, <2>3, <2>4
    <3>2. held'[key] = held[key]
      BY <1>7, <3>1
    <3>3. ~HeldKey(held, key)
      BY <2>4 DEF PriorityInv, HeldIsNewest, Controls
    <3> QED BY <3>1, <3>2, <3>3 DEF HeldKey
  <2>5. CASE Unsettled(key) # {}
    <3>1. PICK k \in Unsettled(key) :
             /\ \A j \in Unsettled(key) : j <= k
             /\ held[key] = [value |-> line[k].value, token |-> line[k].token]
      BY <2>5 DEF PriorityInv, HeldIsNewest, Controls
    <3>2. k \in 1..(n + 1)
      BY <2>2, <3>1
    <3>3. CASE k = 1
      <4>1. Unsettled(key)' = {}
        BY <2>1, <2>2, <3>1, <3>3
      <4>2. b.key = key /\ held[key].token = b.token
        BY <1>6, <2>3, <3>1, <3>3
      <4>3. held'[key] = NotHeld
        BY <1>7, <4>2
      <4> QED BY <4>1, <4>3 DEF HeldKey, NotHeld
    <3>4. CASE k # 1
      <4>1. PICK i \in 1..n : k = i + 1
        BY <3>2, <3>4
      <4>2. i \in Unsettled(key)' /\ \A j \in Unsettled(key)' : j <= i
        BY <2>1, <2>2, <3>1, <4>1
      <4>3. held'[key] = held[key]
        <5>1. b.token < line[k].token /\ b.token \in Nat
          BY <1>3, <1>6, <3>2, <3>4 DEF PriorityInv, InOrder, IsBatch, PriorityTypeOK
        <5>2. line[k].token \in Nat /\ held[key].token = line[k].token
          BY <1>3, <3>1, <3>2 DEF PriorityInv, PriorityTypeOK, IsBatch
        <5>3. held[key].token # b.token
          BY <5>1, <5>2
        <5> QED BY <1>7, <5>3
      <4>4. line'[i] = line[k]
        BY <1>4, <4>1
      <4> QED BY <3>1, <4>2, <4>3, <4>4
    <3> QED BY <3>3, <3>4
  <2> QED BY <2>4, <2>5
<1>12. /\ \A key \in Controls : \A i \in 1..n : i \in Queued(key)' <=> i + 1 \in Queued(key)
       /\ \A i \in 1..n : i \in WithPause' <=> i + 1 \in WithPause
       /\ \A key \in Controls : Queued(key)' \subseteq 1..n /\ Queued(key) \subseteq 2..(n + 1)
       /\ WithPause' \subseteq 1..n /\ WithPause \subseteq 2..(n + 1)
  <2>1. \A key \in Controls : \A i \in 1..n : i \in Queued(key)' <=> i + 1 \in Queued(key)
    BY <1>3, <1>4 DEF Queued
  <2>2. \A key \in Controls : Queued(key)' \subseteq 1..n /\ Queued(key) \subseteq 2..(n + 1)
    BY <1>1, <1>3, <1>4 DEF Queued
  <2>3. \A i \in 1..n : i \in WithPause' <=> i + 1 \in WithPause
    BY <1>4, <2>1 DEF WithPause, Controls
  <2>4. WithPause' \subseteq 1..n /\ WithPause \subseteq 2..(n + 1)
    BY <2>2 DEF WithPause, Controls
  <2> QED BY <2>1, <2>2, <2>3, <2>4
<1>13. Lands'
  <2> SUFFICES ASSUME ~told.foreign, ~told.refused
               PROVE  (ListLands /\ ModeLands /\ PauseLands /\ SnapshotFollows /\ HeldIsAsked)'
    BY <1>1 DEF Lands
  <2>0. ListLands /\ ModeLands /\ PauseLands /\ SnapshotFollows /\ HeldIsAsked
    BY DEF PriorityInv, Lands
  <2>1. ASSUME NEW S, NEW R, S \subseteq 2..(n + 1), R \subseteq 1..n,
               \A i \in 1..n : i \in R <=> i + 1 \in S
        PROVE  /\ R = {} => S = {}
               /\ \A i : Newest(R, i) => i \in 1..n /\ Newest(S, i + 1)
    <3>1. \A k \in S : \E i \in 1..n : k = i + 1 /\ i \in R
      <4> TAKE k \in S
      <4>1. k \in 2..(n + 1) /\ k - 1 \in 1..n /\ k = (k - 1) + 1
        BY <2>1
      <4> QED BY <2>1, <4>1
    <3>2. R = {} => S = {}
      BY <3>1
    <3>3. ASSUME NEW i, Newest(R, i) PROVE i \in 1..n /\ Newest(S, i + 1)
      <4>1. i \in 1..n /\ i + 1 \in S /\ \A j \in R : j <= i
        BY <2>1, <3>3 DEF Newest
      <4>2. \A k \in S : k <= i + 1
        BY <3>1, <4>1
      <4> QED BY <4>1, <4>2 DEF Newest
    <3> QED BY <3>2, <3>3
  <2>2. OrderKey \in Controls /\ SettingsKey \in Controls /\ told' = told /\ factory' = factory
    BY <1>1 DEF Controls
  <2>3. ListLands'
    <3>1. /\ Queued(OrderKey)' = {} => Queued(OrderKey) = {}
          /\ \A i : Newest(Queued(OrderKey)', i) => i \in 1..n /\ Newest(Queued(OrderKey), i + 1)
      BY <1>12, <2>1, <2>2
    <3> QED BY <1>4, <2>0, <2>2, <3>1 DEF ListLands
  <2>4. ModeLands'
    <3>1. /\ Queued(SettingsKey)' = {} => Queued(SettingsKey) = {}
          /\ \A i : Newest(Queued(SettingsKey)', i)
                        => i \in 1..n /\ Newest(Queued(SettingsKey), i + 1)
      BY <1>12, <2>1, <2>2
    <3> QED BY <1>4, <2>0, <2>2, <3>1 DEF ModeLands
  <2>5. PauseLands'
    <3>1. /\ WithPause' = {} => WithPause = {}
          /\ \A i : Newest(WithPause', i) => i \in 1..n /\ Newest(WithPause, i + 1)
      BY <1>12, <2>1
    <3> QED BY <1>4, <2>0, <2>2, <3>1 DEF PauseLands
  <2>6. SnapshotFollows'
    <3>1. snapshot'.set = factory.set /\ snapshot'.version <= factory.version
      BY <1>1, <2>0 DEF SnapshotFollows
    <3>2. line' # <<>> => line'[1].phase # "served"
      <4>1. line' # <<>> => 1 \in 1..n /\ 2 \in 2..Len(line)
        BY <1>3, <1>4 DEF IsSeq
      <4> QED BY <1>4, <4>1 DEF PriorityInv, InOrder
    <3> QED BY <1>1, <3>1, <3>2 DEF SnapshotFollows
  <2>7. HeldIsAsked'
    <3>1. held'[SettingsKey] = held[SettingsKey] \/ held'[SettingsKey] = NotHeld
      BY <1>7, <2>2
    <3> QED BY <1>1, <2>0, <3>1 DEF HeldIsAsked, HeldKey, NotHeld
  <2> QED BY <2>3, <2>4, <2>5, <2>6, <2>7
<1>14. PowerOnTop'
  <2>1. \A i \in 1..n : i + 1 \in 1..Len(line)
    BY <1>3
  <2> QED BY <1>1, <1>4, <2>1 DEF PriorityInv, PowerOnTop
<1> QED BY <1>9, <1>10, <1>11, <1>13, <1>14 DEF PriorityInv

\* Every step of the page and of the server keeps the invariant.
LEMMA PriorityKeepsInv == PriorityInv /\ [PriorityNext]_priorities => PriorityInv'
<1> SUFFICES ASSUME PriorityInv, [PriorityNext]_priorities PROVE PriorityInv'  OBVIOUS
<1>1. CASE UNCHANGED priorities
  BY <1>1, StillKeeps DEF priorities
<1>2. CASE PriorityNext
  BY <1>2, GesturesKeep, ToggleKeeps, ServeKeeps, RefuseKeeps, ForeignKeeps, TierUpKeeps,
     RefreshKeeps, LandKeeps, SettleKeeps DEF PriorityNext
<1> QED BY <1>1, <1>2

\* use-pending.ts, PriorityList.tsx:160-213, actions/economy.ts:21-81: for any entries and any number
\* of requests, a control shows the newest of its unsettled requests, the server ends up with what
\* was asked last, and power leaves the top only behind the warning.
THEOREM AskedAlwaysHolds == PrioritySpec => []AskedHolds
<1>1. PriorityInv => AskedHolds
  <2> SUFFICES ASSUME PriorityInv PROVE AskedHolds  OBVIOUS
  <2>1. line = <<>> => Queued(OrderKey) = {} /\ Queued(SettingsKey) = {} /\ WithPause = {}
    BY DEF Queued, WithPause
  <2>2. ASSUME line = <<>>, ~told.foreign, ~told.refused
        PROVE  factory.list = told.list /\ factory.set = told.set
    <3>1. ListLands /\ ModeLands /\ PauseLands
      BY <2>2 DEF PriorityInv, Lands
    <3>2. factory.set \in SettingsSet /\ told.set \in SettingsSet
      BY DEF PriorityInv, PriorityTypeOK, IsWorld
    <3> QED BY <2>1, <2>2, <3>1, <3>2 DEF ListLands, ModeLands, PauseLands, SettingsSet
  <2>3. PowerLeavesWarned
    BY DEF PriorityInv, PowerOnTop, PowerLeavesWarned
  <2> QED BY <2>2, <2>3 DEF AskedHolds, AskedLands, PriorityInv
<1>2. (\E list \in Seq(Entries) : list # <<>> /\ list[1] = Power /\ PriorityInit(list))
        => PriorityInv
  BY PriorityInitHolds
<1> QED BY <1>1, <1>2, PriorityKeepsInv, PTL DEF PrioritySpec

----------------------------------------------------------------------------
\* What moves in the list: the order of its entries, and nothing else.

\* A list of distinct entries.
Distinct(l) == IsSeq(l) /\ \A i, j \in 1..Len(l) : l[i] = l[j] => i = j

\* Places number the visible indices from 1, each once.
LEMMA PlacesAre ==
    ASSUME NEW n \in Nat, NEW V \in SUBSET (1..n)
    PROVE  /\ Cardinality(V) \in Nat
           /\ \A i \in V : Place(V, i) \in 1..Cardinality(V)
           /\ \A i, j \in V : Place(V, i) = Place(V, j) => i = j
           /\ \A k \in 1..Cardinality(V) : \E i \in V : Place(V, i) = k
<1>1. IsFiniteSet(V) /\ Cardinality(V) \in Nat
  <2>1. PICK S : S = 1..n /\ V \in SUBSET S
    OBVIOUS
  <2>2. IsFiniteSet(S)
    BY <2>1, FS_Interval
  <2> QED BY <2>1, <2>2, FS_Subset, FS_CardinalityType
<1>2. PICK N \in Nat : N = Cardinality(V)
  BY <1>1
<1>3. \A i \in V : Place(V, i) \in 1..N
  <2> TAKE i \in V
  <2>1. PICK S : S = {j \in V : j <= i}
    OBVIOUS
  <2>2. S \in SUBSET V /\ i \in S
    BY <2>1
  <2>3. IsFiniteSet(S) /\ Cardinality(S) <= N
    BY <1>1, <1>2, <2>2, FS_Subset
  <2>4. Cardinality(S) \in Nat /\ Cardinality(S) # 0
    BY <2>2, <2>3, FS_CardinalityType, FS_EmptySet
  <2> QED BY <1>2, <2>1, <2>3, <2>4 DEF Place
<1>4. ASSUME NEW i \in V, NEW j \in V, i < j PROVE Place(V, i) # Place(V, j)
  <2>1. PICK S, T : S = {h \in V : h <= i} /\ T = {h \in V : h <= j}
    OBVIOUS
  <2>2. i \in Nat /\ j \in Nat /\ \A h \in V : h \in Nat
    OBVIOUS
  <2>20. S \in SUBSET T /\ j \in T /\ j \notin S /\ T \in SUBSET V
    <3>1. \A h \in V : h <= i => h <= j
      BY <1>4, <2>2
    <3>2. j <= j /\ ~(j <= i)
      BY <1>4, <2>2
    <3> QED BY <2>1, <3>1, <3>2
  <2>3. IsFiniteSet(T)
    BY <1>1, <2>20, FS_Subset
  <2>4. Cardinality(S) # Cardinality(T)
    BY <2>20, <2>3, FS_Subset
  <2> QED BY <2>1, <2>4 DEF Place
<1>5. \A i, j \in V : Place(V, i) = Place(V, j) => i = j
  <2> TAKE i, j \in V
  <2>1. i < j \/ j < i \/ i = j
    OBVIOUS
  <2> QED BY <1>4, <2>1
<1>6. PICK f : f = [i \in V |-> Place(V, i)]
  OBVIOUS
<1>7. PICK J : J = 1..N
  OBVIOUS
<1>8. f \in Injection(V, J)
  BY <1>3, <1>5, <1>6, <1>7 DEF Injection, IsInjective
<1>9. IsFiniteSet(J) /\ Cardinality(J) = Cardinality(V)
  BY <1>2, <1>7, FS_Interval
<1>10. f \in Surjection(V, J)
  BY <1>8, <1>9, FS_Injection
<1>11. \A k \in J : \E i \in V : Place(V, i) = k
  BY <1>6, <1>10 DEF Surjection
<1> QED BY <1>2, <1>3, <1>5, <1>7, <1>11

\* Where the row at index i of the moved list was, the one at k having gone to index to.
From(k, to, i) ==
    IF i = to THEN k
    ELSE IF i < to THEN (IF i < k THEN i ELSE i + 1)
         ELSE (IF i - 1 < k THEN i - 1 ELSE i)

\* Moving back undoes a move.
LEMMA FromIs ==
    ASSUME NEW n \in Nat, NEW k \in 1..n, NEW to \in 1..n, NEW i \in 1..n
    PROVE  From(k, to, i) \in 1..n /\ From(to, k, From(k, to, i)) = i
BY DEF From

\* The move of a row, index by index.
LEMMA MovedIs ==
    ASSUME NEW T, NEW s \in Seq(T), NEW k \in 1..Len(s), NEW to \in 1..Len(s)
    PROVE  \A i \in 1..Len(s) : InsertAt(RemoveAt(s, k), to, s[k])[i] = s[From(k, to, i)]
<1>1. PICK n \in Nat : n = Len(s)
  OBVIOUS
<1>2. PICK x \in T : x = s[k]
  BY <1>1
<1>3. PICK r : r = RemoveAt(s, k)
  OBVIOUS
<1>4. r \in Seq(T) /\ Len(r) = n - 1 /\ \A i \in 1..(n - 1) : r[i] = IF i < k THEN s[i] ELSE s[i + 1]
  <2>1. PICK u, v : u = SubSeq(s, 1, k - 1) /\ v = SubSeq(s, k + 1, n)
    OBVIOUS
  <2>2. /\ u \in Seq(T) /\ Len(u) = k - 1 /\ \A i \in 1..(k - 1) : u[i] = s[i]
        /\ v \in Seq(T) /\ Len(v) = n - k /\ \A i \in 1..(n - k) : v[i] = s[i + k]
    <3>1. \A i \in 1..n : s[i] \in T
      BY <1>1
    <3>2. /\ u \in Seq(T) /\ Len(u) = IF 1 <= k - 1 THEN (k - 1) - 1 + 1 ELSE 0
          /\ \A i \in 1..((k - 1) - 1 + 1) : u[i] = s[1 + i - 1]
      <4>1. k - 1 \in Int /\ \A i \in 1..(k - 1) : s[i] \in T
        BY <1>1, <3>1
      <4> QED BY <2>1, <4>1, SubSeqProperties
    <3>3. /\ v \in Seq(T) /\ Len(v) = IF k + 1 <= n THEN n - (k + 1) + 1 ELSE 0
          /\ \A i \in 1..(n - (k + 1) + 1) : v[i] = s[(k + 1) + i - 1]
      <4>1. k + 1 \in Int /\ n \in Int /\ \A i \in (k + 1)..n : s[i] \in T
        BY <1>1, <3>1
      <4> QED BY <2>1, <4>1, SubSeqProperties
    <3> QED BY <1>1, <3>2, <3>3
  <2>3. r = u \o v
    BY <1>1, <1>3, <2>1 DEF RemoveAt
  <2>4. /\ r \in Seq(T) /\ Len(r) = Len(u) + Len(v)
        /\ \A i \in 1..(Len(u) + Len(v)) : r[i] = IF i <= Len(u) THEN u[i] ELSE v[i - Len(u)]
    BY <2>2, <2>3, ConcatProperties
  <2>5. ASSUME NEW i \in 1..(n - 1) PROVE r[i] = IF i < k THEN s[i] ELSE s[i + 1]
    <3>1. CASE i < k
      <4>1. i \in 1..(k - 1) /\ i <= Len(u) /\ i \in 1..(Len(u) + Len(v))
        BY <1>1, <2>2, <3>1
      <4> QED BY <2>2, <2>4, <3>1, <4>1
    <3>2. CASE ~(i < k)
      <4>1. i - (k - 1) \in 1..(n - k) /\ ~(i <= Len(u)) /\ i \in 1..(Len(u) + Len(v))
            /\ (i - (k - 1)) + k = i + 1
        BY <1>1, <2>2, <3>2
      <4> QED BY <2>2, <2>4, <3>2, <4>1
    <3> QED BY <3>1, <3>2
  <2> QED BY <1>1, <2>2, <2>4, <2>5
<1>5. PICK m : m = InsertAt(r, to, x)
  OBVIOUS
<1>6. \A i \in 1..n : m[i] = IF i = to THEN x ELSE IF i < to THEN r[i] ELSE r[i - 1]
  <2>1. PICK u, v : u = SubSeq(r, 1, to - 1) /\ v = SubSeq(r, to, n - 1)
    OBVIOUS
  <2>2. /\ u \in Seq(T) /\ Len(u) = to - 1 /\ \A i \in 1..(to - 1) : u[i] = r[i]
        /\ v \in Seq(T) /\ Len(v) = n - to /\ \A i \in 1..(n - to) : v[i] = r[i + to - 1]
    <3>1. \A i \in 1..(n - 1) : r[i] \in T
      BY <1>1, <1>4
    <3>2. /\ u \in Seq(T) /\ Len(u) = IF 1 <= to - 1 THEN (to - 1) - 1 + 1 ELSE 0
          /\ \A i \in 1..((to - 1) - 1 + 1) : u[i] = r[1 + i - 1]
      <4>1. to - 1 \in Int /\ \A i \in 1..(to - 1) : r[i] \in T
        BY <1>1, <3>1
      <4> QED BY <2>1, <4>1, SubSeqProperties
    <3>3. /\ v \in Seq(T) /\ Len(v) = IF to <= n - 1 THEN (n - 1) - to + 1 ELSE 0
          /\ \A i \in 1..((n - 1) - to + 1) : v[i] = r[to + i - 1]
      <4>1. to \in Int /\ n - 1 \in Int /\ \A i \in to..(n - 1) : r[i] \in T
        BY <1>1, <3>1
      <4> QED BY <2>1, <4>1, SubSeqProperties
    <3> QED BY <1>1, <3>2, <3>3
  <2>3. m = u \o <<x>> \o v
    BY <1>4, <1>5, <2>1 DEF InsertAt
  <2>30. PICK e : e = <<x>>
    OBVIOUS
  <2>31. e \in Seq(T) /\ Len(e) = 1 /\ e[1] = x
    BY <2>30
  <2>32. PICK w : w = u \o e
    OBVIOUS
  <2>4. m = w \o v
    BY <2>3, <2>30, <2>32
  <2>41. /\ w \in Seq(T) /\ Len(w) = Len(u) + Len(e)
         /\ \A i \in 1..(Len(u) + Len(e)) : w[i] = IF i <= Len(u) THEN u[i] ELSE e[i - Len(u)]
    <3>1. u \in Seq(T) /\ e \in Seq(T)
      BY <2>2, <2>31
    <3> QED BY <2>32, <3>1, ConcatProperties
  <2>5. Len(w) = to /\ w[to] = x /\ \A i \in 1..(to - 1) : w[i] = u[i]
    <3>1. Len(u) = to - 1 /\ to \in Nat \ {0} /\ Len(e) = 1
      BY <1>1, <2>2, <2>31
    <3>2. /\ to \in 1..(Len(u) + Len(e)) /\ ~(to <= Len(u)) /\ to - Len(u) = 1
          /\ \A i \in 1..(to - 1) : i \in 1..(Len(u) + Len(e)) /\ i <= Len(u)
          /\ Len(u) + Len(e) = to
      BY <3>1
    <3> QED BY <2>31, <2>41, <3>2
  <2>7. \A i \in 1..n : m[i] = IF i <= to THEN w[i] ELSE v[i - to]
    <3>1. \A i \in 1..(Len(w) + Len(v)) : m[i] = IF i <= Len(w) THEN w[i] ELSE v[i - Len(w)]
      <4>1. w \in Seq(T) /\ v \in Seq(T)
        BY <2>2, <2>41
      <4> QED BY <2>4, <4>1, ConcatProperties
    <3> QED BY <1>1, <2>2, <2>5, <3>1
  <2>8. ASSUME NEW i \in 1..n PROVE m[i] = IF i = to THEN x ELSE IF i < to THEN r[i] ELSE r[i - 1]
    <3>1. CASE i = to  BY <2>5, <2>7, <3>1
    <3>2. CASE i < to
      <4>1. i \in 1..(to - 1)
        BY <1>1, <3>2
      <4> QED BY <1>1, <2>2, <2>5, <2>7, <3>2, <4>1
    <3>3. CASE i > to
      <4>1. i - to \in 1..(n - to) /\ (i - to) + to - 1 = i - 1
        BY <1>1, <3>3
      <4> QED BY <1>1, <2>2, <2>7, <3>3, <4>1
    <3> QED BY <1>1, <3>1, <3>2, <3>3
  <2> QED BY <2>8
<1>7. ASSUME NEW i \in 1..n PROVE m[i] = s[From(k, to, i)]
  BY <1>1, <1>2, <1>4, <1>6 DEF From
<1> QED BY <1>1, <1>2, <1>3, <1>5, <1>7

\* A list in which the visible rows took new places has the same entries, each once.
LEMMA ReorderIs ==
    ASSUME NEW all, Distinct(all), NEW V \in SUBSET (1..Len(all)), NEW rows, rows = RowsOf(all, V),
           NEW k \in 1..Cardinality(V), NEW to \in 1..Cardinality(V),
           NEW m, m = InsertAt(RemoveAt(rows, k), to, rows[k]),
           NEW X, NEW next \in [1..Len(all) -> X],
           \A i \in V : next[i] = m[Place(V, i)],
           \A i \in (1..Len(all)) \ V : next[i] = all[i]
    PROVE  Distinct(next) /\ ToSet(next) = ToSet(all)
<1>1. PICK n \in Nat : n = Len(all) /\ DOMAIN all = 1..n /\ n # 0
  <2>1. Len(all) \in Nat /\ DOMAIN all = 1..Len(all)
    BY DEF Distinct, IsSeq
  <2>2. Len(all) # 0
    <3> SUFFICES ASSUME Len(all) = 0 PROVE FALSE  BY <2>1
    <3>1. V = {}
      OBVIOUS
    <3> QED BY <3>1, FS_EmptySet
  <2> QED BY <2>1, <2>2
<1>2. PICK N \in Nat : N = Cardinality(V)
  BY <1>1, PlacesAre
<1>3. /\ \A i \in V : Place(V, i) \in 1..N
      /\ \A i, j \in V : Place(V, i) = Place(V, j) => i = j
      /\ \A h \in 1..N : \E i \in V : Place(V, i) = h
  BY <1>1, <1>2, PlacesAre
<1>4. PICK at : at = [h \in 1..N |-> CHOOSE i \in V : Place(V, i) = h]
  OBVIOUS
<1>5. \A h \in 1..N : at[h] \in V /\ Place(V, at[h]) = h
  BY <1>3, <1>4
<1>6. rows = [h \in 1..N |-> all[at[h]]]
  BY <1>2, <1>4 DEF RowsOf
<1>7. rows \in Seq(ToSet(all)) /\ Len(rows) = N
  <2>1. \A h \in 1..N : all[at[h]] \in ToSet(all)
    BY <1>1, <1>5 DEF ToSet
  <2> QED BY <1>6, <2>1
<1>8. \A h \in 1..N : m[h] = rows[From(k, to, h)]
  BY <1>2, <1>7, MovedIs
<1>9. \A h \in 1..N : From(k, to, h) \in 1..N /\ From(k, to, From(to, k, h)) = h
                      /\ From(to, k, From(k, to, h)) = h
  BY <1>2, FromIs
<1>10. PICK g : g = [i \in 1..n |-> IF i \in V THEN at[From(k, to, Place(V, i))] ELSE i]
  OBVIOUS
<1>11. \A i \in V : g[i] \in V /\ g[i] \in 1..n /\ Place(V, g[i]) = From(k, to, Place(V, i))
  BY <1>1, <1>3, <1>5, <1>9, <1>10
<1>12. \A i \in (1..n) \ V : g[i] = i
  BY <1>10
<1>13. \A i \in 1..n : g[i] \in 1..n /\ next[i] = all[g[i]]
  <2> TAKE i \in 1..n
  <2>1. CASE i \in V
    <3>1. PICK h \in 1..N : h = Place(V, i)
      BY <1>3, <2>1
    <3>2. next[i] = m[h] /\ g[i] = at[From(k, to, h)]
      BY <1>1, <1>10, <2>1, <3>1
    <3>3. m[h] = all[at[From(k, to, h)]]
      BY <1>6, <1>8, <1>9, <3>1
    <3> QED BY <1>11, <2>1, <3>2, <3>3
  <2>2. CASE i \notin V
    BY <1>1, <1>12, <2>2
  <2> QED BY <2>1, <2>2
<1>14. \A i, j \in 1..n : g[i] = g[j] => i = j
  <2> TAKE i, j \in 1..n
  <2> SUFFICES ASSUME g[i] = g[j] PROVE i = j  OBVIOUS
  <2>1. CASE i \in V /\ j \in V
    <3>1. From(k, to, Place(V, i)) = From(k, to, Place(V, j))
      BY <1>11, <2>1
    <3>2. Place(V, i) = Place(V, j)
      BY <1>3, <1>9, <2>1, <3>1
    <3> QED BY <1>3, <2>1, <3>2
  <2>2. CASE ~(i \in V /\ j \in V)
    BY <1>11, <1>12, <2>2
  <2> QED BY <2>1, <2>2
<1>15. \A j \in 1..n : \E i \in 1..n : g[i] = j
  <2> TAKE j \in 1..n
  <2>1. CASE j \in V
    <3>1. PICK h \in 1..N : h = From(to, k, Place(V, j)) /\ From(k, to, h) = Place(V, j)
      <4>1. Place(V, j) \in 1..N
        BY <1>3, <2>1
      <4>2. From(to, k, Place(V, j)) \in 1..N
        BY <1>2, <4>1, FromIs
      <4> QED BY <1>9, <4>1, <4>2
    <3>2. g[at[h]] = at[Place(V, j)] /\ at[h] \in 1..n
      BY <1>1, <1>5, <1>10, <3>1
    <3>3. at[Place(V, j)] = j
      BY <1>3, <1>5, <2>1
    <3> QED BY <3>2, <3>3
  <2>2. CASE j \notin V
    BY <1>12, <2>2
  <2> QED BY <2>1, <2>2
<1>16. /\ next \in [1..n -> ToSet(all)] /\ DOMAIN next = 1..n
  <2>1. \A i \in 1..n : next[i] \in ToSet(all)
    BY <1>1, <1>13 DEF ToSet
  <2> QED BY <1>1, <2>1
<1>17. next \in Seq(ToSet(all)) /\ Len(next) = n
  BY <1>16
<1>18. ToSet(next) = ToSet(all)
  <2>1. ToSet(next) \subseteq ToSet(all)
    BY <1>16 DEF ToSet
  <2>2. ASSUME NEW j \in 1..n PROVE all[j] \in ToSet(next)
    <3>1. PICK i \in 1..n : g[i] = j
      BY <1>15
    <3>2. next[i] = all[j] /\ i \in DOMAIN next
      BY <1>13, <1>16, <3>1
    <3> QED BY <3>2 DEF ToSet
  <2>3. ToSet(all) \subseteq ToSet(next)
    BY <1>1, <2>2 DEF ToSet
  <2> QED BY <2>1, <2>3
<1>19. \A i, j \in 1..n : next[i] = next[j] => i = j
  BY <1>1, <1>13, <1>14 DEF Distinct
<1> QED BY <1>17, <1>18, <1>19 DEF Distinct, IsSeq

----------------------------------------------------------------------------
\* The entries of every order, and what the list shows.

\* A list of the entries S, each once.
Orders(S, l) == Distinct(l) /\ ToSet(l) = S

\* Every order in sight, asked for or on its way has the same entries.
Members(S) ==
    /\ Orders(S, factory.list) /\ Orders(S, snapshot.list) /\ Orders(S, told.list)
    /\ \A i \in 1..Len(line) :
          /\ line[i].key = OrderKey => Orders(S, line[i].value)
          /\ line[i].phase = "served" => Orders(S, line[i].body.list)
    /\ confirm # NoConfirm => Orders(S, confirm.next)

\* The order that the snapshot shows lags by the request whose answer is on its way.
OrderFollows ==
    /\ line # <<>> /\ line[1].phase = "served" => line[1].body.list = factory.list
    /\ snapshot.list # factory.list =>
           /\ line # <<>> /\ line[1].phase = "served" /\ line[1].key = OrderKey
           /\ snapshot.version < line[1].body.version
    /\ HeldKey(held, OrderKey) => held[OrderKey].value = told.list

OrderInv(S) == ~told.foreign => Members(S) /\ (~told.refused => OrderFollows)

\* The list shown has the entries, each once.
LEMMA ShownMembers ==
    ASSUME NEW S, PriorityInv, Members(S)
    PROVE  Orders(S, All)
<1>1. CASE HeldKey(held, OrderKey)
  <2>1. PICK i \in 1..Len(line) : line[i].key = OrderKey /\ held[OrderKey].value = line[i].value
    BY <1>1, HeldHasRequest DEF Controls
  <2> QED BY <1>1, <2>1 DEF All, ShownAt, Members
<1>2. CASE ~HeldKey(held, OrderKey)
  BY <1>2 DEF All, ShownAt, Members
<1> QED BY <1>1, <1>2

\* As long as nobody interfered, the list shown is the one asked for last.
LEMMA ShownIsAskedFor ==
    ASSUME NEW S, PriorityInv, OrderInv(S), ~told.foreign, ~told.refused
    PROVE  All = told.list
<1>1. ListLands /\ OrderFollows /\ Members(S)
  BY DEF PriorityInv, Lands, OrderInv
<1>2. ShownAt(held, OrderKey, snapshot.list) = told.list
  <2>1. CASE HeldKey(held, OrderKey)
    BY <1>1, <2>1 DEF ShownAt, OrderFollows
  <2>2. CASE ~HeldKey(held, OrderKey)
    <3>1. \A i \in 1..Len(line) : line[i].key # OrderKey
      <4> SUFFICES ASSUME NEW i \in 1..Len(line), line[i].key = OrderKey PROVE FALSE
        OBVIOUS
      <4>1. DOMAIN line = 1..Len(line)
        BY DEF PriorityInv, PriorityTypeOK, IsSeq
      <4>2. Unsettled(OrderKey) # {}
        BY <4>1 DEF Unsettled
      <4>3. PICK j \in Unsettled(OrderKey) :
               held[OrderKey] = [value |-> line[j].value, token |-> line[j].token]
        BY <4>2 DEF PriorityInv, HeldIsNewest
      <4>4. line[j].token \in Nat
        BY <4>1, <4>3 DEF PriorityInv, PriorityTypeOK, IsBatch, Unsettled
      <4> QED BY <2>2, <4>3, <4>4, NobodyIsNoToken DEF HeldKey
    <3>2. Queued(OrderKey) = {}
      BY <3>1 DEF Queued
    <3>3. factory.list = told.list
      BY <1>1, <3>2 DEF ListLands
    <3>4. line # <<>> => 1 \in 1..Len(line)
      BY DEF PriorityInv, PriorityTypeOK, IsSeq
    <3>5. snapshot.list = factory.list
      BY <1>1, <3>1, <3>4 DEF OrderFollows
    <3> QED BY <2>2, <3>3, <3>5 DEF ShownAt
  <2> QED BY <2>1, <2>2
<1>3. ToSet(told.list) = ToSet(snapshot.list)
  BY <1>1 DEF Members, Orders
<1> QED BY <1>2, <1>3 DEF All

\* A move keeps the entries.
LEMMA ReorderedMembers ==
    ASSUME NEW S, Orders(S, All), NEW id \in ToSet(Rows), NEW to \in DOMAIN Rows
    PROVE  Orders(S, Reordered(id, to))
<1>1. PICK all : all = All /\ Distinct(all) /\ ToSet(all) = S
  BY DEF Orders
<1>2. DOMAIN all = 1..Len(all)
  BY <1>1 DEF Distinct, IsSeq
<1>3. PICK V \in SUBSET (1..Len(all)) : V = Visible(all)
  BY <1>2 DEF Visible
<1>4. PICK rows : rows = RowsOf(all, V) /\ rows = Rows
  BY <1>1, <1>3 DEF Rows
<1>5. DOMAIN rows = 1..Cardinality(V)
  BY <1>4 DEF RowsOf
<1>6. PICK k \in 1..Cardinality(V) : k = IndexOf(id) /\ rows[k] = id
  <2>1. \E h \in DOMAIN rows : rows[h] = id
    BY <1>4 DEF ToSet
  <2>2. IndexOf(id) \in DOMAIN rows /\ rows[IndexOf(id)] = id
    BY <1>4, <2>1 DEF IndexOf
  <2> QED BY <1>5, <2>2
<1>7. to \in 1..Cardinality(V)
  BY <1>4, <1>5
<1>8. PICK m : m = InsertAt(RemoveAt(rows, k), to, rows[k])
  OBVIOUS
<1>9. PICK next : next = [i \in 1..Len(all) |-> IF i \in V THEN m[Place(V, i)] ELSE all[i]]
  OBVIOUS
<1>10. next = Reordered(id, to)
  <2>1. InsertAt(RemoveAt(Rows, IndexOf(id)), to, id) = m
    BY <1>4, <1>6, <1>8
  <2>2. Reordered(id, to) =
            [i \in DOMAIN All |->
                IF i \in Visible(All)
                THEN InsertAt(RemoveAt(Rows, IndexOf(id)), to, id)[Place(Visible(All), i)]
                ELSE All[i]]
    BY DEF Reordered
  <2>3. Reordered(id, to) =
            [i \in DOMAIN all |-> IF i \in V THEN m[Place(V, i)] ELSE all[i]]
    BY <1>1, <1>3, <2>1, <2>2
  <2> QED BY <1>2, <1>9, <2>3
<1>11. Distinct(next) /\ ToSet(next) = ToSet(all)
  <2>1. PICK X : X = {next[i] : i \in 1..Len(all)}
    OBVIOUS
  <2>2. /\ next \in [1..Len(all) -> X]
        /\ \A i \in V : next[i] = m[Place(V, i)]
        /\ \A i \in (1..Len(all)) \ V : next[i] = all[i]
    BY <1>9, <2>1
  <2>3. rows = RowsOf(all, V)
    BY <1>4
  <2> QED BY <1>1, <1>7, <1>8, <2>2, <2>3, ReorderIs
<1> QED BY <1>1, <1>10, <1>11 DEF Orders

----------------------------------------------------------------------------
\* Every step keeps the orders.

\* A gesture that sends nothing, and opens a warning only with an order of the entries.
LEMMA StillInOrder ==
    ASSUME NEW S, OrderInv(S), UNCHANGED <<factory, snapshot, held, line, told>>,
           confirm' \in {confirm, NoConfirm} \/ (~told.foreign => Orders(S, confirm'.next))
    PROVE  OrderInv(S)'
BY DEF OrderInv, Members, OrderFollows, HeldKey

\* A request joins the line: if it is for an order, for one of the entries.
LEMMA AskInOrder ==
    ASSUME NEW S, PriorityInv, OrderInv(S), NEW key \in Controls, NEW value, NEW action,
           Ask(key, value, action), UNCHANGED <<factory, snapshot>>,
           confirm' \in {confirm, NoConfirm},
           told'.foreign = told.foreign, told'.refused = told.refused,
           key = OrderKey => told'.list = value /\ (~told.foreign => Orders(S, value)),
           key = SettingsKey => told'.list = told.list
    PROVE  OrderInv(S)'
<1> SUFFICES ASSUME ~told.foreign
             PROVE  Members(S)' /\ (~told.refused => OrderFollows')
  BY DEF OrderInv
<1>1. Members(S) /\ (~told.refused => OrderFollows)
  BY DEF OrderInv
<1>0. PICK b : b = Request(key, value, action, seq + 1)
  OBVIOUS
<1>2. PICK n \in Nat : n = Len(line)
  BY AskAppends
<1>3. b.key = key /\ b.value = value /\ b.phase = "queued"
  BY <1>0 DEF Request
<1>4. /\ Len(line') = n + 1 /\ \A i \in 1..n : line'[i] = line[i]
      /\ line'[n + 1] = b
      /\ held' = [held EXCEPT ![key] = [value |-> value, token |-> seq + 1]]
  BY <1>0, <1>2, AskAppends
<1>5. /\ line # <<>> => line' # <<>> /\ line'[1] = line[1]
      /\ line = <<>> => line' # <<>> /\ line'[1].phase = "queued"
      /\ \A other \in Controls \ {key} : held'[other] = held[other]
  BY AskQueues
<1>6. DOMAIN held = Controls /\ OrderKey \in Controls /\ Controls = {OrderKey, SettingsKey}
  BY DEF PriorityInv, PriorityTypeOK, Controls
<1>7. Members(S)'
  <2>1. ASSUME NEW i \in 1..(n + 1)
        PROVE  /\ line'[i].key = OrderKey => Orders(S, line'[i].value)
               /\ line'[i].phase = "served" => Orders(S, line'[i].body.list)
    <3>1. CASE i = n + 1
      BY <1>3, <1>4, <3>1
    <3>2. CASE i \in 1..n
      BY <1>1, <1>2, <1>4, <3>2 DEF Members
    <3> QED BY <3>1, <3>2
  <2>2. Orders(S, told'.list)
    BY <1>1, <1>6 DEF Members
  <2>3. confirm' # NoConfirm => Orders(S, confirm'.next)
    BY <1>1 DEF Members
  <2> QED BY <1>1, <1>4, <2>1, <2>2, <2>3 DEF Members
<1>8. ASSUME OrderFollows PROVE OrderFollows'
  <2>1. HeldKey(held', OrderKey) => held'[OrderKey].value = told'.list
    <3>1. CASE key = OrderKey
      BY <1>4, <1>6, <3>1
    <3>2. CASE key # OrderKey
      <4>1. held'[OrderKey] = held[OrderKey] /\ told'.list = told.list
        BY <1>5, <1>6, <3>2
      <4> QED BY <1>8, <4>1 DEF OrderFollows, HeldKey
    <3> QED BY <3>1, <3>2
  <2> QED BY <1>5, <1>8, <2>1 DEF OrderFollows
<1> QED BY <1>1, <1>7, <1>8

\* A move is sent, or its order waits behind the warning.
LEMMA MoveInOrder ==
    ASSUME NEW S, PriorityInv, OrderInv(S), NEW id, NEW to, Move(id, to),
           UNCHANGED <<factory, snapshot>>
    PROVE  OrderInv(S)'
<1>1. PICK next : next = Reordered(id, to)
  OBVIOUS
<1>2. /\ id \in ToSet(Rows) /\ to \in DOMAIN Rows
      /\ IF NeedsConfirm(id, next)
         THEN confirm' = [id |-> id, next |-> next] /\ UNCHANGED <<seq, held, line, told>>
         ELSE CommitOrder(next) /\ UNCHANGED confirm
  BY <1>1 DEF Move
<1>3. ~told.foreign => Orders(S, next)
  BY <1>1, <1>2, ShownMembers, ReorderedMembers DEF OrderInv
<1>4. CASE NeedsConfirm(id, next)
  <2>1. confirm'.next = next
    BY <1>2, <1>4
  <2> QED BY <1>2, <1>3, <1>4, <2>1, StillInOrder
<1>5. CASE ~NeedsConfirm(id, next)
  <2>1. Ask(OrderKey, next, next) /\ told' = [told EXCEPT !.list = next] /\ confirm' = confirm
    BY <1>2, <1>5 DEF CommitOrder
  <2>2. told'.list = next /\ told'.foreign = told.foreign /\ told'.refused = told.refused
    BY <2>1 DEF PriorityInv, PriorityTypeOK
  <2>3. OrderKey \in Controls /\ OrderKey # SettingsKey
    BY DEF Controls, OrderKey, SettingsKey
  <2> QED BY <1>3, <2>1, <2>2, <2>3, AskInOrder
<1> QED BY <1>4, <1>5

\* Steps, drags, the warning's answers and the toggles.
LEMMA GesturesInOrder ==
    ASSUME NEW S, PriorityInv, OrderInv(S),
           \/ \E id \in Entries : StepRow(id, -1) \/ StepRow(id, 1) \/ StartDrag(id)
           \/ \E to \in 1..Cardinality(Entries) : Drop(to)
           \/ CancelDrag \/ AnswerMove \/ AnswerCancel \/ TogglePause \/ ToggleMode
    PROVE  OrderInv(S)'
<1>0. /\ OrderKey \in Controls /\ SettingsKey \in Controls /\ OrderKey # SettingsKey
  BY DEF Controls, OrderKey, SettingsKey
<1>1. ASSUME NEW id \in Entries, StepRow(id, -1) \/ StepRow(id, 1) PROVE OrderInv(S)'
  <2>1. UNCHANGED <<factory, snapshot>> /\ \E to : Move(id, to)
    BY <1>1 DEF StepRow
  <2> QED BY <2>1, MoveInOrder
<1>2. ASSUME NEW id \in Entries, StartDrag(id) PROVE OrderInv(S)'
  BY <1>2, StillInOrder DEF StartDrag
<1>3. ASSUME NEW to \in 1..Cardinality(Entries), Drop(to) PROVE OrderInv(S)'
  <2>1. /\ UNCHANGED <<factory, snapshot>>
        /\ Move(drag.id, to) \/ UNCHANGED <<held, seq, line, confirm, told>>
    BY <1>3 DEF Drop
  <2>2. CASE Move(drag.id, to)
    BY <2>1, <2>2, MoveInOrder
  <2>3. CASE UNCHANGED <<held, seq, line, confirm, told>>
    BY <2>1, <2>3, StillInOrder
  <2> QED BY <2>1, <2>2, <2>3
<1>4. CASE CancelDrag
  BY <1>4, StillInOrder DEF CancelDrag
<1>5. CASE AnswerMove
  <2>1. PICK next : next = confirm.next
    OBVIOUS
  <2>2. /\ Ask(OrderKey, next, next) /\ UNCHANGED <<factory, snapshot>>
        /\ told' = [told EXCEPT !.list = next, !.warned = TRUE]
        /\ confirm # NoConfirm /\ confirm' = NoConfirm
    BY <1>5, <2>1 DEF AnswerMove
  <2>3. told'.list = next /\ told'.foreign = told.foreign /\ told'.refused = told.refused
    BY <2>2 DEF PriorityInv, PriorityTypeOK
  <2>4. ~told.foreign => Orders(S, next)
    BY <2>1, <2>2 DEF OrderInv, Members
  <2> QED BY <1>0, <2>2, <2>3, <2>4, AskInOrder
<1>6. CASE AnswerCancel
  BY <1>6, StillInOrder DEF AnswerCancel
<1>7. CASE TogglePause \/ ToggleMode
  <2>1. \E value : \E action : SetMode(value, action)
    BY <1>7 DEF TogglePause, ToggleMode
  <2>10. PICK value : \E action : SetMode(value, action)
    BY <2>1
  <2>11. PICK action : SetMode(value, action)
    BY <2>10
  <2>2. /\ Ask(SettingsKey, value, action) /\ UNCHANGED <<factory, snapshot, confirm>>
        /\ told' = [told EXCEPT !.set = value]
    BY <2>11 DEF SetMode
  <2>3. told'.list = told.list /\ told'.foreign = told.foreign /\ told'.refused = told.refused
    BY <2>2 DEF PriorityInv, PriorityTypeOK
  <2> QED BY <1>0, <2>2, <2>3, AskInOrder
<1> QED BY <1>1, <1>2, <1>3, <1>4, <1>5, <1>6, <1>7

\* A milestone and a GET.
LEMMA WorldInOrder ==
    ASSUME NEW S, PriorityInv, OrderInv(S), TierUp \/ Refresh
    PROVE  OrderInv(S)'
<1> SUFFICES ASSUME ~told.foreign PROVE Members(S)' /\ (~told.refused => OrderFollows')
  BY DEF OrderInv, TierUp, Refresh
<1>1. Members(S) /\ (~told.refused => OrderFollows)
  BY DEF OrderInv
<1>2. UNCHANGED <<held, seq, line, confirm, told>>
  BY DEF TierUp, Refresh
<1>3. CASE TierUp
  <2>1. factory' = [factory EXCEPT !.tier = 1, !.version = factory.version + 1] /\ snapshot' = snapshot
    BY <1>3 DEF TierUp
  <2>2. factory'.list = factory.list
    BY <2>1 DEF PriorityInv, PriorityTypeOK, IsWorld
  <2> QED BY <1>1, <1>2, <2>1, <2>2 DEF Members, OrderFollows, HeldKey
<1>4. CASE Refresh
  <2>1. factory' = factory /\ snapshot' = factory
    BY <1>4 DEF Refresh
  <2> QED BY <1>1, <1>2, <2>1 DEF Members, OrderFollows, HeldKey
<1> QED BY <1>3, <1>4

\* The server applies an order only if it has the entries.
LEMMA ServeInOrder ==
    ASSUME NEW S, PriorityInv, OrderInv(S), Serve
    PROVE  OrderInv(S)'
<1> SUFFICES ASSUME ~told.foreign PROVE Members(S)' /\ (~told.refused => OrderFollows')
  BY DEF OrderInv, Serve
<1>1. Members(S) /\ (~told.refused => OrderFollows)
  BY DEF OrderInv
<1>2. /\ line # <<>> /\ line[1].phase = "queued" /\ factory' = Applied(line[1])
      /\ line' = [line EXCEPT ![1].phase = "served", ![1].body = factory', ![1].adopted = TRUE]
      /\ UNCHANGED <<snapshot, held, seq, confirm, told>>
  BY DEF Serve
<1>3. IsSeq(line) /\ IsBatch(line[1], seq) /\ DOMAIN line = 1..Len(line) /\ 1 \in 1..Len(line)
  BY <1>2 DEF PriorityInv, PriorityTypeOK, IsSeq
<1>4. PICK w : w = factory'
  OBVIOUS
<1>5. PICK b : b = [line[1] EXCEPT !.phase = "served", !.body = w, !.adopted = TRUE]
  OBVIOUS
<1>6. line' = [line EXCEPT ![1] = b]
  BY <1>2, <1>3, <1>4, <1>5
<1>7. b.key = line[1].key /\ b.value = line[1].value /\ b.body = w /\ b.phase = "served"
  BY <1>3, <1>5 DEF IsBatch
<1>8. /\ line'[1] = b /\ Len(line') = Len(line) /\ line' # <<>>
      /\ \A i \in 2..Len(line) : line'[i] = line[i]
  BY <1>3, <1>6 DEF IsSeq
<1>9. /\ w.version = factory.version + 1
      /\ line[1].key = OrderKey => w.list = line[1].value
      /\ line[1].key # OrderKey => w.list = factory.list
  BY <1>2, <1>3, <1>4, AppliedIs DEF IsBatch, Controls
<1>10. Orders(S, w.list)
  BY <1>1, <1>3, <1>9 DEF Members
<1>11. Members(S)'
  <2>1. ASSUME NEW i \in 1..Len(line)
        PROVE  /\ line'[i].key = OrderKey => Orders(S, line'[i].value)
               /\ line'[i].phase = "served" => Orders(S, line'[i].body.list)
    <3>1. CASE i = 1
      BY <1>1, <1>3, <1>7, <1>8, <1>10, <3>1 DEF Members
    <3>2. CASE i # 1
      <4>1. i \in 2..Len(line)
        BY <1>3, <3>2
      <4> QED BY <1>1, <1>8, <4>1 DEF Members
    <3> QED BY <3>1, <3>2
  <2> QED BY <1>1, <1>2, <1>4, <1>8, <1>10, <2>1 DEF Members
<1>12. ASSUME ~told.refused PROVE OrderFollows'
  <2>1. OrderFollows /\ SnapshotFollows
    BY <1>1, <1>12 DEF PriorityInv, Lands
  <2>2. snapshot.list = factory.list
    BY <1>2, <2>1 DEF OrderFollows
  <2>3. snapshot.version < w.version
    <3>1. snapshot.version \in Nat /\ factory.version \in Nat /\ snapshot.version <= factory.version
      BY <2>1 DEF PriorityInv, PriorityTypeOK, IsWorld, SnapshotFollows
    <3> QED BY <1>9, <3>1
  <2>4. snapshot.list # w.list => line[1].key = OrderKey
    BY <1>9, <2>2
  <2> QED BY <1>2, <1>4, <1>7, <1>8, <2>1, <2>3, <2>4 DEF OrderFollows, HeldKey
<1> QED BY <1>11, <1>12

\* A refusal, and the adoption of an answer.
LEMMA AnswersInOrder ==
    ASSUME NEW S, PriorityInv, OrderInv(S), Refuse \/ Land
    PROVE  OrderInv(S)'
<1>1. /\ line # <<>> /\ line' = [line EXCEPT ![1].phase = "landed"]
      /\ UNCHANGED <<factory, held, seq, confirm>>
      /\ told'.foreign = told.foreign /\ told'.list = told.list
      /\ Refuse => told'.refused /\ snapshot' = snapshot
      /\ Land => /\ told' = told /\ line[1].phase = "served"
                 /\ snapshot' = IF NotOlder(line[1].body) THEN line[1].body ELSE snapshot
  BY DEF Refuse, Land, PriorityInv, PriorityTypeOK
<1> SUFFICES ASSUME ~told.foreign PROVE Members(S)' /\ (~told'.refused => OrderFollows')
  BY <1>1 DEF OrderInv
<1>2. Members(S) /\ (~told.refused => OrderFollows)
  BY DEF OrderInv
<1>3. IsSeq(line) /\ IsBatch(line[1], seq) /\ DOMAIN line = 1..Len(line) /\ 1 \in 1..Len(line)
  BY <1>1 DEF PriorityInv, PriorityTypeOK, IsSeq
<1>4. PICK b : b = [line[1] EXCEPT !.phase = "landed"]
  OBVIOUS
<1>5. line' = [line EXCEPT ![1] = b]
  BY <1>1, <1>3, <1>4
<1>6. b.key = line[1].key /\ b.value = line[1].value /\ b.phase = "landed"
  BY <1>3, <1>4 DEF IsBatch
<1>7. /\ line'[1] = b /\ Len(line') = Len(line) /\ line' # <<>>
      /\ \A i \in 2..Len(line) : line'[i] = line[i]
  BY <1>3, <1>5 DEF IsSeq
<1>8. Orders(S, snapshot'.list)
  BY <1>1, <1>2, <1>3 DEF Members
<1>9. Members(S)'
  <2>1. ASSUME NEW i \in 1..Len(line)
        PROVE  /\ line'[i].key = OrderKey => Orders(S, line'[i].value)
               /\ line'[i].phase = "served" => Orders(S, line'[i].body.list)
    <3>1. CASE i = 1
      BY <1>2, <1>3, <1>6, <1>7, <3>1 DEF Members
    <3>2. CASE i # 1
      <4>1. i \in 2..Len(line)
        BY <1>3, <3>2
      <4> QED BY <1>2, <1>7, <4>1 DEF Members
    <3> QED BY <3>1, <3>2
  <2> QED BY <1>1, <1>2, <1>7, <1>8, <2>1 DEF Members
<1>10. ASSUME ~told'.refused PROVE OrderFollows'
  <2>1. /\ OrderFollows /\ told' = told /\ line[1].phase = "served"
        /\ snapshot' = IF NotOlder(line[1].body) THEN line[1].body ELSE snapshot
    BY <1>1, <1>2, <1>10
  <2>2. snapshot'.list = factory.list
    <3>1. snapshot.version \in Nat /\ line[1].body.version \in Nat
      BY <1>3, <2>1 DEF PriorityInv, PriorityTypeOK, IsBatch, IsWorld
    <3>2. CASE NotOlder(line[1].body)
      BY <1>1, <2>1, <3>2 DEF OrderFollows
    <3>3. CASE ~NotOlder(line[1].body)
      <4>1. ~(snapshot.version < line[1].body.version)
        BY <3>1, <3>3 DEF NotOlder
      <4> QED BY <2>1, <3>3, <4>1 DEF OrderFollows
    <3> QED BY <3>2, <3>3
  <2> QED BY <1>1, <1>6, <1>7, <2>1, <2>2 DEF OrderFollows, HeldKey
<1> QED BY <1>9, <1>10

\* A request leaves the line.
LEMMA SettleInOrder ==
    ASSUME NEW S, PriorityInv, OrderInv(S), Settle
    PROVE  OrderInv(S)'
<1> SUFFICES ASSUME ~told.foreign PROVE Members(S)' /\ (~told.refused => OrderFollows')
  BY DEF OrderInv, Settle
<1>1. Members(S) /\ (~told.refused => OrderFollows)
  BY DEF OrderInv
<1>2. /\ line # <<>> /\ line[1].phase = "landed" /\ line' = Tail(line)
      /\ held' = Releasing(held, line[1].key, line[1].token)
      /\ UNCHANGED <<factory, snapshot, seq, confirm, told>>
  BY DEF Settle
<1>3. IsSeq(line)
  BY DEF PriorityInv, PriorityTypeOK
<1>4. PICK n \in Nat : Len(line) = n + 1
  BY <1>2, <1>3, TailIs
<1>5. IsSeq(line') /\ Len(line') = n /\ \A i \in 1..n : line'[i] = line[i + 1]
  BY <1>2, <1>3, <1>4, TailIs
<1>6. \A i \in 1..n : i + 1 \in 1..Len(line)
  BY <1>4
<1>7. Members(S)'
  BY <1>1, <1>2, <1>5, <1>6 DEF Members
<1>8. ASSUME OrderFollows PROVE OrderFollows'
  <2>1. snapshot.list = factory.list
    BY <1>2, <1>8 DEF OrderFollows
  <2>2. line' # <<>> => line'[1].phase # "served"
    <3>1. line' # <<>> => 1 \in 1..n /\ 2 \in 2..Len(line)
      BY <1>4, <1>5 DEF IsSeq
    <3> QED BY <1>5, <3>1 DEF PriorityInv, InOrder
  <2>3. HeldKey(held', OrderKey) => held'[OrderKey] = held[OrderKey]
    BY <1>2 DEF Releasing, HeldKey, NotHeld, PriorityInv, PriorityTypeOK, Controls
  <2> QED BY <1>2, <1>8, <2>1, <2>2, <2>3 DEF OrderFollows, HeldKey
<1> QED BY <1>1, <1>7, <1>8

\* Whatever the page, the server or another page does.
LEMMA PriorityKeepsOrder ==
    ASSUME NEW S
    PROVE  PriorityInv /\ OrderInv(S) /\ [PriorityNext]_priorities => OrderInv(S)'
<1> SUFFICES ASSUME PriorityInv, OrderInv(S), [PriorityNext]_priorities PROVE OrderInv(S)'
  OBVIOUS
<1>1. CASE UNCHANGED priorities
  BY <1>1, StillInOrder DEF priorities
<1>2. CASE Foreign
  BY <1>2 DEF Foreign, OrderInv, PriorityInv, PriorityTypeOK
<1>3. CASE PriorityNext /\ ~Foreign
  BY <1>3, GesturesInOrder, WorldInOrder, ServeInOrder, AnswersInOrder, SettleInOrder
     DEF PriorityNext
<1> QED BY <1>1, <1>2, <1>3

----------------------------------------------------------------------------

\* What the list and the row of settings show is what was asked for last.
ShownIsTold == ~told.foreign /\ ~told.refused => All = told.list /\ Settings = told.set

\* use-pending.ts:2-5, Q-10, PriorityList.tsx:104-133, priority-model.ts:83-97: for any list of
\* distinct entries and any number of requests, what the list shows moves neither by a snapshot that
\* lands under it nor when a request that was granted settles, while the page is the only one: what
\* it shows is what was asked for last.
THEOREM ListNeverJumps ==
    ASSUME NEW list \in Seq(Entries), list # <<>>, list[1] = Power, IsInjective(list)
    PROVE  PriorityInit(list) /\ [][PriorityNext]_priorities => []ShownIsTold /\ NoJump
<1>1. PICK S : S = ToSet(list)
  OBVIOUS
<1>2. PriorityInit(list) => PriorityInv
  BY PriorityInitHolds
<1>3. PriorityInit(list) => OrderInv(S)
  <2> SUFFICES ASSUME PriorityInit(list) PROVE OrderInv(S)  OBVIOUS
  <2>1. Orders(S, list)
    BY <1>1, IsSeqOf DEF Orders, Distinct, IsInjective
  <2>2. /\ factory.list = list /\ snapshot.list = list /\ told.list = list
        /\ line = <<>> /\ confirm = NoConfirm /\ held[OrderKey] = NotHeld
    BY DEF PriorityInit
  <2> QED BY <2>1, <2>2 DEF OrderInv, Members, OrderFollows, HeldKey, NotHeld
<1>4. PriorityInv /\ [PriorityNext]_priorities => PriorityInv'
  BY PriorityKeepsInv
<1>5. PriorityInv /\ OrderInv(S) /\ [PriorityNext]_priorities => OrderInv(S)'
  BY PriorityKeepsOrder
<1>6. PriorityInv /\ OrderInv(S) => ShownIsTold
  BY ShownIsAskedFor, ShownIsAsked DEF ShownIsTold
<1>7. ShownIsTold /\ ShownIsTold' /\ ((Settle /\ line[1].adopted) \/ Land)
        => told.foreign \/ told.refused \/ (All' = All /\ Settings' = Settings)
  <2>1. Settle \/ Land => told' = told
    BY DEF Settle, Land
  <2> QED BY <2>1 DEF ShownIsTold
<1> QED BY <1>2, <1>3, <1>4, <1>5, <1>6, <1>7, PTL DEF NoJump
=============================================================================
