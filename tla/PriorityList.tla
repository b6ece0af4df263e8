---------------------------- MODULE PriorityList ----------------------------
(***************************************************************************)
(* The priority list: apps/web/src/ui/PriorityList.tsx over                *)
(* priority-model.ts and the registry of Pending, with the two reducers    *)
(* of packages/engine/src/actions/economy.ts it asks. Rows move by step    *)
(* and by drag, power only behind a warning; one row has settings. The     *)
(* outbox (Sync) is here a line of batches, the first of which is applied  *)
(* or refused, lands in the snapshot, and settles; a GET may come between. *)
(***************************************************************************)
EXTENDS Integers, SequencesExt, Pending

CONSTANTS
    Unlock,    \* the tier each priority entry is shown from, power's included
    Newcomer,  \* the entry a re-pin adds
    MaxIntents \* bound: requests made

Power == "power"

Entries == DOMAIN Unlock
OrderKey == "priority:order"
SettingsKey == "priority:settings"

VARIABLES
    factory,   \* at the server: [list, set, tier, version]
    snapshot,  \* the one the page shows
    held, seq, \* the registry, and the tokens it gave out
    line,      \* the batches not settled, oldest first
    drag,      \* the drag in progress: its row, and how many rows it was measured against
    confirm,   \* the order the open warning would send
    told       \* history: what was last asked, refusals, others' changes, warnings answered

priorities == <<factory, snapshot, held, seq, line, drag, confirm, told>>

NoBody == [version |-> 0]
NoDrag == [id |-> Nobody, slots |-> 0]
NoConfirm == [id |-> Nobody, next |-> <<>>]

PriorityInit(list) ==
    /\ factory = [list |-> list, set |-> [mode |-> "guaranteed", paused |-> FALSE],
                  tier |-> 0, version |-> 1]
    /\ snapshot = factory
    /\ held = [key \in {OrderKey, SettingsKey} |-> NotHeld] /\ seq = 0
    /\ line = <<>> /\ drag = NoDrag /\ confirm = NoConfirm
    /\ told = [list |-> list, set |-> factory.set, refused |-> FALSE, foreign |-> FALSE,
               warned |-> FALSE]

----------------------------------------------------------------------------
\* What the list shows.

\* A held order of other entries can't apply.
All ==
    LET asked == ShownAt(held, OrderKey, snapshot.list)
    IN  IF ToSet(asked) = ToSet(snapshot.list) THEN asked ELSE snapshot.list

Settings == ShownAt(held, SettingsKey, snapshot.set)

\* The entries in sight: their indices in the whole list, the row each is, and the rows.
Visible(all) == {i \in DOMAIN all : Unlock[all[i]] <= snapshot.tier}
Place(V, i) == Cardinality({j \in V : j <= i})
RowsOf(all, V) == [k \in 1..Cardinality(V) |-> all[CHOOSE i \in V : Place(V, i) = k]]
Rows == RowsOf(All, Visible(All))

IndexOf(x) == CHOOSE k \in DOMAIN Rows : Rows[k] = x

\* reorderVisible: the hidden entries keep their places.
Reordered(id, to) ==
    LET all == All
        shown == Visible(all)
        moved == InsertAt(RemoveAt(Rows, IndexOf(id)), to, id)
    IN  [i \in DOMAIN all |-> IF i \in shown THEN moved[Place(shown, i)] ELSE all[i]]

\* powerMoveNeedsConfirm: power leaves the top, also when another entry is put above it.
NeedsConfirm(id, next) == All[1] = Power /\ next[1] # Power

----------------------------------------------------------------------------
\* Requests: hold the value, send the batch.

Ask(key, value, action) ==
    /\ seq < MaxIntents
    /\ seq' = seq + 1
    /\ held' = Holding(held, key, value, seq + 1)
    /\ line' = Append(line, [token |-> seq + 1, key |-> key, value |-> value, action |-> action,
                             phase |-> "queued", adopted |-> FALSE, body |-> NoBody])

CommitOrder(next) ==
    /\ Ask(OrderKey, next, next)
    /\ told' = [told EXCEPT !.list = next]

\* move: one intent, one batch, or the warning.
Move(id, to) ==
    /\ id \in ToSet(Rows) /\ to \in DOMAIN Rows /\ to # IndexOf(id)
    /\ LET next == Reordered(id, to)
       IN  IF NeedsConfirm(id, next)
           THEN confirm' = [id |-> id, next |-> next] /\ UNCHANGED <<seq, held, line, told>>
           ELSE CommitOrder(next) /\ UNCHANGED confirm

\* The arrows and Alt+arrows stay live under a drag and under the warning.
StepRow(id, by) ==
    /\ id \in ToSet(Rows) /\ Move(id, IndexOf(id) + by)
    /\ UNCHANGED <<factory, snapshot, drag>>

StartDrag(id) ==
    /\ seq < MaxIntents /\ confirm = NoConfirm /\ drag = NoDrag /\ id \in ToSet(Rows)
    /\ drag' = [id |-> id, slots |-> Len(Rows) - 1]
    /\ UNCHANGED <<factory, snapshot, held, seq, line, confirm, told>>

\* onUp: the slot is counted against the rows there were at the start.
Drop(to) ==
    /\ drag # NoDrag /\ to \in 1..(drag.slots + 1)
    /\ drag' = NoDrag
    /\ IF to # IndexOf(drag.id) THEN Move(drag.id, to)
       ELSE UNCHANGED <<held, seq, line, confirm, told>>
    /\ UNCHANGED <<factory, snapshot>>

CancelDrag ==
    /\ drag # NoDrag
    /\ drag' = NoDrag
    /\ UNCHANGED <<factory, snapshot, held, seq, line, confirm, told>>

\* closeConfirm.
AnswerMove ==
    /\ confirm # NoConfirm
    /\ Ask(OrderKey, confirm.next, confirm.next)
    /\ told' = [told EXCEPT !.list = confirm.next, !.warned = TRUE]
    /\ confirm' = NoConfirm
    /\ UNCHANGED <<factory, snapshot, drag>>

AnswerCancel ==
    /\ confirm # NoConfirm
    /\ confirm' = NoConfirm
    /\ UNCHANGED <<factory, snapshot, held, seq, line, drag, told>>

\* Mutant of ModeSent: the mode of the snapshot rides along.
ModeStored == snapshot.set.mode

\* SET_PRIORITY_MODE always carries a mode: the shown one when another field changes.
ModeSent == Settings.mode

SetMode(value, action) ==
    /\ Ask(SettingsKey, value, action)
    /\ told' = [told EXCEPT !.set = value]
    /\ UNCHANGED <<factory, snapshot, drag, confirm>>

TogglePause ==
    SetMode([Settings EXCEPT !.paused = ~@], [mode |-> ModeSent, paused |-> ~Settings.paused])

OtherMode == IF Settings.mode = "guaranteed" THEN "share" ELSE "guaranteed"

ToggleMode == SetMode([Settings EXCEPT !.mode = OtherMode], [mode |-> OtherMode])

----------------------------------------------------------------------------
\* The server.

\* applyReorderPriority takes a permutation of its entries, and nothing else.
Accepts(batch) ==
    batch.key = OrderKey =>
        Len(batch.action) = Len(factory.list) /\ ToSet(batch.action) = ToSet(factory.list)

\* applySetPriorityMode: a field not sent keeps what it was.
Applied(batch) ==
    IF batch.key = OrderKey THEN [factory EXCEPT !.list = batch.action, !.version = @ + 1]
    ELSE [factory EXCEPT !.set.mode = batch.action.mode, !.version = @ + 1,
                         !.set.paused = IF "paused" \in DOMAIN batch.action
                                        THEN batch.action.paused ELSE @]

Serve ==
    /\ line # <<>> /\ line[1].phase = "queued" /\ Accepts(line[1])
    /\ factory' = Applied(line[1])
    /\ line' = [line EXCEPT ![1].phase = "served", ![1].body = factory', ![1].adopted = TRUE]
    /\ UNCHANGED <<snapshot, held, seq, drag, confirm, told>>

\* Rejected by the engine, or dropped: a client bug, an identity that ended.
Refuse ==
    /\ line # <<>> /\ line[1].phase = "queued"
    /\ line' = [line EXCEPT ![1].phase = "landed"]
    /\ told' = [told EXCEPT !.refused = TRUE]
    /\ UNCHANGED <<factory, snapshot, held, seq, drag, confirm>>

\* Another page of the same account, or a re-pin that brings an entry.
Foreign ==
    /\ ~told.foreign
    /\ told' = [told EXCEPT !.foreign = TRUE]
    /\ \/ factory' = [factory EXCEPT !.list = Reverse(@), !.set.paused = ~@, !.version = @ + 1]
       \/ factory' = [factory EXCEPT !.list = Append(@, Newcomer), !.version = @ + 1]
    /\ UNCHANGED <<snapshot, held, seq, line, drag, confirm>>

\* A milestone opens a tier, and rows appear.
TierUp ==
    /\ factory.tier = 0
    /\ factory' = [factory EXCEPT !.tier = 1, !.version = @ + 1]
    /\ UNCHANGED <<snapshot, held, seq, line, drag, confirm, told>>

----------------------------------------------------------------------------
\* Answers.

NotOlder(body) == body.version >= snapshot.version

Refresh ==
    /\ snapshot' = factory
    /\ UNCHANGED <<factory, held, seq, line, drag, confirm, told>>

\* Mutant of Land: the batch settles before its answer is adopted.
LandUnread ==
    /\ line # <<>> /\ line[1].phase = "served"
    /\ line' = [line EXCEPT ![1].phase = "landed"]
    /\ UNCHANGED <<factory, snapshot, held, seq, drag, confirm, told>>

\* The outbox awaits the adoption of the answer before it settles the batch.
Land ==
    /\ line # <<>> /\ line[1].phase = "served"
    /\ snapshot' = IF NotOlder(line[1].body) THEN line[1].body ELSE snapshot
    /\ line' = [line EXCEPT ![1].phase = "landed"]
    /\ UNCHANGED <<factory, held, seq, drag, confirm, told>>

Settle ==
    /\ line # <<>> /\ line[1].phase = "landed"
    /\ held' = Releasing(held, line[1].key, line[1].token)
    /\ line' = Tail(line)
    /\ UNCHANGED <<factory, snapshot, seq, drag, confirm, told>>

PriorityNext ==
    \/ \E id \in Entries : StepRow(id, -1) \/ StepRow(id, 1) \/ StartDrag(id)
    \/ \E to \in 1..Cardinality(Entries) : Drop(to)
    \/ CancelDrag \/ AnswerMove \/ AnswerCancel \/ TogglePause \/ ToggleMode
    \/ Serve \/ Refuse \/ Foreign \/ TierUp \/ Refresh \/ Land \/ Settle

----------------------------------------------------------------------------

Unsettled(key) == {i \in DOMAIN line : line[i].key = key}

\* use-pending.ts:6-7: a control shows what the newest of its unsettled requests asked for, and
\* the server's value exactly when there is none, in whatever order requests are made, refused,
\* overtaken and settled.
HeldIsNewest ==
    \A key \in {OrderKey, SettingsKey} :
        IF Unsettled(key) = {} THEN ~HeldKey(held, key)
        ELSE \E i \in Unsettled(key) :
                /\ \A j \in Unsettled(key) : j <= i
                /\ held[key] = [value |-> line[i].value, token |-> line[i].token]

\* use-pending.ts:2-5, Q-10: nothing the list shows moves when a request that was granted
\* settles, nor ever by a snapshot that lands under it, while this page is the only one.
NoJump ==
    [][(Settle /\ line[1].adopted) \/ Land =>
          told.foreign \/ told.refused \/ (All' = All /\ Settings' = Settings)]_priorities

\* Q-9, PriorityList.tsx:176-194: power is off the top only after a warning was answered "Move".
PowerLeavesWarned ==
    factory.list[1] # Power => told.warned \/ told.foreign

\* PriorityList.tsx:204-213, actions/economy.ts:45-71: with every request settled and none refused, the
\* server has the order and the settings last asked for, though each request carries only what
\* its control changed and a mode it read; and power left the top only behind the warning.
AskedLands ==
    /\ line = <<>> /\ ~told.foreign /\ ~told.refused =>
           factory.list = told.list /\ factory.set = told.set
    /\ PowerLeavesWarned

\* The order an open warning would send is the one shown but for the row it moves. It is
\* computed when the move is asked for, and the other rows stay live under it, so the code does
\* not hold this; no run checks it.
WarningIsCurrent ==
    confirm # NoConfirm /\ ToSet(confirm.next) = ToSet(All) =>
        SelectSeq(confirm.next, LAMBDA x : x \in ToSet(Rows) \ {confirm.id}) = Remove(Rows, confirm.id)

\* use-pending.ts, PriorityList.tsx: what was asked last is what is shown, and in the end what is.
AskedHolds == HeldIsNewest /\ AskedLands
=============================================================================
