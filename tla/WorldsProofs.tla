---------------------------- MODULE WorldsProofs ----------------------------
(***************************************************************************)
(* Proofs about the world store, for every set of slots, keys, bodies and  *)
(* versions, every retention and every bound.                              *)
(***************************************************************************)
EXTENDS Worlds, SequenceTheorems, TLAPS

-----------------------------------------------------------------------------
(***************************************************************************)
(* Type correctness.                                                       *)
(***************************************************************************)

\* Capping a body keeps it a body and never lets its TAPs exceed the budget.
LEMMA CapTapsType ==
    ASSUME NEW body \in Body, NEW budget \in Int
    PROVE  /\ CapTaps(body, budget) \in Body
           /\ CapTaps(body, budget).taps <= Larger(0, budget)
           /\ CapTaps(body, budget).taps <= body.taps
<1>. DEFINE n == Smaller(body.taps, Larger(0, budget))
<1>1. body.taps \in Nat /\ n \in Nat /\ n <= Larger(0, budget) /\ n <= body.taps
    BY DEF Body, Smaller, Larger
<1>2. CapTaps(body, budget) = [body EXCEPT !.taps = n]
    BY DEF CapTaps
<1>. HIDE DEF n
<1>3. QED
    BY <1>1, <1>2 DEF Body

\* The step of a stamped request is a well-formed step.
LEMMA StepOfType ==
    ASSUME TypeOK, NEW r \in Slots, req[r].phase = "stamped"
    PROVE  /\ req[r] \in [phase : {"stamped"}, key : Keys, body : Bodies, at : 0 .. MaxClock]
           /\ req[r].body \in Body
           /\ TapClock \in Nat
           /\ StepOf(req[r]) \in Steps
           /\ StepOf(req[r]).body = CapTaps(req[r].body, req[r].at - TapClock)
           /\ StepOf(req[r]).at = req[r].at
           /\ StepOf(req[r]).key = req[r].key
           /\ StepOf(req[r]).ver = contentVersion
<1>1. req[r] \in [phase : {"stamped"}, key : Keys, body : Bodies, at : 0 .. MaxClock]
    BY DEF TypeOK, Requests, Idle
<1>2. req[r].body \in Body /\ req[r].at \in 0 .. MaxClock /\ req[r].key \in Keys
    BY <1>1, BodyAssumption
<1>3. TapClock \in Nat
    BY BoundsAssumption DEF TypeOK, TapClock, NoTime
<1>4. CapTaps(req[r].body, req[r].at - TapClock) \in Body
    BY <1>2, <1>3, CapTapsType, BoundsAssumption
<1>5. contentVersion \in Versions
    BY ContentAssumption DEF TypeOK
<1>6. QED
    BY <1>1, <1>2, <1>3, <1>4, <1>5 DEF StepOf, Step, Steps

\* A re-pin's step is well-formed.
LEMMA MigrateStepType ==
    ASSUME TypeOK, NEW r \in Slots, req[r].phase = "migrating"
    PROVE  /\ req[r] \in [phase : {"migrating"}, to : Versions, at : 0 .. MaxClock]
           /\ Step(req[r].at, req[r].to, NoBody, NoKey) \in Steps
           /\ Step(req[r].at, req[r].to, NoBody, NoKey).ver = req[r].to
<1>1. req[r] \in [phase : {"migrating"}, to : Versions, at : 0 .. MaxClock]
    BY DEF TypeOK, Requests, Idle
<1>2. NoBody \in Body
    BY DEF NoBody, Body
<1>3. QED
    BY <1>1, <1>2 DEF Step, Steps

\* Replaying rows from a state gives a state.
LEMMA ReplayType ==
    ASSUME NEW from \in States, NEW rows \in Seq(Steps)
    PROVE  /\ Replay(from, rows) \in States
           /\ Replay(from, rows).steps = from.steps \o rows
<1>1. from.steps \in Seq(Steps) /\ from.label \in {Label[v] : v \in Versions}
    BY DEF States
<1>2. from.steps \o rows \in Seq(Steps)
    BY <1>1, ConcatProperties
<1>3. rows # <<>> => Label[rows[Len(rows)].ver] \in {Label[v] : v \in Versions}
    <2>1. SUFFICES ASSUME rows # <<>>
                   PROVE  rows[Len(rows)] \in Steps
        BY DEF Steps
    <2>2. Len(rows) \in 1 .. Len(rows)
        BY <2>1, EmptySeq
    <2>3. QED
        BY <2>2, ElementOfSeq
<1>4. QED
    BY <1>1, <1>2, <1>3 DEF Replay, States

LEMMA ReplayBaseType ==
    ASSUME TypeOK
    PROVE  ReplayBase \in States
BY ContentAssumption, EmptySeq DEF TypeOK, ReplayBase, Start, States

\* The initial state is well typed.
LEMMA InitTypeOK == Init => TypeOK
<1>1. <<>> \in Seq(Steps)
    BY EmptySeq
<1>2. QED
    BY <1>1, BoundsAssumption, ContentAssumption
    DEF Init, TypeOK, Start, States, NoTime, NoBase, NoRow, NoJob, Requests, Idle

\* Every step keeps the types.
LEMMA NextTypeOK == TypeOK /\ [Next]_vars => TypeOK'
<1>. SUFFICES ASSUME TypeOK, [Next]_vars
              PROVE  TypeOK'
    OBVIOUS
<1>1. CASE Tick
    BY <1>1, BoundsAssumption
    DEF Tick, TypeOK, Larger, worldVars, baseVars, reqVars
<1>2. CASE StepBack
    BY <1>2, BoundsAssumption
    DEF StepBack, TypeOK, worldVars, baseVars, reqVars
<1>3. ASSUME NEW r \in Slots, NEW k \in Keys, NEW b \in Bodies, Receive(r, k, b)
      PROVE  TypeOK'
    <2>1. Stamped(k, b, clock) \in Requests
        BY DEF Stamped, Requests, TypeOK
    <2>2. QED
        BY <1>3, <2>1, BoundsAssumption
        DEF Receive, TypeOK, clockVars, worldVars, baseVars
<1>4. ASSUME NEW r \in Slots, Abort(r)
      PROVE  TypeOK'
    <2>1. Idle \in Requests
        BY DEF Requests
    <2>2. QED
        BY <1>4, <2>1 DEF Abort, TypeOK, clockVars, worldVars, baseVars
<1>5. ASSUME NEW r \in Slots, Repeat(r)
      PROVE  TypeOK'
    <2>1. req[r].key \in Keys
        BY <1>5, StepOfType DEF Repeat
    <2>2. idem[req[r].key] \in [status : {200, 409}, n : Nat, at : 0 .. MaxClock]
        BY <1>5, <2>1 DEF Repeat, Seen, TypeOK
    <2>3. Answered(req[r].key, idem[req[r].key].status, idem[req[r].key].n) \in Requests
        BY <2>1, <2>2 DEF Answered, Requests
    <2>4. QED
        BY <1>5, <2>3 DEF Repeat, TypeOK, clockVars, worldVars, baseVars
<1>6. ASSUME NEW r \in Slots, NEW status \in {200, 409}, NEW n \in Nat,
             req[r].phase = "stamped", Respond(r, status, n)
      PROVE  /\ idem' \in [Keys -> {NoRow} \cup [status : {200, 409}, n : Nat, at : 0 .. MaxClock]]
             /\ req' \in [Slots -> Requests]
    <2>1. req[r].key \in Keys /\ req[r].at \in 0 .. MaxClock
        BY <1>6, StepOfType
    <2>2. Stored(status, n, req[r].at) \in [status : {200, 409}, n : Nat, at : 0 .. MaxClock]
        BY <2>1 DEF Stored
    <2>3. Answered(req[r].key, status, n) \in Requests
        BY <2>1 DEF Answered, Requests
    <2>4. QED
        BY <1>6, <2>1, <2>2, <2>3 DEF Respond, TypeOK
<1>7. ASSUME NEW r \in Slots, Reject(r)
      PROVE  TypeOK'
    <2>1. stateVersion \in Nat
        BY DEF TypeOK
    <2>2. QED
        BY <1>6, <1>7, <2>1 DEF Reject, TypeOK, clockVars, worldVars, baseVars
<1>8. ASSUME NEW r \in Slots, Apply(r)
      PROVE  TypeOK'
    <2>. DEFINE q == req[r]  step == StepOf(q)
    <2>1. /\ step \in Steps /\ step.body \in Body /\ step.body.taps \in Nat
          /\ q.at \in 0 .. MaxClock /\ q.body \in Body
        BY <1>8, StepOfType DEF Apply, Steps, Body
    <2>2. NextVersion \in Nat
        BY DEF NextVersion, TypeOK
    <2>3. state' \in States
        <3>1. state' = [state EXCEPT !.steps = Append(@, step)]
            BY <1>8 DEF Apply, Run
        <3>2. Append(state.steps, step) \in Seq(Steps)
            BY <2>1, AppendProperties DEF TypeOK, States
        <3>3. QED
            BY <3>1, <3>2 DEF TypeOK, States
    <2>4. log' \in Seq(Steps)
        BY <1>8, <2>1, AppendProperties DEF Apply, LogRow, TypeOK
    <2>5. lastTapFlush' \in {NoTime} \cup 0 .. MaxClock
        BY <1>8, <2>1, BoundsAssumption DEF Apply, FlushAfter, Larger, TypeOK, NoTime
    <2>6. granted' \in Nat /\ lastSeen' \in 0 .. MaxClock /\ stateVersion' \in Nat
        BY <1>8, <2>1, <2>2 DEF Apply, TypeOK
    <2>7. /\ idem' \in [Keys -> {NoRow} \cup [status : {200, 409}, n : Nat, at : 0 .. MaxClock]]
          /\ req' \in [Slots -> Requests]
        BY <1>6, <1>8, <2>2 DEF Apply
    <2>8. QED
        BY <1>8, <2>3, <2>4, <2>5, <2>6, <2>7 DEF Apply, TypeOK, clockVars, baseVars
<1>9. ASSUME NEW r \in Slots, NEW v \in Versions, ReceiveMigrate(r, v)
      PROVE  TypeOK'
    <2>1. Migrating(v, clock) \in Requests
        BY DEF Migrating, Requests, TypeOK
    <2>2. QED
        BY <1>9, <2>1, BoundsAssumption
        DEF ReceiveMigrate, TypeOK, clockVars, worldVars, baseVars
<1>10. ASSUME NEW r \in Slots, RefuseMigrate(r)
       PROVE  TypeOK'
    <2>1. Idle \in Requests
        BY DEF Requests
    <2>2. QED
        BY <1>10, <2>1 DEF RefuseMigrate, TypeOK, clockVars, worldVars, baseVars
<1>11. ASSUME NEW r \in Slots, Migrate(r)
       PROVE  TypeOK'
    <2>. DEFINE q == req[r]  step == Step(q.at, q.to, NoBody, NoKey)
    <2>1. step \in Steps /\ q.to \in Versions /\ q.to \in Published
        BY <1>11, MigrateStepType DEF Migrate, Compatible
    <2>2. state' \in States
        <3>1. state' = [Run(state, step) EXCEPT !.label = Label[q.to]]
            BY <1>11 DEF Migrate
        <3>2. Append(state.steps, step) \in Seq(Steps)
            BY <2>1, AppendProperties DEF TypeOK, States
        <3>3. Run(state, step) \in States
            BY <3>2 DEF TypeOK, States, Run
        <3>4. QED
            BY <3>1, <3>3, <2>1 DEF States
    <2>3. log' \in Seq(Steps)
        BY <1>11, <2>1, AppendProperties DEF Migrate, TypeOK
    <2>4. req' \in [Slots -> Requests]
        BY <1>11 DEF Migrate, TypeOK, Requests
    <2>5. contentVersion' \in Published /\ stateVersion' \in Nat
        BY <1>11, <2>1 DEF Migrate, NextVersion, TypeOK
    <2>6. QED
        BY <1>11, <2>2, <2>3, <2>4, <2>5 DEF Migrate, TypeOK, clockVars, baseVars
<1>12. CASE StartCleanup
    BY <1>12 DEF StartCleanup, TypeOK, clockVars, worldVars, baseVars, reqVars
<1>13. CASE StopCleanup
    BY <1>13 DEF StopCleanup, TypeOK, clockVars, worldVars, baseVars, reqVars
<1>14. CASE CompactLog
    <2>1. PICK edge \in 0 .. Len(log) :
            IF edge = 0
            THEN UNCHANGED <<baseVars, log>>
            ELSE /\ base' = Replay(ReplayBase, SubSeq(log, 1, edge))
                 /\ baseAt' = log[edge].at
                 /\ log' = SubSeq(log, edge + 1, Len(log))
        BY <1>14 DEF CompactLog
    <2>2. job' \in {NoJob} \cup [step : {"compact", "prune"}, now : 0 .. MaxClock]
        BY <1>14 DEF CompactLog, TypeOK, NoJob
    <2>3. Len(log) \in Nat
        BY LenProperties DEF TypeOK
    <2>4. base' \in {NoBase} \cup States /\ baseAt' \in {NoTime} \cup 0 .. MaxClock /\ log' \in Seq(Steps)
        <3>1. CASE edge = 0
            BY <2>1, <3>1 DEF TypeOK, baseVars
        <3>2. CASE edge # 0
            <4>1. edge \in 1 .. Len(log) /\ \A i \in 1 .. Len(log) : log[i] \in Steps
                BY <2>3, <3>2, ElementOfSeq DEF TypeOK
            <4>2. SubSeq(log, 1, edge) \in Seq(Steps) /\ SubSeq(log, edge + 1, Len(log)) \in Seq(Steps)
                BY <2>3, <4>1, SubSeqProperties
            <4>3. QED
                BY <2>1, <3>2, <4>1, <4>2, ReplayType, ReplayBaseType DEF Steps
        <3>3. QED
            BY <3>1, <3>2
    <2>5. QED
        BY <1>14, <2>2, <2>4 DEF CompactLog, TypeOK, clockVars, worldVars, reqVars
<1>15. CASE CompactFails
    BY <1>15 DEF CompactFails, TypeOK, NoJob, clockVars, worldVars, baseVars, reqVars
<1>16. CASE PruneIdempotency
    BY <1>16 DEF PruneIdempotency, TypeOK, clockVars, worldVars, baseVars, reqVars
<1>17. CASE UNCHANGED vars
    BY <1>17 DEF vars, TypeOK, clockVars, worldVars, baseVars, reqVars
<1>18. QED
    BY <1>1, <1>2, <1>3, <1>4, <1>5, <1>7, <1>8, <1>9, <1>10, <1>11, <1>12, <1>13,
       <1>14, <1>15, <1>16, <1>17 DEF Next

\* Every variable of the world store keeps its type.
THEOREM TypeCorrect == Spec => []TypeOK
BY InitTypeOK, NextTypeOK, PTL DEF Spec

-----------------------------------------------------------------------------
(***************************************************************************)
(* The TAP budget.                                                         *)
(***************************************************************************)

\* One batch spends at most the time between the flush clock and its stamp, and moves the
\* flush clock at least that far if it holds a TAP.
LEMMA ApplyKeepsCeiling ==
    ASSUME TypeOK, TapCeiling, NEW r \in Slots, Apply(r)
    PROVE  TapCeiling'
<1>. DEFINE q == req[r]  step == StepOf(q)  spent == step.body.taps
<1>1. req[r].phase = "stamped"
    BY DEF Apply
<1>2. /\ q.body \in Bodies /\ q.body \in Body /\ q.at \in Nat
      /\ TapClock \in Nat
      /\ step.body = CapTaps(q.body, q.at - TapClock)
    BY <1>1, StepOfType, BoundsAssumption
<1>3. spent \in Nat /\ spent <= Larger(0, q.at - TapClock) /\ spent <= q.body.taps
    <2>1. q.at - TapClock \in Int
        BY <1>2
    <2>2. /\ CapTaps(q.body, q.at - TapClock) \in Body
          /\ CapTaps(q.body, q.at - TapClock).taps <= Larger(0, q.at - TapClock)
          /\ CapTaps(q.body, q.at - TapClock).taps <= q.body.taps
        BY <1>2, <2>1, CapTapsType
    <2>3. CapTaps(q.body, q.at - TapClock).taps \in Nat
        BY <2>2 DEF Body
    <2>4. QED
        BY <1>2, <2>2, <2>3
<1>4. granted \in Nat /\ granted <= TapClock /\ granted' = granted + spent
    BY DEF TypeOK, TapCeiling, Apply
<1>5. lastTapFlush \in Int /\ lastTapFlush >= NoTime
    BY BoundsAssumption DEF TypeOK, NoTime
<1>. HIDE DEF spent
<1>6. CASE q.body.hasTap
    <2>1. lastTapFlush' = Larger(lastTapFlush, q.at)
        BY <1>6 DEF Apply, FlushAfter
    <2>2. TapClock' = Larger(TapClock, q.at)
        BY <1>2, <1>5, <2>1 DEF TapClock, Larger, NoTime
    <2>3. QED
        BY <1>2, <1>3, <1>4, <2>2 DEF TapCeiling, Larger
<1>7. CASE ~q.body.hasTap
    <2>1. q.body.taps = 0
        BY <1>2, <1>7, BodyAssumption
    <2>2. TapClock' = TapClock
        BY <1>7 DEF Apply, FlushAfter, TapClock
    <2>3. QED
        BY <1>3, <1>4, <2>1, <2>2 DEF TapCeiling
<1>8. QED
    BY <1>6, <1>7

\* Only a batch touches the TAP clock and what it granted.
LEMMA OthersKeepCeiling ==
    ASSUME TapCeiling, [Next]_vars, \A r \in Slots : ~Apply(r)
    PROVE  TapCeiling'
<1>1. UNCHANGED <<granted, lastTapFlush>>
    BY DEF Next, vars, worldVars, Tick, StepBack, Receive, Abort, Repeat, Reject, ReceiveMigrate,
           RefuseMigrate, Migrate, StartCleanup, StopCleanup, CompactLog, CompactFails,
           PruneIdempotency
<1>2. QED
    BY <1>1 DEF TapCeiling, TapClock

\* R-19: whatever clients claim and in whatever order batches commit, a world is never
\* granted more TAP time than passed between its creation and its last TAP batch.
THEOREM TapCeilingHolds == Spec => []TapCeiling
<1>1. Init => TapCeiling
    BY DEF Init, TapCeiling, TapClock
<1>2. TypeOK /\ TapCeiling /\ [Next]_vars => TapCeiling'
    BY ApplyKeepsCeiling, OthersKeepCeiling
<1>3. QED
    BY <1>1, <1>2, TypeCorrect, PTL DEF Spec

-----------------------------------------------------------------------------
(***************************************************************************)
(* Exact replay.  The inductive invariant says where the state came from:  *)
(* its history is the base's history followed by the kept log, its label   *)
(* is the one that replay ends on, and no step of it was rejected.         *)
(***************************************************************************)
ReplayInv ==
    /\ Replay(ReplayBase, log) = state
    /\ Accepted(state.steps)
    /\ state.label = Label[contentVersion]

\* Appending a step that is not rejected keeps a history accepted.
LEMMA AppendAccepted ==
    ASSUME NEW steps \in Seq(Steps), NEW step \in Steps,
           Accepted(steps), ~Rejects(steps, step)
    PROVE  Accepted(Append(steps, step))
<1>. DEFINE s == Append(steps, step)  n == Len(steps)
<1>1. /\ s \in Seq(Steps) /\ Len(s) = n + 1 /\ n \in Nat
      /\ \A i \in 1 .. n : s[i] = steps[i]
      /\ s[n + 1] = step
      /\ DOMAIN s = 1 .. n + 1 /\ DOMAIN steps = 1 .. n
    BY AppendProperties, LenProperties
<1>2. s = steps \o <<step>>
    BY AppendIsConcat
<1>3. \A i \in 1 .. n + 1 : SubSeq(s, 1, i - 1) = SubSeq(steps, 1, i - 1)
    <2>1. SUFFICES ASSUME NEW i \in 1 .. n + 1
                   PROVE  SubSeq(s, 1, i - 1) = SubSeq(steps, 1, i - 1)
        OBVIOUS
    <2>2. CASE i = 1
        BY <2>2, SubSeqEmpty
    <2>3. CASE i # 1
        <3>1. i - 1 \in 1 .. n /\ 1 \in 1 .. n
            BY <1>1, <2>3
        <3>2. <<step>> \in Seq(Steps)
            OBVIOUS
        <3>3. QED
            BY <1>2, <3>1, <3>2, SubSeqOfConcat1
    <2>4. QED
        BY <2>2, <2>3
<1>4. SubSeq(steps, 1, n) = steps
    BY SubSeqFull
<1>. HIDE DEF s
<1>5. \A i \in 1 .. n + 1 : ~Rejects(SubSeq(s, 1, i - 1), s[i])
    <2>1. SUFFICES ASSUME NEW i \in 1 .. n + 1
                   PROVE  ~Rejects(SubSeq(s, 1, i - 1), s[i])
        OBVIOUS
    <2>2. CASE i = n + 1
        <3>1. SubSeq(s, 1, i - 1) = steps /\ s[i] = step
            BY <1>1, <1>3, <1>4, <2>2
        <3>2. QED
            BY <3>1
    <2>3. CASE i # n + 1
        <3>1. i \in DOMAIN steps /\ SubSeq(s, 1, i - 1) = SubSeq(steps, 1, i - 1) /\ s[i] = steps[i]
            BY <1>1, <1>3, <2>3
        <3>2. QED
            BY <3>1 DEF Accepted
    <2>4. QED
        BY <2>2, <2>3
<1>6. QED
    BY <1>1, <1>5 DEF Accepted, s

LEMMA StepsAssociative ==
    \A s, t, u \in Seq(Steps) : (s \o t) \o u = s \o (t \o u)
BY ConcatAssociative

\* Replaying one more row runs one more step and takes the row's label.
LEMMA ReplayAppend ==
    ASSUME NEW from \in States, NEW rows \in Seq(Steps), NEW row \in Steps
    PROVE  Replay(from, Append(rows, row)) =
           [steps |-> Append(Replay(from, rows).steps, row), label |-> Label[row.ver]]
<1>1. from.steps \in Seq(Steps)
    BY DEF States
<1>2. /\ Append(rows, row) \in Seq(Steps) /\ Append(rows, row) # <<>>
      /\ Append(rows, row)[Len(Append(rows, row))] = row
    BY AppendProperties
<1>3. from.steps \o Append(rows, row) = Append(from.steps \o rows, row)
    <2>1. /\ <<row>> \in Seq(Steps)
          /\ Append(rows, row) = rows \o <<row>>
          /\ from.steps \o rows \in Seq(Steps)
          /\ Append(from.steps \o rows, row) = (from.steps \o rows) \o <<row>>
        BY <1>1, AppendIsConcat, ConcatProperties
    <2>2. (from.steps \o rows) \o <<row>> = from.steps \o (rows \o <<row>>)
        BY <1>1, <2>1, StepsAssociative
    <2>3. QED
        BY <2>1, <2>2, Zenon
<1>4. QED
    BY <1>2, <1>3 DEF Replay

\* Folding a prefix of the rows into the base does not change what the rest replays to.
LEMMA ReplayFold ==
    ASSUME NEW from \in States, NEW rows \in Seq(Steps), NEW edge \in 1 .. Len(rows)
    PROVE  /\ SubSeq(rows, 1, edge) \in Seq(Steps)
           /\ SubSeq(rows, edge + 1, Len(rows)) \in Seq(Steps)
           /\ Replay(from, SubSeq(rows, 1, edge)).steps # <<>>
           /\ Replay(Replay(from, SubSeq(rows, 1, edge)), SubSeq(rows, edge + 1, Len(rows)))
              = Replay(from, rows)
<1>. DEFINE old == SubSeq(rows, 1, edge)
            kept == SubSeq(rows, edge + 1, Len(rows))
<1>1. Len(rows) \in Nat /\ from.steps \in Seq(Steps) /\ \A i \in 1 .. Len(rows) : rows[i] \in Steps
    BY LenProperties, ElementOfSeq DEF States
<1>2. /\ old \in Seq(Steps) /\ Len(old) = edge /\ old[edge] = rows[edge]
      /\ kept \in Seq(Steps) /\ Len(kept) = Len(rows) - edge
      /\ \A i \in 1 .. Len(rows) - edge : kept[i] = rows[edge + i]
    <2>1. /\ old \in Seq(Steps) /\ Len(old) = edge
          /\ \A i \in 1 .. edge : old[i] = rows[i]
        BY <1>1, SubSeqProperties
    <2>2. /\ kept \in Seq(Steps)
          /\ Len(kept) = IF edge + 1 <= Len(rows) THEN Len(rows) - (edge + 1) + 1 ELSE 0
          /\ \A i \in 1 .. Len(rows) - (edge + 1) + 1 : kept[i] = rows[(edge + 1) + i - 1]
        <3>1. \A i \in edge + 1 .. Len(rows) : rows[i] \in Steps
            BY <1>1
        <3>2. QED
            BY <1>1, <3>1, SubSeqProperties
    <2>3. QED
        BY <1>1, <2>1, <2>2
<1>3. old \o kept = rows
    <2>1. SubSeq(rows, 1, edge) \o SubSeq(rows, edge + 1, Len(rows)) = SubSeq(rows, 1, Len(rows))
        <3>1. 1 \in 1 .. Len(rows) + 1 /\ edge \in 1 - 1 .. Len(rows) /\ Len(rows) \in edge .. Len(rows)
            BY <1>1
        <3>2. QED
            BY <3>1, ConcatAdjacentSubSeq
    <2>2. QED
        BY <2>1, SubSeqFull
<1>. HIDE DEF old, kept
<1>4. rows # <<>> /\ old # <<>>
    BY <1>1, <1>2, EmptySeq
<1>5. from.steps \o old # <<>>
    BY <1>1, <1>2, <1>4, ConcatSimplifications
<1>6. (from.steps \o old) \o kept = from.steps \o rows
    BY <1>1, <1>2, <1>3, StepsAssociative
<1>7. (IF kept = <<>> THEN Label[old[Len(old)].ver] ELSE Label[kept[Len(kept)].ver])
      = Label[rows[Len(rows)].ver]
    <2>1. CASE kept = <<>>
        <3>1. edge = Len(rows)
            BY <1>1, <1>2, <2>1
        <3>2. QED
            BY <1>2, <2>1, <3>1
    <2>2. CASE kept # <<>>
        <3>1. Len(kept) \in 1 .. Len(rows) - edge /\ edge + Len(kept) = Len(rows)
            BY <1>1, <1>2, <2>2, EmptySeq
        <3>2. kept[Len(kept)] = rows[Len(rows)]
            BY <1>2, <3>1
        <3>3. QED
            BY <2>2, <3>2
    <2>3. QED
        BY <2>1, <2>2
<1>8. Replay(Replay(from, old), kept) = Replay(from, rows)
    BY <1>4, <1>6, <1>7 DEF Replay
<1>9. QED
    BY <1>2, <1>5, <1>8 DEF Replay, old, kept

\* Compaction keeps the replay exact.
LEMMA CompactKeepsReplay ==
    ASSUME TypeOK, ReplayInv, CompactLog
    PROVE  ReplayInv'
<1>1. UNCHANGED <<state, contentVersion>>
    BY DEF CompactLog, worldVars
<1>2. PICK edge \in 0 .. Len(log) :
        IF edge = 0
        THEN UNCHANGED <<baseVars, log>>
        ELSE /\ base' = Replay(ReplayBase, SubSeq(log, 1, edge))
             /\ baseAt' = log[edge].at
             /\ log' = SubSeq(log, edge + 1, Len(log))
    BY DEF CompactLog
<1>3. Len(log) \in Nat /\ log \in Seq(Steps)
    BY LenProperties DEF TypeOK
<1>4. CASE edge = 0
    BY <1>1, <1>2, <1>4 DEF ReplayInv, ReplayBase, Replay, baseVars
<1>5. CASE edge # 0
    <2>1. edge \in 1 .. Len(log)
        BY <1>3, <1>5
    <2>2. base'.steps # <<>>
        BY <1>2, <1>3, <1>5, <2>1, ReplayBaseType, ReplayFold
    <2>3. ReplayBase' = base'
        BY <2>2 DEF ReplayBase, NoBase
    <2>4. Replay(base', log') = Replay(ReplayBase, log)
        BY <1>2, <1>3, <1>5, <2>1, ReplayBaseType, ReplayFold
    <2>5. Replay(ReplayBase', log') = state'
        BY <1>1, <2>3, <2>4 DEF ReplayInv
    <2>6. Accepted(state.steps)' /\ (state.label = Label[contentVersion])'
        BY <1>1 DEF ReplayInv, Accepted
    <2>7. QED
        BY <2>5, <2>6 DEF ReplayInv, Replay
<1>6. QED
    BY <1>4, <1>5

\* A step that logs the row it runs keeps the replay exact.
LEMMA RunKeepsReplay ==
    ASSUME TypeOK, ReplayInv, NEW step \in Steps,
           ~Rejects(state.steps, step),
           log' = Append(log, step),
           state' = [steps |-> Append(state.steps, step), label |-> Label[step.ver]],
           contentVersion' = step.ver,
           UNCHANGED base
    PROVE  ReplayInv'
<1>1. log \in Seq(Steps) /\ ReplayBase \in States /\ state.steps \in Seq(Steps)
    BY ReplayBaseType DEF TypeOK, States
<1>2. ReplayBase' = ReplayBase
    BY DEF ReplayBase
<1>3. Replay(ReplayBase, log') = state'
    BY <1>1, ReplayAppend DEF ReplayInv
<1>4. Accepted(state'.steps)
    BY <1>1, AppendAccepted DEF ReplayInv
<1>5. state'.label = Label[contentVersion']
    OBVIOUS
<1>6. QED
    BY <1>2, <1>3, <1>4, <1>5 DEF ReplayInv, Replay, Accepted

\* Base plus kept log replays the world exactly, through capping, re-pins, compaction,
\* crashes and any order of stamps.
THEOREM ReplayExactHolds == Spec => []ReplayExact
<1>1. Init => ReplayInv
    <2>1. <<>> \o <<>> = <<>>
        BY ConcatEmptySeq, EmptySeq
    <2>2. QED
        BY <2>1 DEF Init, ReplayInv, Replay, ReplayBase, Accepted, Start
<1>2. TypeOK /\ ReplayInv /\ [Next]_vars => ReplayInv'
    <2>. SUFFICES ASSUME TypeOK, ReplayInv, [Next]_vars
                  PROVE  ReplayInv'
        OBVIOUS
    <2>1. ASSUME NEW r \in Slots, Apply(r)
          PROVE  ReplayInv'
        <3>. DEFINE step == StepOf(req[r])
        <3>1. step \in Steps /\ step.ver = contentVersion
            BY <2>1, StepOfType DEF Apply
        <3>2. ~Rejects(state.steps, step) /\ log' = Append(log, step)
            BY <2>1 DEF Apply, LogRow
        <3>3. state' = [steps |-> Append(state.steps, step), label |-> state.label]
            BY <2>1 DEF Apply, Run, TypeOK, States
        <3>4. state.label = Label[step.ver] /\ contentVersion' = step.ver /\ UNCHANGED base
            BY <2>1, <3>1 DEF Apply, ReplayInv, baseVars
        <3>. HIDE DEF step
        <3>5. QED
            BY <3>1, <3>2, <3>3, <3>4, RunKeepsReplay
    <2>2. ASSUME NEW r \in Slots, Migrate(r)
          PROVE  ReplayInv'
        <3>. DEFINE step == Step(req[r].at, req[r].to, NoBody, NoKey)
        <3>1. step \in Steps /\ step.ver = req[r].to
            BY <2>2, MigrateStepType DEF Migrate
        <3>2. ~Rejects(state.steps, step) /\ log' = Append(log, step)
            BY <2>2 DEF Migrate, Compatible
        <3>3. state' = [steps |-> Append(state.steps, step), label |-> Label[req[r].to]]
            BY <2>2 DEF Migrate, Run, TypeOK, States
        <3>4. contentVersion' = req[r].to /\ UNCHANGED base
            BY <2>2 DEF Migrate, baseVars
        <3>. HIDE DEF step
        <3>5. QED
            BY <3>1, <3>2, <3>3, <3>4, RunKeepsReplay
    <2>3. CASE CompactLog
        BY <2>3, CompactKeepsReplay
    <2>4. CASE UNCHANGED <<state, contentVersion, base, log>>
        BY <2>4 DEF ReplayInv, Replay, ReplayBase, Accepted
    <2>5. QED
        BY <2>1, <2>2, <2>3, <2>4
        DEF Next, vars, worldVars, baseVars, Tick, StepBack, Receive, Abort, Repeat, Reject,
            ReceiveMigrate, RefuseMigrate, StartCleanup, StopCleanup, CompactFails,
            PruneIdempotency
<1>3. ReplayInv => ReplayExact
    <2>1. Replay(ReplayBase, log).steps = ReplayBase.steps \o log
        BY DEF Replay
    <2>2. QED
        BY <2>1 DEF ReplayInv, ReplayExact
<1>4. QED
    BY <1>1, <1>2, <1>3, TypeCorrect, PTL DEF Spec

-----------------------------------------------------------------------------
(***************************************************************************)
(* Applied once within the retention.  The inductive invariant: a step's   *)
(* key still has the response stored with it, or the step is older than    *)
(* the retention.                                                          *)
(***************************************************************************)
Expired(step) == high - step.at > IdemRetention
Remembered(step) == step.key \in Keys /\ idem[step.key].at = step.at

RetentionInv ==
    /\ clock <= high /\ job.now <= high
    /\ \A i \in DOMAIN state.steps :
        LET step == state.steps[i] IN step.key # NoKey => Remembered(step) \/ Expired(step)
    /\ OnceWithinRetention

\* What a typed history looks like, element by element.
LEMMA StepsOfState ==
    ASSUME TypeOK
    PROVE  /\ state.steps \in Seq(Steps) /\ Len(state.steps) \in Nat
           /\ DOMAIN state.steps = 1 .. Len(state.steps)
           /\ \A i \in DOMAIN state.steps :
                /\ state.steps[i] \in Steps
                /\ state.steps[i].at \in Nat
                /\ state.steps[i].key \in Keys \cup {NoKey}
<1>1. state.steps \in Seq(Steps)
    BY DEF TypeOK, States
<1>2. Len(state.steps) \in Nat /\ DOMAIN state.steps = 1 .. Len(state.steps)
    BY <1>1, LenProperties
<1>3. \A i \in 1 .. Len(state.steps) : state.steps[i] \in Steps
    BY <1>1, ElementOfSeq
<1>4. QED
    BY <1>1, <1>2, <1>3, BoundsAssumption DEF Steps

\* Steps that leave the history alone, never wind `high` back and forget no response.
LEMMA QuietKeepsRetention ==
    ASSUME TypeOK, TypeOK', RetentionInv, UNCHANGED state, high' >= high,
           clock' <= high', job'.now <= high',
           \A k \in Keys : \/ idem'[k] = idem[k]
                           \/ idem[k] = NoRow
                           \/ high' - idem[k].at > IdemRetention
    PROVE  RetentionInv'
<1>1. high \in Nat /\ high' \in Nat /\ IdemRetention \in Nat
    BY BoundsAssumption DEF TypeOK
<1>2. \A i \in DOMAIN state.steps : Expired(state.steps[i]) => Expired(state.steps[i])'
    BY <1>1, StepsOfState DEF Expired
<1>3. \A i \in DOMAIN state.steps :
        Remembered(state.steps[i]) => Remembered(state.steps[i])' \/ Expired(state.steps[i])'
    <2>1. SUFFICES ASSUME NEW i \in DOMAIN state.steps, Remembered(state.steps[i])
                   PROVE  Remembered(state.steps[i])' \/ Expired(state.steps[i])'
        OBVIOUS
    <2>2. state.steps[i].key \in Keys /\ state.steps[i].at \in Nat
        BY <2>1, StepsOfState DEF Remembered
    <2>3. idem[state.steps[i].key].at = state.steps[i].at
        BY <2>1 DEF Remembered
    <2>4. idem[state.steps[i].key] # NoRow
        BY <2>2, <2>3 DEF NoRow, NoTime
    <2>5. QED
        BY <2>2, <2>3, <2>4 DEF Remembered, Expired
<1>4. OnceWithinRetention'
    BY <1>1, StepsOfState DEF RetentionInv, OnceWithinRetention
<1>5. QED
    BY <1>2, <1>3, <1>4 DEF RetentionInv

\* A batch is applied only when no response is stored for its key, so every earlier step
\* with that key has expired.
LEMMA ApplyKeepsRetention ==
    ASSUME TypeOK, TypeOK', RetentionInv, NEW r \in Slots, Apply(r)
    PROVE  RetentionInv'
<1>. DEFINE q == req[r]  step == StepOf(q)  n == Len(state.steps)
<1>1. req[r].phase = "stamped"
    BY DEF Apply
<1>2. /\ q.key \in Keys /\ q.at \in Nat
      /\ step \in Steps /\ step.at = q.at /\ step.key = q.key
    BY <1>1, StepOfType, BoundsAssumption
<1>3. /\ n \in Nat /\ DOMAIN state.steps = 1 .. n /\ DOMAIN state'.steps = 1 .. n + 1
      /\ state'.steps[n + 1] = step
      /\ \A i \in 1 .. n : state'.steps[i] = state.steps[i]
    <2>1. state'.steps = Append(state.steps, step)
        BY DEF Apply, Run, TypeOK, States
    <2>2. QED
        BY <1>2, <2>1, StepsOfState, AppendProperties, LenProperties
<1>4. high' = high /\ clock' = clock /\ job' = job
    BY DEF Apply, clockVars
<1>5. idem[q.key] = NoRow /\ idem' = [idem EXCEPT ![q.key] = Stored(200, NextVersion, q.at)]
    BY DEF Apply, Seen, Respond
<1>6. \A i \in 1 .. n : state.steps[i].key = q.key => Expired(state.steps[i])
    <2>1. SUFFICES ASSUME NEW i \in 1 .. n, state.steps[i].key = q.key
                   PROVE  Expired(state.steps[i])
        OBVIOUS
    <2>2. i \in DOMAIN state.steps /\ state.steps[i].key # NoKey /\ state.steps[i].at \in Nat
        BY <1>2, <1>3, <2>1, StepsOfState, KeyAssumption
    <2>3. ~Remembered(state.steps[i])
        BY <1>5, <2>1, <2>2 DEF Remembered, NoRow, NoTime
    <2>4. QED
        BY <2>2, <2>3 DEF RetentionInv
<1>7. \A i \in 1 .. n + 1 : state'.steps[i].key # NoKey =>
            Remembered(state.steps[i])' \/ Expired(state.steps[i])'
    <2>1. SUFFICES ASSUME NEW i \in 1 .. n + 1, state'.steps[i].key # NoKey
                   PROVE  Remembered(state.steps[i])' \/ Expired(state.steps[i])'
        OBVIOUS
    <2>2. CASE i = n + 1
        <3>1. state'.steps[i].key = q.key /\ state'.steps[i].at = q.at
            BY <1>2, <1>3, <2>2
        <3>2. idem'[q.key].at = q.at
            BY <1>2, <1>5 DEF Stored, TypeOK
        <3>3. QED
            BY <1>2, <3>1, <3>2 DEF Remembered
    <2>3. CASE i # n + 1
        <3>1. i \in 1 .. n /\ state'.steps[i] = state.steps[i]
            BY <1>3, <2>3
        <3>2. Remembered(state.steps[i]) \/ Expired(state.steps[i])
            BY <1>3, <2>1, <3>1 DEF RetentionInv
        <3>3. CASE state.steps[i].key = q.key
            BY <1>4, <1>6, <3>1, <3>3 DEF Expired
        <3>4. CASE state.steps[i].key # q.key
            <4>1. \A k \in Keys : k # q.key => idem'[k] = idem[k]
                BY <1>5 DEF TypeOK
            <4>2. QED
                BY <1>4, <3>1, <3>2, <3>4, <4>1 DEF Remembered, Expired
        <3>5. QED
            BY <3>3, <3>4
    <2>4. QED
        BY <2>2, <2>3
<1>8. OnceWithinRetention'
    <2>1. SUFFICES ASSUME NEW i \in 1 .. n + 1, NEW j \in 1 .. n + 1, i < j,
                          state'.steps[i].key = state'.steps[j].key,
                          state'.steps[i].key # NoKey
                   PROVE  high' - state'.steps[i].at > IdemRetention'
        BY <1>3 DEF OnceWithinRetention
    <2>2. i \in 1 .. n /\ state'.steps[i] = state.steps[i]
        BY <1>3, <2>1
    <2>3. CASE j = n + 1
        BY <1>2, <1>3, <1>4, <1>6, <2>1, <2>2, <2>3 DEF Expired
    <2>4. CASE j # n + 1
        <3>1. j \in 1 .. n /\ state'.steps[j] = state.steps[j]
            BY <1>3, <2>1, <2>4
        <3>2. QED
            BY <1>3, <1>4, <2>1, <2>2, <3>1 DEF RetentionInv, OnceWithinRetention
    <2>5. QED
        BY <2>3, <2>4
<1>9. QED
    BY <1>3, <1>4, <1>7, <1>8 DEF RetentionInv

\* A re-pin's step carries no key.
LEMMA MigrateKeepsRetention ==
    ASSUME TypeOK, TypeOK', RetentionInv, NEW r \in Slots, Migrate(r)
    PROVE  RetentionInv'
<1>. DEFINE q == req[r]  step == Step(q.at, q.to, NoBody, NoKey)  n == Len(state.steps)
<1>1. step \in Steps /\ step.key = NoKey
    BY MigrateStepType DEF Migrate, Step
<1>2. /\ n \in Nat /\ DOMAIN state.steps = 1 .. n /\ DOMAIN state'.steps = 1 .. n + 1
      /\ state'.steps[n + 1] = step
      /\ \A i \in 1 .. n : state'.steps[i] = state.steps[i]
    <2>1. state'.steps = Append(state.steps, step)
        BY DEF Migrate, Run, TypeOK, States
    <2>2. QED
        BY <1>1, <2>1, StepsOfState, AppendProperties, LenProperties
<1>3. high' = high /\ clock' = clock /\ job' = job /\ idem' = idem
    BY DEF Migrate, clockVars
<1>. HIDE DEF step, n
<1>4. OnceWithinRetention'
    <2>1. SUFFICES ASSUME NEW i \in 1 .. n + 1, NEW j \in 1 .. n + 1, i < j,
                          state'.steps[i].key = state'.steps[j].key,
                          state'.steps[i].key # NoKey
                   PROVE  high' - state'.steps[i].at > IdemRetention'
        BY <1>2 DEF OnceWithinRetention
    <2>2. j \in 1 .. n /\ i \in 1 .. n
        BY <1>1, <1>2, <2>1
    <2>3. QED
        BY <1>2, <1>3, <2>1, <2>2 DEF RetentionInv, OnceWithinRetention
<1>5. QED
    BY <1>1, <1>2, <1>3, <1>4 DEF RetentionInv, Remembered, Expired

\* The retention invariant holds in every state.
LEMMA RetentionInvHolds == Spec => []RetentionInv
<1>1. Init => RetentionInv
    BY BoundsAssumption DEF Init, RetentionInv, OnceWithinRetention, Start, NoJob, NoTime
<1>2. TypeOK /\ TypeOK' /\ RetentionInv /\ [Next]_vars => RetentionInv'
    <2>. SUFFICES ASSUME TypeOK, TypeOK', RetentionInv, [Next]_vars
                  PROVE  RetentionInv'
        OBVIOUS
    <2>1. /\ clock \in Nat /\ high \in Nat /\ clock' \in Nat /\ high' \in Nat
          /\ job.now \in Int /\ IdemRetention \in Nat
          /\ clock <= high /\ job.now <= high
        BY BoundsAssumption DEF TypeOK, RetentionInv, NoJob, NoTime
    <2>2. CASE Tick \/ StepBack
        BY <2>1, <2>2, QuietKeepsRetention
        DEF Tick, StepBack, Larger, worldVars
    <2>3. ASSUME NEW r \in Slots, Reject(r)
          PROVE  RetentionInv'
        <3>1. \A k \in Keys : idem'[k] = idem[k] \/ idem[k] = NoRow
            BY <2>3 DEF Reject, Respond, Seen, TypeOK
        <3>2. UNCHANGED <<state, high, clock, job>>
            BY <2>3 DEF Reject, worldVars, clockVars
        <3>3. QED
            BY <2>1, <3>1, <3>2, QuietKeepsRetention
    <2>4. ASSUME NEW r \in Slots, Apply(r)
          PROVE  RetentionInv'
        BY <2>4, ApplyKeepsRetention
    <2>5. ASSUME NEW r \in Slots, Migrate(r)
          PROVE  RetentionInv'
        BY <2>5, MigrateKeepsRetention
    <2>6. CASE StartCleanup
        BY <2>1, <2>6, QuietKeepsRetention DEF StartCleanup, worldVars, clockVars
    <2>7. CASE StopCleanup \/ CompactLog \/ CompactFails
        <3>1. job'.now <= high
            <4>1. CASE StopCleanup
                BY <2>1, <4>1 DEF StopCleanup, NoJob, NoTime
            <4>2. CASE CompactLog \/ CompactFails
                <5>1. job' = [job EXCEPT !.step = "prune"]
                    BY <4>2 DEF CompactLog, CompactFails
                <5>2. job'.now = job.now
                    BY <5>1 DEF TypeOK, NoJob
                <5>3. QED
                    BY <2>1, <5>2
            <4>3. QED
                BY <2>7, <4>1, <4>2
        <3>2. UNCHANGED <<state, high, clock, idem>>
            BY <2>7 DEF StopCleanup, CompactLog, CompactFails, worldVars, clockVars
        <3>3. QED
            BY <2>1, <3>1, <3>2, QuietKeepsRetention
    <2>8. CASE PruneIdempotency
        <3>1. /\ UNCHANGED <<state, high, clock>> /\ job'.now = NoTime
              /\ \A k \in Keys : \/ idem'[k] = idem[k]
                                 \/ idem[k].at < job.now - IdemRetention
            BY <2>8 DEF PruneIdempotency, worldVars, clockVars, NoJob
        <3>2. \A k \in Keys : idem[k].at \in Int
            BY BoundsAssumption DEF TypeOK, NoRow, NoTime
        <3>3. \A k \in Keys : idem'[k] = idem[k] \/ high' - idem[k].at > IdemRetention
            BY <2>1, <3>1, <3>2
        <3>4. QED
            BY <2>1, <3>1, <3>3, QuietKeepsRetention DEF NoTime
    <2>9. CASE UNCHANGED <<state, high, clock, job, idem>>
        BY <2>1, <2>9, QuietKeepsRetention
    <2>10. QED
        BY <2>2, <2>3, <2>4, <2>5, <2>6, <2>7, <2>8, <2>9
        DEF Next, vars, worldVars, clockVars, Receive, Abort, Repeat, ReceiveMigrate,
            RefuseMigrate
<1>3. QED
    BY <1>1, <1>2, TypeCorrect, PTL DEF Spec

\* No batch reaches the world a second time while its first response is within the
\* retention, whatever the client retries and however the job interleaves.
THEOREM OnceWithinRetentionHolds == Spec => []OnceWithinRetention
<1>1. RetentionInv => OnceWithinRetention
    BY DEF RetentionInv
<1>2. QED
    BY <1>1, RetentionInvHolds, PTL

-----------------------------------------------------------------------------
\* A state_version names one state: whatever changes the state raises the version.
THEOREM VersionNamesStateHolds == Spec => VersionNamesState
<1>1. TypeOK /\ [Next]_vars => [state' # state => stateVersion' > stateVersion]_vars
    <2>. SUFFICES ASSUME TypeOK, Next, state' # state
                  PROVE  stateVersion' > stateVersion
        OBVIOUS
    <2>1. \E r \in Slots : Apply(r) \/ Migrate(r)
        BY DEF Next, worldVars, Tick, StepBack, Receive, Abort, Repeat, Reject, ReceiveMigrate,
               RefuseMigrate, StartCleanup, StopCleanup, CompactLog, CompactFails,
               PruneIdempotency
    <2>2. QED
        BY <2>1 DEF Apply, Migrate, NextVersion, TypeOK
<1>2. QED
    BY <1>1, TypeCorrect, PTL DEF Spec, VersionNamesState

-----------------------------------------------------------------------------
(***************************************************************************)
(* What clients are told.  The inductive invariant: the state's version    *)
(* counts its steps, so a stored 200 names the step that produced it; a    *)
(* step whose key was never pruned still has its response; a stored 409    *)
(* stands for a key no step has; and an answer already sent is the stored  *)
(* one until its key is pruned.                                            *)
(***************************************************************************)
StepsOfKey(k) == {i \in DOMAIN state.steps : state.steps[i].key = k}

RowTrue(k) ==
    /\ idem[k].status = 200 => idem[k].n \in StepsOfKey(k)
    /\ idem[k].status = 409 /\ k \notin pruned => StepsOfKey(k) = {}
    /\ idem[k] = NoRow /\ k \notin pruned => StepsOfKey(k) = {}

AnswerHeld(q) ==
    /\ q.status = 200 => q.n \in StepsOfKey(q.key)
    /\ q.key \notin pruned => /\ idem[q.key] # NoRow
                              /\ idem[q.key].status = q.status
                              /\ idem[q.key].n = q.n

AnswersInv ==
    /\ stateVersion = Len(state.steps)
    /\ \A k \in Keys : RowTrue(k)
    /\ \A r \in Slots : req[r].phase = "answered" => AnswerHeld(req[r])

\* What an answered request and a stored row are made of.
LEMMA AnsweredType ==
    ASSUME TypeOK
    PROVE  /\ \A r \in Slots : req[r].phase = "answered" =>
                /\ req[r].key \in Keys /\ req[r].status \in {200, 409}
                /\ req[r] = Answered(req[r].key, req[r].status, req[r].n)
           /\ \A k \in Keys : idem[k] # NoRow => idem[k].status \in {200, 409}
           /\ NoRow.status = 0
<1>1. ASSUME NEW r \in Slots, req[r].phase = "answered"
      PROVE  /\ req[r].key \in Keys /\ req[r].status \in {200, 409}
             /\ req[r] = Answered(req[r].key, req[r].status, req[r].n)
    <2>1. req[r] \in [phase : {"answered"}, key : Keys, status : {200, 409}, n : Nat]
        BY <1>1 DEF TypeOK, Requests, Idle
    <2>2. QED
        BY <2>1 DEF Answered
<1>2. \A k \in Keys : idem[k] # NoRow => idem[k].status \in {200, 409}
    BY DEF TypeOK
<1>3. QED
    BY <1>1, <1>2 DEF NoRow

\* A step that touches neither the history nor a stored response, and answers nobody anew,
\* keeps every answer sound.
LEMMA QuietKeepsAnswers ==
    ASSUME AnswersInv, UNCHANGED <<state, stateVersion, idem, pruned>>,
           \A r \in Slots : req'[r] = req[r] \/ req'[r].phase # "answered"
    PROVE  AnswersInv'
<1>1. \A k : StepsOfKey(k)' = StepsOfKey(k)
    BY DEF StepsOfKey
<1>2. \A k \in Keys : RowTrue(k)'
    BY <1>1 DEF AnswersInv, RowTrue
<1>3. ASSUME NEW r \in Slots, req'[r].phase = "answered"
      PROVE  AnswerHeld(req[r])'
    <2>1. req'[r] = req[r] /\ AnswerHeld(req[r])
        BY <1>3 DEF AnswersInv
    <2>2. QED
        BY <1>1, <2>1 DEF AnswerHeld
<1>4. QED
    BY <1>2, <1>3 DEF AnswersInv

\* A repeat is told what is stored.
LEMMA RepeatKeepsAnswers ==
    ASSUME TypeOK, AnswersInv, NEW r \in Slots, Repeat(r)
    PROVE  AnswersInv'
<1>. DEFINE k == req[r].key
<1>1. k \in Keys /\ idem[k] # NoRow
    BY StepOfType DEF Repeat, Seen
<1>2. req' = [req EXCEPT ![r] = Answered(k, idem[k].status, idem[k].n)]
    BY DEF Repeat
<1>3. UNCHANGED <<state, stateVersion, idem, pruned>>
    BY DEF Repeat, worldVars
<1>4. \A j : StepsOfKey(j)' = StepsOfKey(j)
    BY <1>3 DEF StepsOfKey
<1>5. \A j \in Keys : RowTrue(j)'
    BY <1>3, <1>4 DEF AnswersInv, RowTrue
<1>6. ASSUME NEW u \in Slots, req'[u].phase = "answered"
      PROVE  AnswerHeld(req[u])'
    <2>1. CASE u = r
        <3>1. req'[u] = Answered(k, idem[k].status, idem[k].n)
            BY <1>2, <2>1 DEF TypeOK
        <3>2. req'[u].key = k /\ req'[u].status = idem[k].status /\ req'[u].n = idem[k].n
            BY <3>1 DEF Answered
        <3>3. idem[k].status = 200 => idem[k].n \in StepsOfKey(k)
            BY <1>1 DEF AnswersInv, RowTrue
        <3>4. QED
            BY <1>1, <1>3, <1>4, <3>2, <3>3 DEF AnswerHeld
    <2>2. CASE u # r
        <3>1. req'[u] = req[u] /\ AnswerHeld(req[u])
            BY <1>2, <1>6, <2>2 DEF AnswersInv, TypeOK
        <3>2. QED
            BY <1>3, <1>4, <3>1 DEF AnswerHeld
    <2>3. QED
        BY <2>1, <2>2
<1>7. QED
    BY <1>3, <1>5, <1>6 DEF AnswersInv

\* Storing a first response and sending it keeps every answer sound, when a 200 names a
\* step of its key and a 409 is for a key that no step has or that was pruned.
LEMMA RespondKeepsAnswers ==
    ASSUME TypeOK, AnswersInv, NEW r \in Slots, NEW status \in {200, 409}, NEW n \in Nat,
           NEW k, k = req[r].key,
           req[r].phase = "stamped", ~Seen(req[r]), Respond(r, status, n),
           UNCHANGED pruned, stateVersion' = Len(state'.steps),
           \A j \in Keys : j # k => StepsOfKey(j)' = StepsOfKey(j),
           StepsOfKey(k) \subseteq StepsOfKey(k)',
           status = 200 => n \in StepsOfKey(k)',
           status = 409 => StepsOfKey(k)' = StepsOfKey(k)
    PROVE  AnswersInv'
<1>. DEFINE row == Stored(status, n, req[r].at)
            answer == Answered(k, status, n)
<1>1. k \in Keys /\ idem[k] = NoRow
    BY StepOfType DEF Seen
<1>2. /\ idem'[k] = row /\ \A j \in Keys : j # k => idem'[j] = idem[j]
      /\ req'[r] = answer /\ \A u \in Slots : u # r => req'[u] = req[u]
    BY <1>1 DEF Respond, TypeOK
<1>3. /\ row.status = status /\ row.n = n /\ row # NoRow
      /\ answer.key = k /\ answer.status = status /\ answer.n = n
    BY DEF Stored, Answered, NoRow
<1>. HIDE DEF row, answer
<1>4. k \notin pruned => StepsOfKey(k) = {}
    BY <1>1 DEF AnswersInv, RowTrue
<1>5. ASSUME NEW j \in Keys
      PROVE  RowTrue(j)'
    <2>1. CASE j = k
        BY <1>2, <1>3, <1>4, <2>1 DEF RowTrue
    <2>2. CASE j # k
        <3>1. idem'[j] = idem[j] /\ StepsOfKey(j)' = StepsOfKey(j) /\ RowTrue(j)
            BY <1>2, <2>2 DEF AnswersInv
        <3>2. QED
            BY <3>1 DEF RowTrue
    <2>3. QED
        BY <2>1, <2>2
<1>6. ASSUME NEW u \in Slots, req'[u].phase = "answered"
      PROVE  AnswerHeld(req[u])'
    <2>1. CASE u = r
        BY <1>2, <1>3, <2>1 DEF AnswerHeld
    <2>2. CASE u # r
        <3>1. req'[u] = req[u] /\ AnswerHeld(req[u]) /\ req[u].key \in Keys
            BY <1>2, <1>6, <2>2, AnsweredType DEF AnswersInv
        <3>2. CASE req[u].key = k
            <4>1. k \in pruned
                BY <1>1, <3>1, <3>2 DEF AnswerHeld
            <4>2. QED
                BY <3>1, <3>2, <4>1 DEF AnswerHeld
        <3>3. CASE req[u].key # k
            <4>1. /\ idem'[req[u].key] = idem[req[u].key]
                  /\ StepsOfKey(req[u].key)' = StepsOfKey(req[u].key)
                BY <1>2, <3>1, <3>3
            <4>2. QED
                BY <3>1, <4>1 DEF AnswerHeld
        <3>4. QED
            BY <3>2, <3>3
    <2>3. QED
        BY <2>1, <2>2
<1>7. QED
    BY <1>5, <1>6 DEF AnswersInv

\* Running a step adds it, under the next version, to the steps of its key.
LEMMA RunExtendsKeys ==
    ASSUME TypeOK, AnswersInv, NEW step \in Steps, state'.steps = Append(state.steps, step),
           stateVersion' = NextVersion
    PROVE  /\ stateVersion' = Len(state'.steps)
           /\ \A k : k # step.key => StepsOfKey(k)' = StepsOfKey(k)
           /\ StepsOfKey(step.key)' = StepsOfKey(step.key) \cup {NextVersion}
<1>. DEFINE n == Len(state.steps)
<1>1. /\ n \in Nat /\ DOMAIN state.steps = 1 .. n /\ DOMAIN state'.steps = 1 .. n + 1
      /\ Len(state'.steps) = n + 1
      /\ state'.steps[n + 1] = step
      /\ \A i \in 1 .. n : state'.steps[i] = state.steps[i]
    BY StepsOfState, AppendProperties, LenProperties
<1>2. NextVersion = n + 1
    BY DEF AnswersInv, NextVersion
<1>. HIDE DEF n
<1>3. \A k : k # step.key => StepsOfKey(k)' = StepsOfKey(k)
    BY <1>1 DEF StepsOfKey
<1>4. StepsOfKey(step.key)' = StepsOfKey(step.key) \cup {n + 1}
    BY <1>1 DEF StepsOfKey
<1>5. QED
    BY <1>1, <1>2, <1>3, <1>4

\* Every step keeps what clients were told sound.
LEMMA NextKeepsAnswers == TypeOK /\ AnswersInv /\ [Next]_vars => AnswersInv'
<1>. SUFFICES ASSUME TypeOK, AnswersInv, [Next]_vars
              PROVE  AnswersInv'
    OBVIOUS
<1>1. CASE UNCHANGED <<state, stateVersion, idem, pruned, req>>
    BY <1>1, QuietKeepsAnswers
<1>2. ASSUME NEW r \in Slots,
             \/ \E k \in Keys, b \in Bodies : Receive(r, k, b)
             \/ Abort(r)
             \/ \E v \in Versions : ReceiveMigrate(r, v)
             \/ RefuseMigrate(r)
      PROVE  AnswersInv'
    <2>1. \A u \in Slots : req'[u] = req[u] \/ req'[u].phase # "answered"
        BY <1>2 DEF Receive, Abort, ReceiveMigrate, RefuseMigrate, Stamped, Migrating, Idle, TypeOK
    <2>2. UNCHANGED <<state, stateVersion, idem, pruned>>
        BY <1>2 DEF Receive, Abort, ReceiveMigrate, RefuseMigrate, worldVars
    <2>3. QED
        BY <2>1, <2>2, QuietKeepsAnswers
<1>3. ASSUME NEW r \in Slots, Repeat(r)
      PROVE  AnswersInv'
    BY <1>3, RepeatKeepsAnswers
<1>4. ASSUME NEW r \in Slots, Reject(r)
      PROVE  AnswersInv'
    <2>1. /\ req[r].phase = "stamped" /\ ~Seen(req[r]) /\ Respond(r, 409, stateVersion)
          /\ UNCHANGED <<state, stateVersion, pruned>>
        BY <1>4 DEF Reject, worldVars
    <2>2. stateVersion \in Nat /\ stateVersion' = Len(state'.steps)
        BY <2>1 DEF AnswersInv, TypeOK
    <2>3. \A k : StepsOfKey(k)' = StepsOfKey(k)
        BY <2>1 DEF StepsOfKey
    <2>4. PICK k : k = req[r].key
        OBVIOUS
    <2>5. QED
        BY <2>1, <2>2, <2>3, <2>4, RespondKeepsAnswers
<1>5. ASSUME NEW r \in Slots, Apply(r)
      PROVE  AnswersInv'
    <2>1. /\ req[r].phase = "stamped" /\ ~Seen(req[r]) /\ Respond(r, 200, NextVersion)
          /\ UNCHANGED pruned /\ stateVersion' = NextVersion
        BY <1>5 DEF Apply
    <2>2. PICK step \in Steps : step = StepOf(req[r]) /\ step.key = req[r].key
        BY <2>1, StepOfType
    <2>3. state'.steps = Append(state.steps, step)
        BY <1>5, <2>2 DEF Apply, Run, TypeOK, States
    <2>4. /\ stateVersion' = Len(state'.steps)
          /\ \A k : k # step.key => StepsOfKey(k)' = StepsOfKey(k)
          /\ StepsOfKey(step.key)' = StepsOfKey(step.key) \cup {NextVersion}
        BY <2>1, <2>2, <2>3, RunExtendsKeys
    <2>5. PICK n \in Nat : n = NextVersion
        BY DEF NextVersion, TypeOK
    <2>6. Respond(r, 200, n) /\ n \in StepsOfKey(step.key)'
        BY <2>1, <2>4, <2>5
    <2>7. QED
        BY <2>1, <2>2, <2>4, <2>6, RespondKeepsAnswers
<1>6. ASSUME NEW r \in Slots, Migrate(r)
      PROVE  AnswersInv'
    <2>1. /\ stateVersion' = NextVersion /\ UNCHANGED <<idem, pruned>>
          /\ req' = [req EXCEPT ![r] = Idle]
        BY <1>6 DEF Migrate
    <2>2. PICK step \in Steps :
            step = Step(req[r].at, req[r].to, NoBody, NoKey) /\ step.key = NoKey
        BY <1>6, MigrateStepType DEF Migrate, Step
    <2>3. state'.steps = Append(state.steps, step)
        BY <1>6, <2>2 DEF Migrate, Run, TypeOK, States
    <2>4. stateVersion' = Len(state'.steps) /\ \A k \in Keys : StepsOfKey(k)' = StepsOfKey(k)
        BY <2>1, <2>2, <2>3, RunExtendsKeys, KeyAssumption
    <2>5. \A k \in Keys : RowTrue(k)'
        BY <2>1, <2>4 DEF AnswersInv, RowTrue
    <2>6. ASSUME NEW u \in Slots, req'[u].phase = "answered"
          PROVE  AnswerHeld(req[u])'
        <3>1. req'[u] = req[u] /\ AnswerHeld(req[u]) /\ req[u].key \in Keys
            BY <2>1, <2>6, AnsweredType DEF AnswersInv, TypeOK, Idle
        <3>2. QED
            BY <2>1, <2>4, <3>1 DEF AnswerHeld
    <2>7. QED
        BY <2>4, <2>5, <2>6 DEF AnswersInv
<1>7. CASE PruneIdempotency
    <2>1. /\ UNCHANGED <<state, stateVersion, req>> /\ pruned \subseteq pruned'
          /\ \A k \in Keys : idem'[k] = idem[k] \/ (idem'[k] = NoRow /\ k \in pruned')
        <3>1. PICK old : /\ idem' = [k \in Keys |-> IF k \in old THEN NoRow ELSE idem[k]]
                         /\ pruned' = pruned \cup old
            BY <1>7 DEF PruneIdempotency
        <3>2. QED
            BY <1>7, <3>1 DEF PruneIdempotency, worldVars, reqVars
    <2>2. \A k : StepsOfKey(k)' = StepsOfKey(k)
        BY <2>1 DEF StepsOfKey
    <2>3. ASSUME NEW k \in Keys
          PROVE  RowTrue(k)'
        <3>1. CASE idem'[k] = idem[k]
            BY <2>1, <2>2, <3>1 DEF AnswersInv, RowTrue
        <3>2. CASE idem'[k] = NoRow /\ k \in pruned'
            BY <3>2 DEF RowTrue, NoRow
        <3>3. QED
            BY <2>1, <3>1, <3>2
    <2>4. ASSUME NEW u \in Slots, req'[u].phase = "answered"
          PROVE  AnswerHeld(req[u])'
        <3>1. req'[u] = req[u] /\ AnswerHeld(req[u]) /\ req[u].key \in Keys
            BY <2>1, <2>4, AnsweredType DEF AnswersInv
        <3>2. QED
            BY <2>1, <2>2, <3>1 DEF AnswerHeld
    <2>5. QED
        BY <2>1, <2>3, <2>4 DEF AnswersInv
<1>8. QED
    BY <1>1, <1>2, <1>3, <1>4, <1>5, <1>6, <1>7
    DEF Next, vars, worldVars, reqVars, Tick, StepBack, StartCleanup, StopCleanup, CompactLog,
        CompactFails

\* Two answers to one key agree, and each says what happened.
LEMMA AnswersFollow == TypeOK /\ AnswersInv => AnswersAgree /\ AnswersTrue
<1>. SUFFICES ASSUME TypeOK, AnswersInv
              PROVE  AnswersAgree /\ AnswersTrue
    OBVIOUS
<1>1. ASSUME NEW r \in Slots, NEW u \in Slots,
             req[r].phase = "answered", req[u].phase = "answered",
             req[r].key = req[u].key, req[r].key \notin pruned
      PROVE  req[r] = req[u]
    <2>1. req[r].status = req[u].status /\ req[r].n = req[u].n
        BY <1>1 DEF AnswersInv, AnswerHeld
    <2>2. QED
        BY <1>1, <2>1, AnsweredType
<1>2. ASSUME NEW r \in Slots, req[r].phase = "answered"
      PROVE  /\ req[r].status = 200 => req[r].n \in StepsOfKey(req[r].key)
             /\ req[r].status = 409 /\ req[r].key \notin pruned => StepsOfKey(req[r].key) = {}
    <2>1. AnswerHeld(req[r]) /\ req[r].key \in Keys /\ RowTrue(req[r].key)
        BY <1>2, AnsweredType DEF AnswersInv
    <2>2. QED
        BY <2>1 DEF AnswerHeld, RowTrue
<1>3. AnswersAgree
    BY <1>1 DEF AnswersAgree
<1>4. AnswersTrue
    BY <1>2 DEF AnswersTrue, StepsOfKey
<1>5. QED
    BY <1>3, <1>4

-----------------------------------------------------------------------------
\* Compaction folds away only rows that were past the retention when the job began.
LEMMA CompactKeepsOld ==
    ASSUME TypeOK, RetentionInv, CompactedIsOld, CompactLog
    PROVE  CompactedIsOld'
<1>1. high' = high /\ high \in Nat /\ LogRetention \in Nat /\ job.now \in Int /\ job.now <= high
    BY BoundsAssumption DEF CompactLog, clockVars, RetentionInv, TypeOK, NoJob, NoTime
<1>2. PICK edge \in 0 .. Len(log) :
        /\ IsEdge(edge, job.now - LogRetention)
        /\ IF edge = 0
           THEN UNCHANGED <<baseVars, log>>
           ELSE base' = Replay(ReplayBase, SubSeq(log, 1, edge))
    BY DEF CompactLog
<1>3. Len(log) \in Nat /\ log \in Seq(Steps) /\ \A i \in 1 .. Len(log) : log[i] \in Steps
    BY LenProperties, ElementOfSeq DEF TypeOK
<1>4. CASE edge = 0
    BY <1>1, <1>2, <1>4 DEF CompactedIsOld, ReplayBase, baseVars
<1>5. CASE edge # 0
    <2>. DEFINE old == SubSeq(log, 1, edge)  kept == ReplayBase.steps
    <2>1. edge \in 1 .. Len(log)
        BY <1>3, <1>5
    <2>2. /\ old \in Seq(Steps) /\ Len(old) = edge
          /\ \A i \in 1 .. edge : old[i] = log[i]
        BY <1>3, <2>1, SubSeqProperties
    <2>3. base'.steps = kept \o old /\ base'.steps # <<>>
        BY <1>2, <1>3, <1>5, <2>1, <2>2, ReplayBaseType, ReplayType, ReplayFold
    <2>4. ReplayBase' = base'
        <3>1. base'.steps # <<>>
            BY <2>3
        <3>2. NoBase.steps = <<>>
            BY DEF NoBase
        <3>3. base' # NoBase
            BY <3>1, <3>2
        <3>4. QED
            BY <3>3 DEF ReplayBase
    <2>5. \A i \in 1 .. edge : high - old[i].at > LogRetention
        <3>1. \A i \in 1 .. edge : log[i].at < job.now - LogRetention /\ log[i].at \in Int
            BY <1>2, <1>3, <2>1, BoundsAssumption DEF IsEdge, Steps
        <3>2. QED
            BY <1>1, <2>2, <3>1
    <2>6. kept \in Seq(Steps)
        BY ReplayBaseType DEF States
    <2>7. \A i \in 1 .. Len(kept) : high - kept[i].at > LogRetention
        BY <2>6, LenProperties DEF CompactedIsOld
    <2>. HIDE DEF old, kept
    <2>8. ASSUME NEW i \in DOMAIN (kept \o old)
          PROVE  high - (kept \o old)[i].at > LogRetention
        <3>1. /\ Len(kept) \in Nat /\ Len(old) \in Nat
              /\ i \in 1 .. Len(kept) + Len(old)
              /\ (kept \o old)[i] = IF i <= Len(kept) THEN kept[i] ELSE old[i - Len(kept)]
            BY <2>2, <2>6, <2>8, ConcatProperties, LenProperties
        <3>2. CASE i <= Len(kept)
            BY <2>7, <3>1, <3>2
        <3>3. CASE ~(i <= Len(kept))
            BY <2>2, <2>5, <3>1, <3>3
        <3>4. QED
            BY <3>2, <3>3
    <2>9. QED
        BY <1>1, <2>3, <2>4, <2>8 DEF CompactedIsOld
<1>6. QED
    BY <1>4, <1>5

\* Time only moves the latest clock value on, so what was old stays old.
LEMMA NextKeepsOld == TypeOK /\ RetentionInv /\ CompactedIsOld /\ [Next]_vars => CompactedIsOld'
<1>. SUFFICES ASSUME TypeOK, RetentionInv, CompactedIsOld, [Next]_vars, ~CompactLog
              PROVE  CompactedIsOld'
    BY CompactKeepsOld
<1>1. UNCHANGED base
    BY DEF Next, vars, baseVars, Tick, StepBack, Receive, Abort, Repeat, Reject, Apply,
           ReceiveMigrate, RefuseMigrate, Migrate, StartCleanup, StopCleanup, CompactFails,
           PruneIdempotency
<1>2. high' = high \/ high' = Larger(high, clock + 1)
    BY DEF Next, vars, clockVars, Tick, StepBack, Receive, Abort, Repeat, Reject, Apply,
           ReceiveMigrate, RefuseMigrate, Migrate, StartCleanup, StopCleanup, CompactFails,
           PruneIdempotency
<1>3. high \in Nat /\ high' \in Nat /\ high' >= high /\ LogRetention \in Nat
    BY <1>2, BoundsAssumption DEF TypeOK, Larger
<1>4. \A i \in DOMAIN ReplayBase.steps : ReplayBase.steps[i].at \in Nat
    <2>1. ReplayBase.steps \in Seq(Steps)
        BY ReplayBaseType DEF States
    <2>2. \A i \in DOMAIN ReplayBase.steps : ReplayBase.steps[i] \in Steps
        BY <2>1, LenProperties, ElementOfSeq
    <2>3. QED
        BY <2>2, BoundsAssumption DEF Steps
<1>5. ReplayBase' = ReplayBase
    BY <1>1 DEF ReplayBase
<1>6. QED
    BY <1>3, <1>4, <1>5 DEF CompactedIsOld

\* Through repeats, rejections, re-pins, failed jobs and stamps out of order, two answers to
\* one key agree until its response is pruned, a 200 names the state its batch produced, a
\* 409 is for a key that changed nothing, and the base holds only what is past its retention.
THEOREM AnswersSoundHolds == Spec => []AnswersSound
<1>1. Init => AnswersInv /\ CompactedIsOld
    <2>1. Len(<<>>) = 0 /\ DOMAIN <<>> = {}
        BY EmptySeq, LenProperties
    <2>2. ASSUME Init
          PROVE  AnswersInv /\ CompactedIsOld
        <3>1. state.steps = <<>> /\ ReplayBase.steps = <<>>
            BY <2>2 DEF Init, ReplayBase, Start
        <3>2. \A k \in Keys : RowTrue(k)
            BY <2>1, <2>2, <3>1 DEF Init, RowTrue, NoRow, StepsOfKey
        <3>3. QED
            BY <2>1, <2>2, <3>1, <3>2 DEF Init, AnswersInv, CompactedIsOld, Idle
    <2>3. QED
        BY <2>2
<1>2. TypeOK /\ AnswersInv /\ CompactedIsOld => AnswersSound
    BY AnswersFollow DEF AnswersSound
<1>3. QED
    BY <1>1, <1>2, NextKeepsAnswers, NextKeepsOld, TypeCorrect, RetentionInvHolds, PTL DEF Spec
=============================================================================
