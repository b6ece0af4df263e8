---------------------------- MODULE ContentProofs ---------------------------
(***************************************************************************)
(* Content: Tarjan's walk finds the cycles of every finite graph, and with *)
(* the recipes on them taken out Kahn's walk orders every item; checks 7   *)
(* and 12 answer as a player of the bundle would find it.                  *)
(***************************************************************************)
EXTENDS Content, FiniteSetTheorems, TLAPS

----------------------------------------------------------------------------
(* The graph.                                                              *)

\* What is reached is a node.
LEMMA ReachedNodes == \A n : Reached(n) \subseteq Range(nodes)
BY DEF Reached

\* What leads only into itself holds all that is reached from there.
LEMMA ReachedLeast ==
    ASSUME NEW n, NEW S \in SUBSET Range(nodes), Successors(n) \subseteq S,
           \A m \in S : Successors(m) \subseteq S
    PROVE  Reached(n) \subseteq S
BY DEF Reached, Onward

\* A successor is reached.
LEMMA EdgeReaches == ASSUME NEW n PROVE Successors(n) \subseteq Reached(n)
BY DEF Reached, Onward, Successors

\* What is reached from what is reached is reached.
LEMMA ReachesOn ==
    ASSUME NEW n, NEW m \in Reached(n) PROVE Reached(m) \subseteq Reached(n)
BY DEF Reached, Onward

\* What is reached is a successor or reached from one.
LEMMA FirstEdge ==
    ASSUME NEW n, NEW m \in Reached(n)
    PROVE  \E s \in Successors(n) : m = s \/ m \in Reached(s)
<1> DEFINE S == Successors(n) \cup UNION {Reached(s) : s \in Successors(n)}
<1>1. S \in SUBSET Range(nodes)
  BY ReachedNodes DEF Successors
<1>2. ASSUME NEW x \in S PROVE Successors(x) \subseteq S
  <2>1. CASE x \in Successors(n)
    BY <2>1, EdgeReaches
  <2>2. CASE \E s \in Successors(n) : x \in Reached(s)
    BY <2>2, EdgeReaches, ReachesOn
  <2> QED BY <1>2, <2>1, <2>2
<1>3. Reached(n) \subseteq S
  BY <1>1, <1>2, ReachedLeast
<1> QED BY <1>3

\* The graph does not change under the walk.
LEMMA SameGraph ==
    ASSUME UNCHANGED graph
    PROVE  /\ Range(nodes)' = Range(nodes)
           /\ \A n : Successors(n)' = Successors(n)
           /\ \A n : Reached(n)' = Reached(n)
           /\ \A n : Together(n)' = Together(n)
<1>1. nodes' = nodes /\ edges' = edges
  BY DEF graph
<1>2. Range(nodes)' = Range(nodes) /\ \A n : Successors(n)' = Successors(n)
  BY <1>1 DEF Successors
<1>3. \A S : Onward(S)' = Onward(S)
  BY <1>2 DEF Onward
<1>4. \A n : Reached(n)' = Reached(n)
  BY <1>2, <1>3 DEF Reached
<1> QED BY <1>2, <1>4 DEF Together

----------------------------------------------------------------------------
(* Tarjan's walk.                                                          *)

OnStack == Range(stack)
Settled == Found \ OnStack

Frames == [node : OnStack, left : SUBSET Range(nodes)]

\* f is the node of the i-th frame.
Visits(i, f) == i \in 1..Len(frames) /\ frames[i].node = f
Open(n) == \E i \in 1..Len(frames) : frames[i].node = n

FoundOK ==
    /\ IsFiniteSet(Range(nodes)) /\ Found \subseteq Range(nodes) /\ DOMAIN low = Found
    /\ \A n \in Found : index[n] \in Nat /\ low[n] \in Nat /\ index[n] < Cardinality(Found)
    /\ \A m, n \in Found : index[m] = index[n] => m = n

ListsOK ==
    /\ stack \in Seq(Found)
    /\ \A i, j \in 1..Len(stack) : i < j => index[stack[i]] < index[stack[j]]
    /\ frames \in Seq(Frames)
    /\ \A i, j \in 1..Len(frames) : i < j => index[frames[i].node] < index[frames[j].node]
    /\ \A n \in OnStack : frames # <<>> /\ index[frames[1].node] <= index[n]

\* A visit reaches everything above it.
ReachesUp ==
    \A i \in 1..Len(frames), f, n \in OnStack :
       Visits(i, f) /\ index[f] < index[n] => n \in Reached(f)

LowReached ==
    \A n \in OnStack :
       /\ low[n] <= index[n]
       /\ ~Open(n) => low[n] < index[n]
       /\ \E m \in OnStack : index[m] = low[n] /\ (m = n \/ m \in Reached(n))

Seen(n, S) == S \subseteq Found /\ \A s \in S : s \in OnStack => low[n] <= index[s]

LookedAt ==
    /\ \A n \in OnStack : ~Open(n) => Seen(n, Successors(n))
    /\ \A i \in 1..Len(frames), f \in OnStack :
          Visits(i, f) => frames[i].left \subseteq Successors(f) /\ Seen(f, Successors(f) \ frames[i].left)

Enclosed ==
    \A i \in 1..Len(frames), f, n \in OnStack :
       /\ Visits(i, f) /\ index[f] < index[n]
       /\ \A j \in 1..Len(frames), g \in OnStack : Visits(j, g) /\ i < j => index[n] < index[g]
       => low[f] <= low[n]

SettledClosed == \A n \in Settled : Successors(n) \subseteq Settled

CyclesFound == cycles = {Together(n) : n \in {n \in Settled : n \in Reached(n)}}

WalkInv == FoundOK /\ ListsOK /\ ReachesUp /\ LowReached /\ LookedAt /\ Enclosed /\ SettledClosed /\ CyclesFound

----------------------------------------------------------------------------

\* Nothing found, nothing wrong.
LEMMA StartsRight == ASSUME StartWalk, IsFiniteSet(Range(nodes)) PROVE WalkInv
<1>1. Found = {} /\ OnStack = {} /\ Len(frames) = 0 /\ Len(stack) = 0 /\ Settled = {}
  BY DEF StartWalk, Found, OnStack, Settled, Range
<1>2. FoundOK
  BY <1>1 DEF StartWalk, FoundOK, Found
<1>3. ListsOK
  BY <1>1 DEF StartWalk, ListsOK
<1>4. CyclesFound
  BY <1>1 DEF StartWalk, CyclesFound
<1> QED
  BY <1>1, <1>2, <1>3, <1>4 DEF WalkInv, ReachesUp, LowReached, LookedAt, Enclosed, SettledClosed

\* The frames' nodes are on the stack and in the order they were found.
LEMMA FramesAre ==
    ASSUME WalkInv
    PROVE  /\ Len(frames) \in Nat /\ Len(stack) \in Nat
           /\ \A i \in 1..Len(frames) : /\ frames[i] \in Frames /\ frames[i].node \in OnStack
                                        /\ frames[i].left \subseteq Successors(frames[i].node)
           /\ OnStack \subseteq Found
           /\ frames # <<>> => Len(frames) \in 1..Len(frames)
<1>1. frames \in Seq(Frames) /\ stack \in Seq(Found)
  BY DEF WalkInv, ListsOK
<1>2. \A i \in 1..Len(frames) : frames[i] \in Frames
  BY <1>1
<1>3. \A i \in 1..Len(frames) : frames[i].node \in OnStack
  BY <1>2 DEF Frames
<1>4. \A i \in 1..Len(frames) : frames[i].left \subseteq Successors(frames[i].node)
  BY <1>3 DEF WalkInv, LookedAt, Visits
<1>5. OnStack \subseteq Found
  BY <1>1 DEF OnStack, Range
<1> QED BY <1>1, <1>2, <1>3, <1>4, <1>5

\* A successor of the visit on top is looked at.
LEMMA AdvancedIs ==
    ASSUME WalkInv, frames # <<>>, NEW c
    PROVE  /\ Advanced(c) \in Seq(Frames) /\ Len(Advanced(c)) = Len(frames)
           /\ \A i \in 1..Len(frames) :
                 /\ Advanced(c)[i].node = frames[i].node
                 /\ Advanced(c)[i].left = IF i = Len(frames) THEN frames[i].left \ {c} ELSE frames[i].left
<1>1. frames \in Seq(Frames)
  BY DEF WalkInv, ListsOK
<1>2. Len(frames) \in 1..Len(frames) /\ frames[Len(frames)] \in Frames
  BY FramesAre
<1>3. PICK e : e = [frames[Len(frames)] EXCEPT !.left = @ \ {c}]
  OBVIOUS
<1>4. e \in Frames /\ e.node = frames[Len(frames)].node /\ e.left = frames[Len(frames)].left \ {c}
  BY <1>2, <1>3 DEF Frames
<1>5. Advanced(c) = [frames EXCEPT ![Len(frames)] = e]
  BY <1>3 DEF Advanced
<1>6. PICK f, n : f = frames /\ n = Len(frames) /\ f \in Seq(Frames) /\ n \in 1..Len(f)
  BY <1>1, <1>2
<1>7. /\ [f EXCEPT ![n] = e] \in Seq(Frames) /\ Len([f EXCEPT ![n] = e]) = Len(f)
      /\ \A i \in 1..Len(f) : [f EXCEPT ![n] = e][i] = IF i = n THEN e ELSE f[i]
  BY <1>4, <1>6
<1> QED BY <1>4, <1>5, <1>6, <1>7

\* A node is found, with the visits below it as they were but for that node.
LEMMA DiscoverKeeps ==
    ASSUME WalkInv, UNCHANGED graph, NEW n \in Range(nodes), n \notin Found,
           NEW open \in Seq(Frames), Len(open) = Len(frames),
           \A i \in 1..Len(frames) :
              /\ open[i].node = frames[i].node
              /\ open[i].left = IF i = Len(frames) THEN frames[i].left \ {n} ELSE frames[i].left,
           frames # <<>> => n \in Top.left,
           Discover(n, open)
    PROVE  WalkInv'
<1> DEFINE new == Cardinality(Found)
<1>0. /\ FoundOK /\ ListsOK /\ ReachesUp /\ LowReached /\ LookedAt /\ Enclosed /\ SettledClosed
      /\ CyclesFound
  BY DEF WalkInv
<1>1. /\ Range(nodes)' = Range(nodes)
      /\ \A m : Successors(m)' = Successors(m)
      /\ \A m : Reached(m)' = Reached(m)
      /\ \A m : Together(m)' = Together(m)
  BY SameGraph
<1>2. /\ Len(frames) \in Nat /\ Len(stack) \in Nat
      /\ \A i \in 1..Len(frames) : /\ frames[i] \in Frames /\ frames[i].node \in OnStack
                                   /\ frames[i].left \subseteq Successors(frames[i].node)
      /\ OnStack \subseteq Found /\ n \notin OnStack
      /\ frames # <<>> => Len(frames) \in 1..Len(frames)
  BY FramesAre
<1>3. IsFiniteSet(Found) /\ new \in Nat /\ Cardinality(Found \cup {n}) = new + 1
  BY <1>0, FS_Subset, FS_CardinalityType, FS_AddElement DEF FoundOK
<1>4. /\ Found' = Found \cup {n} /\ DOMAIN low' = Found'
      /\ index'[n] = new /\ low'[n] = new
      /\ \A m \in Found : index'[m] = index[m] /\ low'[m] = low[m] /\ index[m] < new
  BY <1>0 DEF Discover, Numbered, Found, FoundOK
<1>5. /\ stack' = Append(stack, n) /\ frames' = Append(open, [node |-> n, left |-> Successors(n)])
      /\ cycles' = cycles
  BY DEF Discover
<1>6. /\ stack' \in Seq(Found') /\ Len(stack') = Len(stack) + 1 /\ stack'[Len(stack')] = n
      /\ \A i \in 1..Len(stack) : stack'[i] = stack[i] /\ stack[i] \in Found
  BY <1>0, <1>2, <1>4, <1>5 DEF ListsOK
<1>7. OnStack' = OnStack \cup {n}
  <2>1. DOMAIN stack = 1..Len(stack) /\ DOMAIN stack' = 1..(Len(stack) + 1)
    BY <1>0, <1>6 DEF ListsOK
  <2>2. OnStack' = {stack'[i] : i \in 1..(Len(stack) + 1)} /\ OnStack = {stack[i] : i \in 1..Len(stack)}
    BY <2>1 DEF OnStack, Range
  <2> QED BY <2>2, <1>2, <1>6
<1>8. Settled' = Settled
  BY <1>2, <1>4, <1>7 DEF Settled
<1>9. PICK top : top = [node |-> n, left |-> Successors(n)]
  OBVIOUS
<1>10. top \in Frames' /\ Frames \subseteq Frames' /\ top.node = n /\ top.left = Successors(n)
  BY <1>1, <1>7, <1>9 DEF Frames, Successors
<1>11. /\ frames' \in Seq(Frames') /\ Len(frames') = Len(frames) + 1
       /\ \A i \in 1..Len(frames) : frames'[i].node = frames[i].node /\ frames'[i].left = open[i].left
       /\ frames'[Len(frames) + 1] = top
  <2>1. PICK F : F = Frames' /\ Frames \subseteq F
    BY <1>10
  <2>2. open \in Seq(F) /\ frames' = Append(open, top) /\ top \in F
    BY <1>5, <1>9, <1>10, <2>1
  <2>3. /\ frames' \in Seq(F) /\ Len(frames') = Len(open) + 1 /\ frames'[Len(open) + 1] = top
        /\ \A i \in 1..Len(open) : frames'[i] = open[i]
    BY <2>2
  <2> QED BY <2>1, <2>3, <1>2
<1>12. \A i, f : Visits(i, f)' <=> Visits(i, f) \/ (i = Len(frames) + 1 /\ f = n)
  BY <1>2, <1>10, <1>11 DEF Visits
<1>13. \A m : Open(m)' <=> Open(m) \/ m = n
  <2>1. \A m : Open(m) <=> \E i : Visits(i, m)
    BY DEF Open, Visits
  <2>2. \A m : Open(m)' <=> \E i : Visits(i, m)'
    BY DEF Open, Visits
  <2> QED BY <2>1, <2>2, <1>12
<1> HIDE DEF new
<1>14. FoundOK'
  <2>1. \A m \in Found' : index'[m] \in Nat /\ low'[m] \in Nat /\ index'[m] < new + 1
    BY <1>0, <1>3, <1>4 DEF FoundOK
  <2>2. \A m, k \in Found' : index'[m] = index'[k] => m = k
    BY <1>0, <1>3, <1>4 DEF FoundOK
  <2> QED BY <2>1, <2>2, <1>0, <1>1, <1>3, <1>4 DEF FoundOK
<1>15. ListsOK'
  <2>1. ASSUME NEW i \in 1..Len(stack'), NEW j \in 1..Len(stack'), i < j
        PROVE  index'[stack'[i]] < index'[stack'[j]]
    <3>1. i \in 1..Len(stack) /\ stack'[i] = stack[i] /\ index'[stack[i]] = index[stack[i]]
      BY <1>2, <1>4, <1>6, <2>1
    <3>2. CASE j \in 1..Len(stack)
      BY <3>1, <3>2, <1>0, <1>4, <1>6, <2>1 DEF ListsOK
    <3>3. CASE j = Len(stack) + 1
      BY <3>1, <3>3, <1>4, <1>6
    <3> QED BY <3>2, <3>3, <1>2, <1>6
  <2>2. ASSUME NEW i \in 1..Len(frames'), NEW j \in 1..Len(frames'), i < j
        PROVE  index'[frames'[i].node] < index'[frames'[j].node]
    <3>1. i \in 1..Len(frames) /\ frames'[i].node = frames[i].node /\ frames[i].node \in Found
      BY <1>2, <1>11, <2>2
    <3>2. CASE j \in 1..Len(frames)
      <4>1. frames'[j].node = frames[j].node /\ frames[j].node \in Found
        BY <3>2, <1>2, <1>11
      <4> QED BY <3>1, <3>2, <4>1, <1>0, <1>4, <2>2 DEF ListsOK
    <3>3. CASE j = Len(frames) + 1
      BY <3>1, <3>3, <1>4, <1>10, <1>11
    <3> QED BY <3>2, <3>3, <1>2, <1>11
  <2>3. ASSUME NEW m \in OnStack'
        PROVE  frames' # <<>> /\ index'[frames'[1].node] <= index'[m]
    <3>1. frames' # <<>>
      BY <1>2, <1>11
    <3>2. CASE frames = <<>>
      <4>1. m = n
        BY <3>2, <2>3, <1>0, <1>7 DEF ListsOK
      <4>2. frames'[1] = top
        BY <3>2, <1>11
      <4> QED BY <3>1, <4>1, <4>2, <1>3, <1>4, <1>10
    <3>3. CASE frames # <<>>
      <4>1. 1 \in 1..Len(frames) /\ frames'[1].node = frames[1].node /\ frames[1].node \in Found
        BY <3>3, <1>2, <1>11
      <4>2. m \in OnStack => index[frames[1].node] <= index[m]
        BY <1>0 DEF ListsOK
      <4>3. index'[frames[1].node] = index[frames[1].node] /\ index[frames[1].node] < new
            /\ index[frames[1].node] \in Nat
        BY <4>1, <1>0, <1>4 DEF FoundOK
      <4>4. m \in OnStack => index'[m] = index[m]
        BY <1>2, <1>4
      <4>5. m \in OnStack \/ m = n
        BY <2>3, <1>7
      <4> QED BY <3>1, <4>1, <4>2, <4>3, <4>4, <4>5, <1>3, <1>4
    <3> QED BY <3>2, <3>3
  <2> QED BY <2>1, <2>2, <2>3, <1>6, <1>11 DEF ListsOK
<1>16. ReachesUp'
  <2> SUFFICES ASSUME NEW i, NEW f \in OnStack', NEW m \in OnStack', Visits(i, f)', index'[f] < index'[m]
               PROVE  m \in Reached(f)
    BY <1>1 DEF ReachesUp
  <2>1. Visits(i, f) /\ f \in OnStack /\ i \in 1..Len(frames)
    <3>1. f # n
      <4>1. m \in Found' /\ index'[m] <= new
        BY <1>0, <1>2, <1>3, <1>4, <1>7 DEF FoundOK
      <4> QED BY <4>1, <1>0, <1>2, <1>3, <1>4, <1>7 DEF FoundOK
    <3> QED BY <3>1, <1>12, <1>7 DEF Visits
  <2>2. CASE m \in OnStack
    <3>1. index[f] < index[m]
      BY <2>1, <2>2, <1>2, <1>4
    <3> QED BY <2>1, <2>2, <3>1, <1>0 DEF ReachesUp
  <2>3. CASE m = n
    <3>1. frames # <<>>
      BY <2>1, <1>2
    <3>2. PICK k, t : k = Len(frames) /\ t = frames[k].node
      OBVIOUS
    <3>3. k \in 1..Len(frames) /\ t \in OnStack /\ Visits(k, t) /\ n \in Successors(t)
      BY <3>1, <3>2, <1>2 DEF Visits, Top
    <3>4. n \in Reached(t)
      BY <3>3, EdgeReaches
    <3>5. i = k => f = t
      BY <3>2, <2>1 DEF Visits
    <3>6. i < k => t \in Reached(f)
      <4>1. i < k => index[f] < index[t]
        BY <3>2, <3>3, <2>1, <1>0 DEF Visits, ListsOK
      <4> QED BY <4>1, <3>3, <2>1, <1>0 DEF ReachesUp
    <3>7. i <= k
      BY <3>2, <2>1, <1>2
    <3> QED BY <3>2, <3>4, <3>5, <3>6, <3>7, <2>1, <2>3, <1>2, ReachesOn
  <2> QED BY <2>2, <2>3, <1>7
<1>17. LowReached'
  <2> SUFFICES ASSUME NEW m \in OnStack'
               PROVE  /\ low'[m] <= index'[m]
                      /\ ~Open(m)' => low'[m] < index'[m]
                      /\ \E k \in OnStack' : index'[k] = low'[m] /\ (k = m \/ k \in Reached(m))
    BY <1>1 DEF LowReached
  <2>1. CASE m = n
    BY <2>1, <1>3, <1>4, <1>7, <1>13
  <2>2. CASE m \in OnStack
    <3>1. index'[m] = index[m] /\ low'[m] = low[m]
      BY <2>2, <1>2, <1>4
    <3>2. low[m] <= index[m] /\ (~Open(m) => low[m] < index[m])
      BY <2>2, <1>0 DEF LowReached
    <3>3. PICK k \in OnStack : index[k] = low[m] /\ (k = m \/ k \in Reached(m))
      BY <2>2, <1>0 DEF LowReached
    <3>4. k \in OnStack' /\ index'[k] = index[k]
      BY <1>2, <1>4, <1>7
    <3> QED BY <3>1, <3>2, <3>3, <3>4, <1>13
  <2> QED BY <2>1, <2>2, <1>7
<1>18. LookedAt'
  <2>1. ASSUME NEW m \in OnStack, NEW S, Seen(m, S) PROVE Seen(m, S)'
    <3>1. S \subseteq Found /\ n \notin S /\ \A s \in S : s \in OnStack => low[m] <= index[s]
      BY <2>1 DEF Seen
    <3> QED BY <3>1, <1>2, <1>4, <1>7 DEF Seen
  <2>2. ASSUME NEW m \in OnStack', ~Open(m)' PROVE Seen(m, Successors(m))'
    <3>1. m \in OnStack /\ ~Open(m)
      BY <2>2, <1>7, <1>13
    <3>2. PICK S : S = Successors(m)
      OBVIOUS
    <3>3. Seen(m, S)
      BY <3>1, <3>2, <1>0 DEF LookedAt
    <3>4. Seen(m, S)' /\ Successors(m)' = S
      BY <3>1, <3>2, <3>3, <2>1, <1>1
    <3> QED BY <3>4 DEF Seen
  <2>3. ASSUME NEW i \in 1..Len(frames'), NEW f \in OnStack', Visits(i, f)'
        PROVE  /\ frames'[i].left \subseteq Successors(f)'
               /\ Seen(f, Successors(f) \ frames[i].left)'
    <3>1. CASE i = Len(frames) + 1 /\ f = n
      <4>1. frames'[i].left = Successors(f) /\ Successors(f)' = Successors(f)
        BY <3>1, <1>1, <1>10, <1>11
      <4> QED BY <4>1 DEF Seen
    <3>2. CASE Visits(i, f)
      <4>1. i \in 1..Len(frames) /\ f \in OnStack
        BY <3>2, <1>2 DEF Visits
      <4>2. PICK L, S : L = frames'[i].left /\ S = Successors(f)
        OBVIOUS
      <4>3. frames[i].left \subseteq S /\ Seen(f, S \ frames[i].left)
        BY <4>1, <4>2, <3>2, <1>0 DEF LookedAt
      <4>4. L = IF i = Len(frames) THEN frames[i].left \ {n} ELSE frames[i].left
        BY <4>1, <4>2, <1>11
      <4>5. index[f] \in Nat /\ low[f] \in Nat /\ low[f] <= index[f] /\ index[f] < new
            /\ low'[f] = low[f]
        BY <4>1, <1>0, <1>2, <1>4 DEF LowReached, FoundOK
      <4>6. \A s \in S \ L : s \in Found' /\ (s \in OnStack' => low'[f] <= index'[s])
        <5> SUFFICES ASSUME NEW s \in S \ L
                     PROVE  s \in Found' /\ (s \in OnStack' => low'[f] <= index'[s])
          OBVIOUS
        <5>1. CASE s = n
          BY <5>1, <4>5, <1>3, <1>4
        <5>2. CASE s # n
          <6>1. s \in S \ frames[i].left
            BY <5>2, <4>4
          <6>2. s \in Found /\ (s \in OnStack => low[f] <= index[s])
            BY <6>1, <4>3 DEF Seen
          <6> QED BY <6>2, <5>2, <4>5, <1>4, <1>7
        <5> QED BY <5>1, <5>2
      <4>7. Successors(f)' = S /\ frames'[i].left = L /\ L \subseteq S
        BY <4>2, <4>3, <4>4, <1>1
      <4> QED BY <4>6, <4>7 DEF Seen
    <3> QED BY <3>1, <3>2, <2>3, <1>12
  <2> QED BY <2>2, <2>3 DEF LookedAt
<1>19. Enclosed'
  <2> SUFFICES ASSUME NEW i \in 1..Len(frames'), NEW f \in OnStack', NEW m \in OnStack',
                      Visits(i, f)', index'[f] < index'[m],
                      \A j \in 1..Len(frames'), g \in OnStack' : Visits(j, g)' /\ i < j => index'[m] < index'[g]
               PROVE  low'[f] <= low'[m]
    BY DEF Enclosed
  <2>1. \A k \in OnStack : index[k] \in Nat /\ index'[k] = index[k] /\ low'[k] = low[k] /\ index[k] < new
    BY <1>0, <1>2, <1>4 DEF FoundOK
  <2>2. Visits(i, f) /\ f \in OnStack /\ i \in 1..Len(frames)
    <3>1. f # n
      BY <2>1, <1>3, <1>4, <1>7
    <3> QED BY <3>1, <1>12, <1>7 DEF Visits
  <2>3. PICK last : last = Len(frames) + 1
    OBVIOUS
  <2>4. index'[m] < index'[n]
    <3>1. Visits(last, n)'
      BY <2>3, <1>12
    <3>2. n \in OnStack' /\ i < last /\ last \in 1..Len(frames')
      BY <2>2, <2>3, <1>2, <1>7, <1>11
    <3> QED BY <3>1, <3>2
  <2>5. m \in OnStack
    BY <2>4, <1>3, <1>4, <1>7
  <2>6. \A j \in 1..Len(frames), g \in OnStack : Visits(j, g) /\ i < j => index[m] < index[g]
    <3> SUFFICES ASSUME NEW j \in 1..Len(frames), NEW g \in OnStack, Visits(j, g), i < j
                 PROVE  index[m] < index[g]
      OBVIOUS
    <3>1. j \in 1..Len(frames') /\ g \in OnStack' /\ Visits(j, g)'
      BY <1>2, <1>7, <1>11, <1>12
    <3>2. index'[m] < index'[g]
      BY <3>1
    <3> QED BY <3>2, <2>1, <2>5
  <2>7. index[f] < index[m]
    BY <2>1, <2>2, <2>5
  <2>8. low[f] <= low[m]
    BY <2>2, <2>5, <2>6, <2>7, <1>0 DEF Enclosed
  <2> QED BY <2>1, <2>2, <2>5, <2>8
<1>20. SettledClosed'
  BY <1>0, <1>1, <1>8 DEF SettledClosed
<1>21. CyclesFound'
  BY <1>0, <1>1, <1>5, <1>8 DEF CyclesFound
<1> QED BY <1>14, <1>15, <1>16, <1>17, <1>18, <1>19, <1>20, <1>21 DEF WalkInv

\* A successor found before is looked at: it leads back, or to what is settled.
LEMMA LookKeeps ==
    ASSUME WalkInv, UNCHANGED graph, frames # <<>>, NEW t, t = Top.node, NEW c \in Top.left, c \in Found,
           low' = IF Back(c) THEN [low EXCEPT ![t] = Lower(@, index[c])] ELSE low,
           frames' = Advanced(c), UNCHANGED <<index, stack, cycles>>
    PROVE  WalkInv'
<1>0. /\ FoundOK /\ ListsOK /\ ReachesUp /\ LowReached /\ LookedAt /\ Enclosed /\ SettledClosed
      /\ CyclesFound
  BY DEF WalkInv
<1>1. /\ Range(nodes)' = Range(nodes)
      /\ \A m : Successors(m)' = Successors(m)
      /\ \A m : Reached(m)' = Reached(m)
      /\ \A m : Together(m)' = Together(m)
  BY SameGraph
<1>2. /\ Len(frames) \in Nat
      /\ \A i \in 1..Len(frames) : frames[i].node \in OnStack
      /\ OnStack \subseteq Found /\ Len(frames) \in 1..Len(frames)
  BY FramesAre
<1>3. /\ frames' \in Seq(Frames) /\ Len(frames') = Len(frames)
      /\ \A i \in 1..Len(frames) :
            /\ frames'[i].node = frames[i].node
            /\ frames'[i].left = IF i = Len(frames) THEN frames[i].left \ {c} ELSE frames[i].left
  BY AdvancedIs
<1>4. /\ Found' = Found /\ OnStack' = OnStack /\ Settled' = Settled /\ Frames' = Frames
      /\ index' = index /\ stack' = stack /\ cycles' = cycles
  BY <1>1 DEF Found, OnStack, Settled, Frames
<1>5. /\ \A i, f : Visits(i, f)' <=> Visits(i, f)
      /\ \A m : Open(m)' <=> Open(m)
  BY <1>3 DEF Visits, Open
<1>6. PICK k : k = Len(frames) /\ Visits(k, t) /\ k \in 1..Len(frames) /\ t \in OnStack /\ c \in Successors(t)
              /\ c \in frames[k].left
  BY <1>2, FramesAre DEF Top, Visits
<1>7. \A i, f : Visits(i, f) => (i = k <=> f = t)
  BY <1>0, <1>2, <1>6 DEF Visits, ListsOK, FoundOK
<1>8. \A m \in Found : index[m] \in Nat /\ low[m] \in Nat
  BY <1>0 DEF FoundOK
<1>9. /\ DOMAIN low' = Found
      /\ \A m \in Found : m # t => low'[m] = low[m]
      /\ low'[t] \in Nat /\ low'[t] <= low[t]
      /\ low'[t] = low[t] \/ (c \in OnStack /\ low'[t] = index[c])
      /\ c \in OnStack => low'[t] <= index[c]
  BY <1>0, <1>2, <1>6, <1>8 DEF Back, Lower, OnStack, FoundOK
<1>10. \A m \in Found : low'[m] \in Nat /\ low'[m] <= low[m]
  BY <1>8, <1>9
<1>11. FoundOK'
  BY <1>0, <1>1, <1>4, <1>9, <1>10 DEF FoundOK
<1>12. ListsOK'
  <2>0. Len(frames') = Len(frames) /\ \A i \in 1..Len(frames) : frames'[i].node = frames[i].node
    BY <1>3
  <2>1. frames' # <<>> /\ 1 \in 1..Len(frames) /\ frames'[1].node = frames[1].node
    <3>1. 1 \in 1..Len(frames) /\ Len(frames) # 0
      BY <1>2
    <3> QED BY <2>0, <3>1
  <2>2. \A i, j \in 1..Len(frames') : i < j => index[frames'[i].node] < index[frames'[j].node]
    <3>1. \A i, j \in 1..Len(frames) : i < j => index[frames[i].node] < index[frames[j].node]
      BY <1>0 DEF ListsOK
    <3> QED BY <2>0, <3>1
  <2> QED BY <2>1, <2>2, <1>0, <1>3, <1>4 DEF ListsOK
<1>13. ReachesUp'
  BY <1>0, <1>1, <1>3, <1>4, <1>5 DEF ReachesUp
<1>14. LowReached'
  <2> SUFFICES ASSUME NEW m \in OnStack
               PROVE  /\ low'[m] <= index[m]
                      /\ ~Open(m) => low'[m] < index[m]
                      /\ \E y \in OnStack : index[y] = low'[m] /\ (y = m \/ y \in Reached(m))
    BY <1>1, <1>4, <1>5 DEF LowReached
  <2>1. /\ low[m] <= index[m] /\ (~Open(m) => low[m] < index[m])
        /\ index[m] \in Nat /\ low[m] \in Nat /\ low'[m] \in Nat /\ low'[m] <= low[m]
    BY <1>0, <1>2, <1>8, <1>10 DEF LowReached
  <2>2. PICK y \in OnStack : index[y] = low[m] /\ (y = m \/ y \in Reached(m))
    BY <1>0 DEF LowReached
  <2>3. CASE low'[m] = low[m]
    BY <2>1, <2>2, <2>3
  <2>4. CASE low'[m] # low[m]
    <3>1. m = t /\ c \in OnStack /\ low'[m] = index[c] /\ c \in Reached(m)
      BY <2>4, <1>2, <1>6, <1>9, EdgeReaches
    <3> QED BY <2>1, <3>1
  <2> QED BY <2>3, <2>4
<1>15. LookedAt'
  <2>1. ASSUME NEW m \in OnStack, NEW S, Seen(m, S) PROVE Seen(m, S)'
    <3>1. index' = index /\ low'[m] <= low[m] /\ low'[m] \in Nat /\ low[m] \in Nat
      BY <1>2, <1>4, <1>8, <1>10
    <3> QED BY <2>1, <3>1, <1>2, <1>4, <1>8 DEF Seen
  <2>2. ASSUME NEW m \in OnStack, ~Open(m) PROVE Seen(m, Successors(m))'
    <3>1. PICK S : S = Successors(m)
      OBVIOUS
    <3>2. Seen(m, S)
      BY <2>2, <3>1, <1>0 DEF LookedAt
    <3>3. Seen(m, S)' /\ Successors(m)' = S
      BY <3>1, <3>2, <2>1, <1>1
    <3> QED BY <3>3 DEF Seen
  <2>3. ASSUME NEW i \in 1..Len(frames), NEW f \in OnStack, Visits(i, f)
        PROVE  /\ frames'[i].left \subseteq Successors(f)'
               /\ Seen(f, Successors(f) \ frames[i].left)'
    <3>1. PICK L, S : L = frames'[i].left /\ S = Successors(f)
      OBVIOUS
    <3>2. frames[i].left \subseteq S /\ Seen(f, S \ frames[i].left)
      BY <2>3, <3>1, <1>0 DEF LookedAt
    <3>3. L = IF i = k THEN frames[i].left \ {c} ELSE frames[i].left
      BY <2>3, <3>1, <1>3, <1>6
    <3>4. i = k => f = t
      BY <2>3, <1>7
    <3>5. \A s \in S \ L : s \in Found /\ (s \in OnStack => low'[f] <= index[s])
      <4> SUFFICES ASSUME NEW s \in S \ L PROVE s \in Found /\ (s \in OnStack => low'[f] <= index[s])
        OBVIOUS
      <4>1. CASE s \in frames[i].left
        BY <4>1, <3>3, <3>4, <1>9
      <4>2. CASE s \notin frames[i].left
        <5>1. s \in Found /\ (s \in OnStack => low[f] <= index[s])
          BY <4>2, <3>2 DEF Seen
        <5> QED BY <5>1, <1>2, <1>8, <1>10
      <4> QED BY <4>1, <4>2
    <3>6. Successors(f)' = S /\ frames'[i].left = L /\ L \subseteq S
      BY <3>1, <3>2, <3>3, <1>1
    <3> QED BY <3>5, <3>6, <1>4 DEF Seen
  <2> QED BY <2>2, <2>3, <1>3, <1>4, <1>5 DEF LookedAt
<1>16. Enclosed'
  <2> SUFFICES ASSUME NEW i \in 1..Len(frames), NEW f \in OnStack, NEW m \in OnStack,
                      Visits(i, f), index[f] < index[m],
                      \A j \in 1..Len(frames), g \in OnStack : Visits(j, g) /\ i < j => index[m] < index[g]
               PROVE  low'[f] <= low'[m]
    BY <1>3, <1>4, <1>5 DEF Enclosed
  <2>1. low[f] <= low[m]
    BY <1>0 DEF Enclosed
  <2>2. m # t
    <3>1. i < k => index[m] < index[t]
      BY <1>6
    <3>2. i = k => index[t] < index[m]
      BY <1>7
    <3> QED BY <3>1, <3>2, <1>2, <1>6, <1>8
  <2> QED BY <2>1, <2>2, <1>2, <1>8, <1>9, <1>10
<1>17. SettledClosed'
  BY <1>0, <1>1, <1>4 DEF SettledClosed
<1>18. CyclesFound'
  BY <1>0, <1>1, <1>4 DEF CyclesFound
<1> QED BY <1>11, <1>12, <1>13, <1>14, <1>15, <1>16, <1>17, <1>18 DEF WalkInv

----------------------------------------------------------------------------
\* A set whose elements have numbers has a least one.
LEMMA LeastOf ==
    ASSUME NEW S, S # {}, NEW f, \A x \in S : f[x] \in Nat
    PROVE  \E x \in S : \A y \in S : f[x] <= f[y]
<1> DEFINE R == OpToRel(<, Nat)
           T == {f[x] : x \in S}
<1>1. T \subseteq Nat /\ T # {}
  OBVIOUS
<1>2. \E p \in T : \A q \in T : ~(<<q, p>> \in R)
  <2> HIDE DEF R, T
  <2>1. IsWellFoundedOn(R, Nat)
    BY NatLessThanWellFounded DEF R
  <2> QED BY <1>1, <2>1, WFMin
<1>3. \A p \in Nat : \A q \in Nat : q < p => <<q, p>> \in R
  BY DEF OpToRel
<1> HIDE DEF R
<1>4. PICK p \in T : \A q \in T : ~(<<q, p>> \in R)
  BY <1>2
<1>5. PICK x \in S : p = f[x]
  BY <1>4
<1>6. ASSUME NEW y \in S PROVE f[x] <= f[y]
  <2>1. f[y] \in T /\ f[y] \in Nat /\ p \in Nat
    BY <1>1, <1>4
  <2>2. ~(f[y] < p)
    BY <2>1, <1>3, <1>4
  <2> QED BY <2>1, <2>2, <1>5
<1> QED BY <1>6

\* What is on the stack from n on, when n's visit ends with nothing earlier in reach.
Group(n) == {m \in OnStack : index[n] <= index[m]}

Ends(n) == frames # <<>> /\ n = Top.node /\ Top.left = {} /\ low[n] = index[n]

\* Each member reaches n and is reached from it, and none leads out but to what is settled.
LEMMA GroupIs ==
    ASSUME WalkInv, NEW n, Ends(n)
    PROVE  /\ n \in Group(n)
           /\ \A m \in Group(n) : m = n \/ (m \in Reached(n) /\ n \in Reached(m))
           /\ \A m \in Group(n) : Successors(m) \subseteq Group(n) \cup Settled
<1>0. /\ FoundOK /\ ListsOK /\ ReachesUp /\ LowReached /\ LookedAt /\ Enclosed
  BY DEF WalkInv
<1>1. /\ Len(frames) \in Nat
      /\ \A i \in 1..Len(frames) : frames[i].node \in OnStack
      /\ OnStack \subseteq Found /\ Len(frames) \in 1..Len(frames)
  BY FramesAre DEF Ends
<1>2. PICK k : k = Len(frames) /\ Visits(k, n) /\ k \in 1..Len(frames) /\ n \in OnStack /\ frames[k].left = {}
  BY <1>1 DEF Top, Visits, Ends
<1>3. \A m \in OnStack : index[m] \in Nat /\ low[m] \in Nat
  BY <1>0, <1>1 DEF FoundOK
<1>4. \A i, f : Visits(i, f) => i <= k /\ (f # n => index[f] < index[n])
  BY <1>0, <1>1, <1>2 DEF Visits, ListsOK
<1>5. \A m \in Group(n) : m \in OnStack /\ m \in Found /\ index[n] <= index[m] /\ (m # n => index[n] < index[m])
  BY <1>0, <1>1, <1>2, <1>3 DEF Group, FoundOK
<1>6. \A m \in Group(n) : m # n => ~Open(m)
  <2> SUFFICES ASSUME NEW m \in Group(n), m # n, Open(m) PROVE FALSE
    OBVIOUS
  <2>1. PICK i : Visits(i, m)
    BY DEF Open, Visits
  <2>2. index[m] < index[n]
    BY <2>1, <1>4
  <2> QED BY <2>2, <1>2, <1>3, <1>5
<1>7. \A m \in Group(n) : index[n] <= low[m]
  <2> SUFFICES ASSUME NEW m \in Group(n) PROVE index[n] <= low[m]
    OBVIOUS
  <2>1. CASE m = n
    BY <2>1, <1>2, <1>3 DEF Ends
  <2>2. CASE m # n
    <3>1. index[n] < index[m] /\ m \in OnStack
      BY <2>2, <1>5
    <3>2. \A j \in 1..Len(frames), g \in OnStack : Visits(j, g) /\ k < j => index[m] < index[g]
      BY <1>1, <1>2
    <3>3. low[n] <= low[m]
      BY <3>1, <3>2, <1>0, <1>2 DEF Enclosed
    <3> QED BY <3>3 DEF Ends
  <2> QED BY <2>1, <2>2
<1>8. \A m \in Group(n) : m # n => m \in Reached(n)
  BY <1>0, <1>2, <1>5 DEF ReachesUp
<1>9. \A m \in Group(n) : m # n => n \in Reached(m)
  <2> DEFINE Bad == {m \in Group(n) : m # n /\ n \notin Reached(m)}
  <2> SUFFICES Bad = {}
    OBVIOUS
  <2> SUFFICES ASSUME Bad # {} PROVE FALSE
    OBVIOUS
  <2>1. PICK m \in Bad : \A y \in Bad : index[m] <= index[y]
    <3>1. \A x \in Bad : index[x] \in Nat
      BY <1>3, <1>5
    <3> HIDE DEF Bad
    <3>2. PICK f : f = index
      OBVIOUS
    <3>3. \E x \in Bad : \A y \in Bad : f[x] <= f[y]
      BY <3>1, <3>2, LeastOf
    <3> QED BY <3>2, <3>3
  <2>2. m \in Group(n) /\ m # n /\ n \notin Reached(m) /\ m \in OnStack
    BY <1>5
  <2>3. low[m] < index[m]
    BY <2>2, <1>0, <1>6 DEF LowReached
  <2>4. PICK y \in OnStack : index[y] = low[m] /\ (y = m \/ y \in Reached(m))
    BY <2>2, <1>0 DEF LowReached
  <2>5. y \in Group(n) /\ y \in Reached(m) /\ index[y] < index[m]
    BY <2>2, <2>3, <2>4, <1>3, <1>7 DEF Group
  <2>6. y \notin Bad
    BY <2>1, <2>2, <2>4, <2>5, <1>3
  <2>7. y = n \/ n \in Reached(y)
    BY <2>5, <2>6
  <2>8. n \in Reached(m)
    BY <2>5, <2>7, ReachesOn
  <2> QED BY <2>2, <2>8
<1>10. \A m \in Group(n) : Successors(m) \subseteq Group(n) \cup Settled
  <2> SUFFICES ASSUME NEW m \in Group(n), NEW s \in Successors(m) PROVE s \in Group(n) \cup Settled
    OBVIOUS
  <2>1. PICK S : S = Successors(m)
    OBVIOUS
  <2>2. Seen(m, S)
    <3>1. CASE m = n
      <4>1. S \ frames[k].left = S
        BY <1>2
      <4> QED BY <2>1, <3>1, <4>1, <1>0, <1>2 DEF LookedAt
    <3>2. CASE m # n
      BY <2>1, <3>2, <1>0, <1>5, <1>6 DEF LookedAt
    <3> QED BY <3>1, <3>2
  <2>3. s \in Found /\ (s \in OnStack => low[m] <= index[s])
    BY <2>1, <2>2 DEF Seen
  <2>4. s \in OnStack => index[n] <= index[s]
    BY <2>3, <1>2, <1>3, <1>5, <1>7
  <2> QED BY <2>3, <2>4 DEF Group, Settled
<1> QED BY <1>2, <1>3, <1>8, <1>9, <1>10 DEF Group


\* A member of the group that reaches itself is together with all the others, and some
\* member does unless the group is one node that does not lead to itself.
LEMMA GroupTogether ==
    ASSUME WalkInv, NEW n, Ends(n), NEW m \in Group(n)
    PROVE  /\ m \in Reached(m) <=> Group(n) # {n} \/ n \in Successors(n)
           /\ m \in Reached(m) => Together(m) = Group(n)
<1>1. /\ n \in Group(n)
      /\ \A x \in Group(n) : x = n \/ (x \in Reached(n) /\ n \in Reached(x))
      /\ \A x \in Group(n) : Successors(x) \subseteq Group(n) \cup Settled
  BY GroupIs
<1>2. Group(n) \subseteq Range(nodes) /\ Settled \subseteq Range(nodes) /\ Group(n) \cap Settled = {}
  BY FramesAre DEF WalkInv, FoundOK, Group, Settled
<1>3. \A s \in Settled : Reached(s) \subseteq Settled
  BY <1>2, ReachedLeast DEF WalkInv, SettledClosed
<1>4. \A x \in Group(n) : Reached(x) \subseteq Group(n) \cup Settled
  <2> DEFINE S == Group(n) \cup Settled
  <2>1. S \in SUBSET Range(nodes)
    BY <1>2
  <2>2. \A x \in S : Successors(x) \subseteq S
    BY <1>1 DEF WalkInv, SettledClosed
  <2> QED BY <2>1, <2>2, ReachedLeast
<1>5. \A x, y \in Group(n) : x # y => y \in Reached(x)
  BY <1>1, ReachesOn
<1>6. ASSUME m \in Reached(m) PROVE Together(m) = Group(n)
  <2>1. ASSUME NEW x \in Together(m) PROVE x \in Group(n)
    <3>1. x \in Reached(m) /\ m \in Reached(x)
      BY <2>1 DEF Together
    <3> QED BY <3>1, <1>2, <1>3, <1>4
  <2>2. ASSUME NEW x \in Group(n) PROVE x \in Together(m)
    BY <2>2, <1>5, <1>6 DEF Together
  <2> QED BY <2>1, <2>2
<1>7. ASSUME m \in Reached(m), Group(n) = {n} PROVE n \in Successors(n)
  <2>1. PICK s \in Successors(m) : m = s \/ m \in Reached(s)
    BY <1>7, FirstEdge
  <2>2. m = n /\ s \in Group(n)
    BY <2>1, <1>1, <1>2, <1>3, <1>7
  <2> QED BY <2>1, <2>2, <1>7
<1>8. ASSUME Group(n) # {n} PROVE m \in Reached(m)
  <2>1. PICK y \in Group(n) : y # n
    BY <1>1, <1>8
  <2> QED BY <2>1, <1>1, ReachesOn
<1>9. ASSUME n \in Successors(n), Group(n) = {n} PROVE m \in Reached(m)
  BY <1>9, EdgeReaches
<1> QED BY <1>6, <1>7, <1>8, <1>9

\* What stays of the stack when it is cut at n, and what is cut off.
LEMMA CutIs ==
    ASSUME WalkInv, NEW n, NEW at \in DOMAIN stack, stack[at] = n
    PROVE  \E rest, group :
              /\ rest = SubSeq(stack, 1, at - 1) /\ group = SubSeq(stack, at, Len(stack))
              /\ Range(rest) = {m \in OnStack : index[m] < index[n]}
              /\ rest \in Seq(Range(rest)) /\ Len(rest) <= Len(stack)
              /\ \A i \in 1..Len(rest) : rest[i] = stack[i]
              /\ Range(group) = Group(n) /\ group[1] = n
              /\ Len(group) > 1 <=> Group(n) # {n}
<1>0. PICK rest, group : rest = SubSeq(stack, 1, at - 1) /\ group = SubSeq(stack, at, Len(stack))
  OBVIOUS
<1>1. stack \in Seq(Found) /\ at \in 1..Len(stack) /\ Len(stack) \in Nat /\ DOMAIN stack = 1..Len(stack)
  BY DEF WalkInv, ListsOK
<1>2. OnStack = {stack[i] : i \in 1..Len(stack)} /\ \A i \in 1..Len(stack) : stack[i] \in Found
  BY <1>1 DEF OnStack, Range
<1>3. \A i, j \in 1..Len(stack) : i < j => index[stack[i]] < index[stack[j]]
  BY DEF WalkInv, ListsOK
<1>4. \A i \in 1..Len(stack) : index[stack[i]] \in Nat
  BY <1>2 DEF WalkInv, FoundOK
<1>5. \A i \in 1..Len(stack) : /\ i < at <=> index[stack[i]] < index[n]
                               /\ at <= i <=> index[n] <= index[stack[i]]
  <2> SUFFICES ASSUME NEW i \in 1..Len(stack)
               PROVE  /\ i < at <=> index[stack[i]] < index[n]
                      /\ at <= i <=> index[n] <= index[stack[i]]
    OBVIOUS
  <2>1. index[stack[i]] \in Nat /\ index[n] \in Nat /\ i \in Nat /\ at \in Nat
    BY <1>1, <1>4
  <2>2. i < at => index[stack[i]] < index[n]
    BY <1>1, <1>3
  <2>3. at < i => index[n] < index[stack[i]]
    BY <1>1, <1>3
  <2>4. at = i => index[n] = index[stack[i]]
    OBVIOUS
  <2> QED BY <2>1, <2>2, <2>3, <2>4
<1>6. /\ Len(rest) = at - 1 /\ DOMAIN rest = 1..(at - 1)
      /\ \A i \in 1..(at - 1) : rest[i] = stack[i]
      /\ rest \in Seq(Found)
  BY <1>0, <1>1
<1>7. Range(rest) = {stack[i] : i \in 1..(at - 1)}
  BY <1>6 DEF Range
<1>8. Range(rest) = {m \in OnStack : index[m] < index[n]}
  BY <1>1, <1>2, <1>5, <1>7
<1>9. rest \in Seq(Range(rest))
  <2>1. \A i \in 1..Len(rest) : rest[i] \in Range(rest)
    BY <1>6 DEF Range
  <2> QED BY <2>1, <1>6
<1>10. /\ Len(group) = Len(stack) - at + 1 /\ DOMAIN group = 1..(Len(stack) - at + 1)
       /\ \A i \in 1..(Len(stack) - at + 1) : group[i] = stack[at + i - 1]
  BY <1>0, <1>1
<1>11. Range(group) = {stack[i] : i \in at..Len(stack)}
  <2>1. Range(group) = {stack[at + i - 1] : i \in 1..(Len(stack) - at + 1)}
    BY <1>10 DEF Range
  <2>2. \A i \in at..Len(stack) : i - at + 1 \in 1..(Len(stack) - at + 1) /\ at + (i - at + 1) - 1 = i
    BY <1>1
  <2>3. \A i \in 1..(Len(stack) - at + 1) : at + i - 1 \in at..Len(stack)
    BY <1>1
  <2> QED BY <2>1, <2>2, <2>3
<1>12. Range(group) = Group(n)
  <2>1. {stack[i] : i \in at..Len(stack)} = {m \in OnStack : index[n] <= index[m]}
    <3>1. \A i \in at..Len(stack) : i \in 1..Len(stack) /\ at <= i
      BY <1>1
    <3>2. \A i \in 1..Len(stack) : at <= i => i \in at..Len(stack)
      BY <1>1
    <3> QED BY <3>1, <3>2, <1>2, <1>5
  <2> QED BY <2>1, <1>11 DEF Group
<1>13. group[1] = n
  <2>1. 1 \in 1..(Len(stack) - at + 1) /\ at + 1 - 1 = at
    BY <1>1
  <2>2. group[1] = stack[at + 1 - 1]
    BY <2>1, <1>10
  <2> QED BY <2>1, <2>2
<1>14. Len(group) > 1 => Group(n) # {n}
  <2> SUFFICES ASSUME at < Len(stack) PROVE Group(n) # {n}
    BY <1>1, <1>10
  <2>1. PICK last : last = Len(stack) /\ last \in 1..Len(stack) /\ last \in at..Len(stack) /\ at < last
    BY <1>1
  <2>2. stack[last] \in Group(n)
    BY <2>1, <1>11, <1>12
  <2>3. index[n] < index[stack[last]]
    BY <2>1, <1>1, <1>3
  <2> QED BY <2>1, <2>2, <2>3, <1>1, <1>4
<1>15. Group(n) # {n} => Len(group) > 1
  <2> SUFFICES ASSUME ~(Len(group) > 1) PROVE Group(n) = {n}
    OBVIOUS
  <2>1. at = Len(stack)
    BY <1>1, <1>10
  <2>2. at..Len(stack) = {at}
    BY <2>1, <1>1
  <2>3. Range(group) = {stack[i] : i \in {at}}
    BY <2>2, <1>11
  <2>4. Range(group) = {n}
    BY <2>3
  <2> QED BY <2>4, <1>12
<1>16. Len(rest) <= Len(stack) /\ \A i \in 1..Len(rest) : rest[i] = stack[i]
  BY <1>1, <1>6
<1> QED BY <1>0, <1>8, <1>9, <1>12, <1>13, <1>14, <1>15, <1>16

\* The visit on top ends; those below it stay.
LEMMA LeaveIs ==
    ASSUME WalkInv, UNCHANGED graph, Leave, NEW n, n = Top.node, NEW k, k = Len(frames)
    PROVE  /\ Range(nodes)' = Range(nodes)
           /\ \A m : Successors(m)' = Successors(m)
           /\ \A m : Reached(m)' = Reached(m)
           /\ \A m : Together(m)' = Together(m)
           /\ Found' = Found /\ index' = index
           /\ k \in Nat /\ k \in 1..k /\ Visits(k, n) /\ n \in OnStack /\ frames[k].left = {}
           /\ frames' = Front(frames) /\ frames' \in Seq(Frames) /\ Len(frames') = k - 1
           /\ \A i \in 1..(k - 1) : frames'[i] = frames[i] /\ frames[i] \in Frames
           /\ \A i, f : Visits(i, f)' <=> Visits(i, f) /\ i # k
           /\ \A m : Open(m)' <=> Open(m) /\ m # n
           /\ \A i, f : Visits(i, f) => f \in OnStack /\ i \in 1..k /\ (i # k => index[f] < index[n])
           /\ \A m \in Found : index[m] \in Nat /\ low[m] \in Nat
           /\ OnStack \subseteq Found
<1>1. /\ Range(nodes)' = Range(nodes)
      /\ \A m : Successors(m)' = Successors(m)
      /\ \A m : Reached(m)' = Reached(m)
      /\ \A m : Together(m)' = Together(m)
  BY SameGraph
<1>2. frames # <<>> /\ Top.left = {} /\ frames' = Front(frames) /\ index' = index
  BY DEF Leave
<1>3. frames \in Seq(Frames) /\ k \in Nat /\ k \in 1..k /\ Found' = Found
  BY <1>2, FramesAre DEF WalkInv, ListsOK, Found
<1>4. /\ frames' \in Seq(Frames) /\ Len(frames') = k - 1
      /\ \A i \in 1..(k - 1) : frames'[i] = frames[i] /\ frames[i] \in Frames
  <2>1. frames' = SubSeq(frames, 1, k - 1)
    BY <1>2 DEF Front
  <2> QED BY <2>1, <1>3
<1>5. \A i \in 1..k : frames[i].node \in OnStack
  BY FramesAre
<1>6. OnStack \subseteq Found /\ \A m \in Found : index[m] \in Nat /\ low[m] \in Nat
  BY FramesAre DEF WalkInv, FoundOK
<1>7. \A i, f : Visits(i, f)' <=> Visits(i, f) /\ i # k
  BY <1>3, <1>4 DEF Visits
<1>8. Visits(k, n) /\ n \in OnStack /\ frames[k].left = {}
  BY <1>2, <1>3, <1>5 DEF Visits, Top
<1>9. \A i, f : Visits(i, f) => f \in OnStack /\ i \in 1..k /\ (i # k => index[f] < index[n])
  <2> SUFFICES ASSUME NEW i, NEW f, Visits(i, f)
               PROVE  f \in OnStack /\ i \in 1..k /\ (i # k => index[f] < index[n])
    OBVIOUS
  <2>1. i \in 1..k /\ frames[i].node = f
    BY DEF Visits
  <2>2. i # k => i < k
    BY <2>1, <1>3
  <2>3. i # k => index[f] < index[n]
    BY <2>1, <2>2, <1>3, <1>8 DEF WalkInv, ListsOK, Visits
  <2> QED BY <2>1, <2>3, <1>5
<1>10. \A m : Open(m)' <=> Open(m) /\ m # n
  <2>1. \A m : Open(m) <=> \E i : Visits(i, m)
    BY DEF Open, Visits
  <2>2. \A m : Open(m)' <=> \E i : Visits(i, m)'
    BY DEF Open, Visits
  <2>3. \A i : Visits(i, n) => i = k
    BY <1>6, <1>8, <1>9
  <2>4. \A m : Visits(k, m) => m = n
    BY <1>8 DEF Visits
  <2> QED BY <2>1, <2>2, <2>3, <2>4, <1>7
<1> QED BY <1>1, <1>2, <1>3, <1>4, <1>6, <1>7, <1>8, <1>9, <1>10

\* A visit ends on a node that reaches an earlier one: its parent takes that over.
LEMMA PassesOn ==
    ASSUME WalkInv, UNCHANGED graph, Leave, low[Top.node] # index[Top.node]
    PROVE  WalkInv'
<1>0. /\ FoundOK /\ ListsOK /\ ReachesUp /\ LowReached /\ LookedAt /\ Enclosed /\ SettledClosed
      /\ CyclesFound
  BY DEF WalkInv
<1>1. PICK n, k : n = Top.node /\ k = Len(frames)
  OBVIOUS
<1>2. /\ Range(nodes)' = Range(nodes)
      /\ \A m : Successors(m)' = Successors(m)
      /\ \A m : Reached(m)' = Reached(m)
      /\ \A m : Together(m)' = Together(m)
      /\ Found' = Found /\ index' = index
      /\ k \in Nat /\ k \in 1..k /\ Visits(k, n) /\ n \in OnStack /\ frames[k].left = {}
      /\ frames' = Front(frames) /\ frames' \in Seq(Frames) /\ Len(frames') = k - 1
      /\ \A i \in 1..(k - 1) : frames'[i] = frames[i] /\ frames[i] \in Frames
      /\ \A i, f : Visits(i, f)' <=> Visits(i, f) /\ i # k
      /\ \A m : Open(m)' <=> Open(m) /\ m # n
      /\ \A i, f : Visits(i, f) => f \in OnStack /\ i \in 1..k /\ (i # k => index[f] < index[n])
      /\ \A m \in Found : index[m] \in Nat /\ low[m] \in Nat
      /\ OnStack \subseteq Found
  BY <1>1, LeaveIs
<1>3. low[n] < index[n]
  BY <1>0, <1>1, <1>2 DEF LowReached
<1>4. PICK y \in OnStack : index[y] = low[n] /\ (y = n \/ y \in Reached(n))
  BY <1>0, <1>2 DEF LowReached
<1>5. y # n /\ y \in Reached(n)
  BY <1>2, <1>3, <1>4
<1>6. k > 1
  <2>1. index[frames[1].node] <= index[y]
    BY <1>0, <1>4 DEF ListsOK
  <2>2. index[frames[1].node] < index[n]
    <3>1. frames[1].node \in OnStack
      BY <1>1, <1>2, FramesAre
    <3> QED BY <2>1, <3>1, <1>2, <1>3, <1>4
  <2>3. frames[1].node # n
    BY <2>2, <1>2
  <2>4. k # 1
    BY <2>3, <1>2 DEF Visits
  <2> QED BY <2>4, <1>2
<1>7. PICK p : p = frames[k - 1].node
  OBVIOUS
<1>8. /\ k - 1 \in 1..(k - 1) /\ k - 1 \in 1..k /\ k - 1 # k
      /\ Visits(k - 1, p) /\ p \in OnStack /\ index[p] < index[n]
      /\ n \in Reached(p)
  <2>1. k - 1 \in 1..(k - 1) /\ k - 1 \in 1..k /\ k - 1 # k
    BY <1>2, <1>6
  <2>2. Visits(k - 1, p)
    BY <2>1, <1>1, <1>7 DEF Visits
  <2>3. p \in OnStack /\ index[p] < index[n]
    BY <2>1, <2>2, <1>2
  <2> QED BY <2>1, <2>2, <2>3, <1>0, <1>1, <1>2 DEF ReachesUp
<1>9. \A i, f : Visits(i, f) /\ i # k => i \in 1..(k - 1) /\ (f = p => i = k - 1) /\ (i = k - 1 => f = p)
  <2> SUFFICES ASSUME NEW i, NEW f, Visits(i, f), i # k
               PROVE  i \in 1..(k - 1) /\ (f = p => i = k - 1) /\ (i = k - 1 => f = p)
    OBVIOUS
  <2>1. i \in 1..(k - 1)
    BY <1>2
  <2>2. frames[i].node = f
    BY DEF Visits
  <2>3. i < k - 1 => index[f] < index[p]
    BY <2>1, <2>2, <1>0, <1>1, <1>2, <1>7, <1>8 DEF ListsOK
  <2> QED BY <2>1, <2>2, <2>3, <1>2, <1>7, <1>8
<1>10. low' = [low EXCEPT ![p] = Lower(low[p], low[n])] /\ stack' = stack /\ cycles' = cycles
  <2>1. Front(frames) # <<>>
    BY <1>2, <1>6
  <2>2. Front(frames)[Len(Front(frames))].node = p
    BY <1>2, <1>7, <1>8
  <2> QED BY <2>1, <2>2, <1>1 DEF Leave
<1>11. /\ DOMAIN low' = Found
       /\ \A m \in Found : m # p => low'[m] = low[m]
       /\ low'[p] \in Nat /\ low'[p] <= low[p] /\ low'[p] <= low[n]
       /\ low'[p] = low[p] \/ low'[p] = low[n]
  <2>1. p \in Found /\ low[p] \in Nat /\ low[n] \in Nat /\ DOMAIN low = Found
    BY <1>0, <1>2, <1>8 DEF FoundOK
  <2>2. low'[p] = Lower(low[p], low[n])
    BY <2>1, <1>10
  <2> QED BY <2>1, <2>2, <1>10 DEF Lower
<1>12. \A m \in Found : low'[m] \in Nat /\ low'[m] <= low[m]
  BY <1>2, <1>11
<1>13. OnStack' = OnStack /\ Settled' = Settled /\ Frames' = Frames
  BY <1>2, <1>10 DEF OnStack, Settled, Frames
<1>14. FoundOK'
  BY <1>0, <1>2, <1>11, <1>12 DEF FoundOK
<1>15. ListsOK'
  <2>1. frames' # <<>> /\ frames'[1].node = frames[1].node
    BY <1>2, <1>6
  <2>2. \A i, j \in 1..(k - 1) : i < j => index[frames'[i].node] < index[frames'[j].node]
    <3> SUFFICES ASSUME NEW i \in 1..(k - 1), NEW j \in 1..(k - 1), i < j
                 PROVE  index[frames'[i].node] < index[frames'[j].node]
      OBVIOUS
    <3>1. \A q, r \in 1..k : q < r => index[frames[q].node] < index[frames[r].node]
      BY <1>0, <1>1 DEF ListsOK
    <3>2. i \in 1..k /\ j \in 1..k
      BY <1>2
    <3>3. frames'[i] = frames[i] /\ frames'[j] = frames[j]
      BY <1>2
    <3> QED BY <3>1, <3>2, <3>3
  <2> QED BY <2>1, <2>2, <1>0, <1>2, <1>10, <1>13 DEF ListsOK
<1>16. ReachesUp'
  <2> SUFFICES ASSUME NEW i, NEW f \in OnStack, NEW m \in OnStack, Visits(i, f), index[f] < index[m]
               PROVE  m \in Reached(f)
    BY <1>2, <1>13 DEF ReachesUp
  <2> QED BY <1>0, <1>1, <1>2 DEF ReachesUp
<1>17. LowReached'
  <2> SUFFICES ASSUME NEW m \in OnStack
               PROVE  /\ low'[m] <= index[m]
                      /\ ~(Open(m) /\ m # n) => low'[m] < index[m]
                      /\ \E z \in OnStack : index[z] = low'[m] /\ (z = m \/ z \in Reached(m))
    BY <1>2, <1>13 DEF LowReached
  <2>1. /\ low[m] <= index[m] /\ (~Open(m) => low[m] < index[m])
        /\ index[m] \in Nat /\ low[m] \in Nat /\ low'[m] \in Nat /\ low'[m] <= low[m]
    BY <1>0, <1>2, <1>12 DEF LowReached
  <2>2. PICK z \in OnStack : index[z] = low[m] /\ (z = m \/ z \in Reached(m))
    BY <1>0 DEF LowReached
  <2>3. CASE low'[m] = low[m]
    BY <2>1, <2>2, <2>3, <1>3
  <2>4. CASE low'[m] # low[m]
    <3>1. m = p /\ low'[m] = low[n]
      BY <2>4, <1>2, <1>11
    <3>2. y \in Reached(m)
      BY <3>1, <1>5, <1>8, ReachesOn
    <3> QED BY <2>1, <2>4, <3>1, <3>2, <1>3, <1>4
  <2> QED BY <2>3, <2>4
<1>18. LookedAt'
  <2>1. ASSUME NEW m \in OnStack, NEW S, Seen(m, S) PROVE Seen(m, S)'
    <3>1. low'[m] <= low[m] /\ low'[m] \in Nat /\ low[m] \in Nat
      BY <1>2, <1>12
    <3> QED BY <2>1, <3>1, <1>2, <1>13 DEF Seen
  <2>2. ASSUME NEW m \in OnStack, ~(Open(m) /\ m # n) PROVE Seen(m, Successors(m))'
    <3>1. PICK S : S = Successors(m)
      OBVIOUS
    <3>2. Seen(m, S)
      <4>1. CASE m = n
        <5>1. S \ frames[k].left = S
          BY <1>2
        <5> QED BY <3>1, <4>1, <5>1, <1>0, <1>1, <1>2 DEF LookedAt
      <4>2. CASE m # n
        BY <4>2, <2>2, <3>1, <1>0 DEF LookedAt
      <4> QED BY <4>1, <4>2
    <3>3. Seen(m, S)' /\ Successors(m)' = S
      BY <3>1, <3>2, <2>1, <1>2
    <3> QED BY <3>3 DEF Seen
  <2>3. ASSUME NEW i \in 1..(k - 1), NEW f \in OnStack, Visits(i, f)
        PROVE  /\ frames'[i].left \subseteq Successors(f)'
               /\ Seen(f, Successors(f) \ frames[i].left)'
    <3>1. PICK L, S : L = frames'[i].left /\ S = Successors(f) \ L
      OBVIOUS
    <3>2. frames[i].left = L
      BY <3>1, <1>2
    <3>3. i \in 1..Len(frames)
      BY <1>1, <1>2
    <3>4. L \subseteq Successors(f) /\ Seen(f, S)
      BY <2>3, <3>1, <3>2, <3>3, <1>0 DEF LookedAt
    <3>5. Seen(f, S)'
      BY <3>4, <2>1
    <3>6. Successors(f)' = Successors(f) /\ (Successors(f) \ frames[i].left)' = S
      BY <3>1, <1>2
    <3> QED BY <3>1, <3>4, <3>5, <3>6 DEF Seen
  <2> QED BY <2>2, <2>3, <1>2, <1>13 DEF LookedAt
<1>19. Enclosed'
  <2> SUFFICES ASSUME NEW i \in 1..(k - 1), NEW f \in OnStack, NEW m \in OnStack,
                      Visits(i, f), index[f] < index[m],
                      \A j \in 1..(k - 1), g \in OnStack : Visits(j, g) /\ i < j => index[m] < index[g]
               PROVE  low'[f] <= low'[m]
    <3>1. \A j \in 1..(k - 1) : \A g : Visits(j, g)' <=> Visits(j, g)
      BY <1>2
    <3> QED BY <3>1, <1>2, <1>13 DEF Enclosed
  <2>0. /\ index[f] \in Nat /\ index[m] \in Nat /\ index[n] \in Nat /\ i \in Nat
        /\ low[f] \in Nat /\ low[m] \in Nat /\ low[n] \in Nat /\ low'[f] \in Nat /\ low'[m] \in Nat
        /\ low'[f] <= low[f] /\ i # k
    BY <1>2, <1>12
  <2>1. CASE index[m] < index[n]
    <3>1. \A j \in 1..Len(frames), g \in OnStack : Visits(j, g) /\ i < j => index[m] < index[g]
      <4> SUFFICES ASSUME NEW j \in 1..Len(frames), NEW g \in OnStack, Visits(j, g), i < j
                   PROVE  index[m] < index[g]
        OBVIOUS
      <4>1. CASE j = k
        BY <4>1, <2>1, <1>2 DEF Visits
      <4>2. CASE j # k
        BY <4>2, <1>9
      <4> QED BY <4>1, <4>2
    <3>2. low[f] <= low[m]
      <4>1. i \in 1..Len(frames)
        BY <1>1, <1>2
      <4> QED BY <4>1, <3>1, <1>0 DEF Enclosed
    <3>3. m # p
      <4>1. i = k - 1 => f = p
        BY <2>0, <1>9
      <4>2. i < k - 1 => index[m] < index[p]
        BY <1>8
      <4> QED BY <4>1, <4>2, <2>0, <1>2
    <3> QED BY <3>2, <3>3, <2>0, <1>2, <1>11
  <2>2. CASE index[n] <= index[m]
    <3>1. ~(i < k - 1)
      <4>1. i < k - 1 => index[m] < index[p]
        BY <1>8
      <4>2. index[p] \in Nat
        BY <1>2, <1>8
      <4> QED BY <4>1, <4>2, <2>0, <2>2, <1>8
    <3>2. f = p
      BY <3>1, <2>0, <1>2, <1>9
    <3>3. low[n] <= low[m]
      <4>1. CASE m = n
        BY <4>1, <2>0
      <4>2. CASE m # n
        <5>1. index[n] < index[m]
          BY <4>2, <2>0, <2>2, <1>0, <1>2 DEF FoundOK
        <5>2. \A j \in 1..Len(frames), g \in OnStack : Visits(j, g) /\ k < j => index[m] < index[g]
          BY <1>1, <1>2
        <5>3. k \in 1..Len(frames)
          BY <1>1, <1>2
        <5> QED BY <5>1, <5>2, <5>3, <1>0, <1>2 DEF Enclosed
      <4> QED BY <4>1, <4>2
    <3>4. m # p
      BY <2>0, <2>2, <1>8
    <3> QED BY <3>2, <3>3, <3>4, <2>0, <1>2, <1>11
  <2> QED BY <2>0, <2>1, <2>2
<1>20. SettledClosed'
  BY <1>0, <1>2, <1>13 DEF SettledClosed
<1>21. CyclesFound'
  BY <1>0, <1>2, <1>10, <1>13 DEF CyclesFound
<1> QED BY <1>14, <1>15, <1>16, <1>17, <1>18, <1>19, <1>20, <1>21 DEF WalkInv

\* A visit ends on a node that reaches none earlier: what is above it is its group.
LEMMA Closes ==
    ASSUME WalkInv, UNCHANGED graph, Leave, low[Top.node] = index[Top.node]
    PROVE  WalkInv'
<1>0. /\ FoundOK /\ ListsOK /\ ReachesUp /\ LowReached /\ LookedAt /\ Enclosed /\ SettledClosed
      /\ CyclesFound
  BY DEF WalkInv
<1>1. PICK n, k : n = Top.node /\ k = Len(frames)
  OBVIOUS
<1>2. /\ Range(nodes)' = Range(nodes)
      /\ \A m : Successors(m)' = Successors(m)
      /\ \A m : Reached(m)' = Reached(m)
      /\ \A m : Together(m)' = Together(m)
      /\ Found' = Found /\ index' = index
      /\ k \in Nat /\ k \in 1..k /\ Visits(k, n) /\ n \in OnStack /\ frames[k].left = {}
      /\ frames' = Front(frames) /\ frames' \in Seq(Frames) /\ Len(frames') = k - 1
      /\ \A i \in 1..(k - 1) : frames'[i] = frames[i] /\ frames[i] \in Frames
      /\ \A i, f : Visits(i, f)' <=> Visits(i, f) /\ i # k
      /\ \A m : Open(m)' <=> Open(m) /\ m # n
      /\ \A i, f : Visits(i, f) => f \in OnStack /\ i \in 1..k /\ (i # k => index[f] < index[n])
      /\ \A m \in Found : index[m] \in Nat /\ low[m] \in Nat
      /\ OnStack \subseteq Found
  BY <1>1, LeaveIs
<1>3. Ends(n) /\ low[n] = index[n]
  BY <1>1 DEF Ends, Leave
<1>4. PICK at \in DOMAIN stack : at = CHOOSE j \in DOMAIN stack : stack[j] = n
  <2>1. \E j \in DOMAIN stack : stack[j] = n
    BY <1>2 DEF OnStack, Range
  <2> QED BY <2>1
<1>5. stack[at] = n
  <2>1. \E j \in DOMAIN stack : stack[j] = n
    BY <1>2 DEF OnStack, Range
  <2> QED BY <2>1, <1>4
<1>6. PICK rest, group :
         /\ rest = SubSeq(stack, 1, at - 1) /\ group = SubSeq(stack, at, Len(stack))
         /\ Range(rest) = {m \in OnStack : index[m] < index[n]}
         /\ rest \in Seq(Range(rest)) /\ Len(rest) <= Len(stack)
         /\ \A i \in 1..Len(rest) : rest[i] = stack[i]
         /\ Range(group) = Group(n) /\ group[1] = n
         /\ Len(group) > 1 <=> Group(n) # {n}
  BY <1>5, CutIs
<1>7. /\ Range(rest) = {m \in OnStack : index[m] < index[n]}
      /\ rest \in Seq(Range(rest)) /\ Len(rest) <= Len(stack)
      /\ \A i \in 1..Len(rest) : rest[i] = stack[i]
      /\ Range(group) = Group(n) /\ group[1] = n
      /\ Len(group) > 1 <=> Group(n) # {n}
  BY <1>6
<1>8. stack' = rest /\ cycles' = IF IsCycle(group) THEN cycles \cup {Group(n)} ELSE cycles
  BY <1>1, <1>3, <1>4, <1>6, <1>7 DEF Leave
<1>9. DOMAIN low' = Found /\ \A m \in Found : low'[m] = low[m]
  <2>1. CASE Front(frames) = <<>>
    BY <2>1, <1>0 DEF Leave, FoundOK
  <2>2. CASE Front(frames) # <<>>
    <3>1. PICK p : p = Front(frames)[Len(Front(frames))].node
      OBVIOUS
    <3>2. k - 1 \in 1..(k - 1) /\ k - 1 \in 1..k /\ k - 1 # k
      BY <2>2, <1>2
    <3>3. Visits(k - 1, p)
      BY <3>1, <3>2, <1>1, <1>2 DEF Visits
    <3>4. p \in Found /\ index[p] < index[n] /\ low[p] <= index[p]
      BY <3>2, <3>3, <1>0, <1>2 DEF LowReached
    <3>5. Lower(low[p], low[n]) = low[p]
      BY <3>4, <1>2, <1>3 DEF Lower
    <3>6. low' = [low EXCEPT ![p] = Lower(low[p], low[n])]
      BY <2>2, <3>1, <1>1 DEF Leave
    <3> QED BY <3>4, <3>5, <3>6, <1>0 DEF FoundOK
  <2> QED BY <2>1, <2>2
<1>10. OnStack' = {m \in OnStack : index[m] < index[n]}
  BY <1>7, <1>8 DEF OnStack
<1>11. Settled' = Settled \cup Group(n)
  <2>1. \A m \in OnStack : index[m] \in Nat /\ index[n] \in Nat
    BY <1>2
  <2> QED BY <2>1, <1>2, <1>10 DEF Settled, Group
<1>12. OnStack' \subseteq OnStack /\ n \notin OnStack' /\ \A m \in OnStack' : index[m] < index[n]
  BY <1>2, <1>10
<1>13. \A i, f : Visits(i, f)' => Visits(i, f) /\ i # k /\ f \in OnStack'
  BY <1>2, <1>10
<1>14. FoundOK'
  BY <1>0, <1>2, <1>9 DEF FoundOK
<1>15. ListsOK'
  <2>1. stack' \in Seq(Found)
    <3>1. Range(rest) \subseteq Found
      BY <1>2, <1>7
    <3> QED BY <3>1, <1>7, <1>8
  <2>2. \A i, j \in 1..Len(stack') : i < j => index[stack'[i]] < index[stack'[j]]
    <3>1. Len(rest) \in Nat /\ Len(stack) \in Nat
      BY <1>0, <1>7 DEF ListsOK
    <3>2. \A i \in 1..Len(rest) : i \in 1..Len(stack)
      BY <3>1, <1>7
    <3> QED BY <3>2, <1>0, <1>7, <1>8 DEF ListsOK
  <2>3. frames' \in Seq(Frames')
    <3>1. ASSUME NEW i \in 1..(k - 1) PROVE frames'[i] \in Frames'
      <4>1. frames'[i] \in Frames
        BY <1>2
      <4>2. PICK f : f = frames'[i].node
        OBVIOUS
      <4>3. f \in OnStack'
        <5>1. Visits(i, f)'
          BY <4>2, <1>2 DEF Visits
        <5> QED BY <5>1, <1>13
      <4> QED BY <4>1, <4>2, <4>3, <1>2 DEF Frames
    <3>2. PICK F, G : F = Frames' /\ G = frames'
      OBVIOUS
    <3>3. G \in Seq(Frames) /\ \A i \in 1..Len(G) : G[i] \in F
      BY <3>1, <3>2, <1>2
    <3>4. G \in Seq(F)
      BY <3>3
    <3> QED BY <3>2, <3>4
  <2>4. \A i, j \in 1..(k - 1) : i < j => index[frames'[i].node] < index[frames'[j].node]
    <3> SUFFICES ASSUME NEW i \in 1..(k - 1), NEW j \in 1..(k - 1), i < j
                 PROVE  index[frames'[i].node] < index[frames'[j].node]
      OBVIOUS
    <3>1. \A q, r \in 1..k : q < r => index[frames[q].node] < index[frames[r].node]
      BY <1>0, <1>1 DEF ListsOK
    <3>2. i \in 1..k /\ j \in 1..k
      BY <1>2
    <3>3. frames'[i] = frames[i] /\ frames'[j] = frames[j]
      BY <1>2
    <3> QED BY <3>1, <3>2, <3>3
  <2>5. ASSUME NEW m \in OnStack' PROVE frames' # <<>> /\ index[frames'[1].node] <= index[m]
    <3>1. index[frames[1].node] <= index[m] /\ index[m] < index[n]
      BY <2>5, <1>0, <1>12 DEF ListsOK
    <3>2. frames[1].node \in OnStack
      BY <1>1, <1>2, FramesAre
    <3>3. frames[1].node # n
      BY <2>5, <3>1, <3>2, <1>2, <1>12
    <3>4. k # 1
      BY <3>3, <1>2 DEF Visits
    <3> QED BY <3>1, <3>4, <1>2
  <2> QED BY <2>1, <2>2, <2>3, <2>4, <2>5, <1>2 DEF ListsOK
<1>16. ReachesUp'
  <2> SUFFICES ASSUME NEW i, NEW f \in OnStack', NEW m \in OnStack', Visits(i, f)', index[f] < index[m]
               PROVE  m \in Reached(f)
    BY <1>2 DEF ReachesUp
  <2>1. Visits(i, f) /\ i \in 1..Len(frames) /\ f \in OnStack /\ m \in OnStack
    BY <1>1, <1>2, <1>12, <1>13
  <2> QED BY <2>1, <1>0 DEF ReachesUp
<1>17. LowReached'
  <2> SUFFICES ASSUME NEW m \in OnStack'
               PROVE  /\ low[m] <= index[m]
                      /\ ~Open(m)' => low[m] < index[m]
                      /\ \E z \in OnStack' : index[z] = low[m] /\ (z = m \/ z \in Reached(m))
    <3>1. \A m \in OnStack' : low'[m] = low[m]
      BY <1>2, <1>9, <1>12
    <3> QED BY <3>1, <1>2 DEF LowReached
  <2>1. m \in OnStack /\ m # n /\ index[m] < index[n]
    BY <1>12
  <2>2. low[m] <= index[m] /\ (~Open(m) => low[m] < index[m])
    BY <2>1, <1>0 DEF LowReached
  <2>3. PICK z \in OnStack : index[z] = low[m] /\ (z = m \/ z \in Reached(m))
    BY <2>1, <1>0 DEF LowReached
  <2>4. z \in OnStack'
    BY <2>1, <2>2, <2>3, <1>2, <1>10
  <2> QED BY <2>1, <2>2, <2>3, <2>4, <1>2
<1>18. LookedAt'
  <2>1. ASSUME NEW m \in OnStack', NEW S, Seen(m, S) PROVE Seen(m, S)'
    BY <2>1, <1>2, <1>9, <1>12 DEF Seen
  <2>2. ASSUME NEW m \in OnStack', ~Open(m)' PROVE Seen(m, Successors(m))'
    <3>1. PICK S : S = Successors(m)
      OBVIOUS
    <3>2. m \in OnStack /\ ~Open(m)
      BY <2>2, <1>2, <1>12
    <3>3. Seen(m, S)
      BY <3>1, <3>2, <1>0 DEF LookedAt
    <3>4. Seen(m, S)' /\ Successors(m)' = S
      BY <3>1, <3>3, <2>1, <1>2
    <3> QED BY <3>4 DEF Seen
  <2>3. ASSUME NEW i \in 1..(k - 1), NEW f \in OnStack', Visits(i, f)'
        PROVE  /\ frames'[i].left \subseteq Successors(f)'
               /\ Seen(f, Successors(f) \ frames[i].left)'
    <3>1. PICK L, S : L = frames'[i].left /\ S = Successors(f) \ L
      OBVIOUS
    <3>2. frames[i].left = L
      BY <3>1, <1>2
    <3>3. i \in 1..Len(frames) /\ Visits(i, f) /\ f \in OnStack
      BY <2>3, <1>1, <1>2, <1>12, <1>13
    <3>4. L \subseteq Successors(f) /\ Seen(f, S)
      BY <3>1, <3>2, <3>3, <1>0 DEF LookedAt
    <3>5. Seen(f, S)'
      BY <3>4, <2>1
    <3>6. Successors(f)' = Successors(f) /\ (Successors(f) \ frames[i].left)' = S
      BY <3>1, <1>2
    <3> QED BY <3>1, <3>4, <3>5, <3>6 DEF Seen
  <2> QED BY <2>2, <2>3, <1>2 DEF LookedAt
<1>19. Enclosed'
  <2> SUFFICES ASSUME NEW i \in 1..(k - 1), NEW f \in OnStack', NEW m \in OnStack',
                      Visits(i, f)', index[f] < index[m],
                      \A j \in 1..(k - 1), g \in OnStack' : Visits(j, g)' /\ i < j => index[m] < index[g]
               PROVE  low[f] <= low[m]
    <3>1. \A m \in OnStack' : low'[m] = low[m]
      BY <1>2, <1>9, <1>12
    <3> QED BY <3>1, <1>2 DEF Enclosed
  <2>1. i \in 1..Len(frames) /\ Visits(i, f) /\ f \in OnStack /\ m \in OnStack /\ index[m] < index[n]
    BY <1>1, <1>2, <1>12, <1>13
  <2>2. \A j \in 1..Len(frames), g \in OnStack : Visits(j, g) /\ i < j => index[m] < index[g]
    <3> SUFFICES ASSUME NEW j \in 1..Len(frames), NEW g \in OnStack, Visits(j, g), i < j
                 PROVE  index[m] < index[g]
      OBVIOUS
    <3>1. CASE j = k
      BY <3>1, <2>1, <1>2 DEF Visits
    <3>2. CASE j # k
      <4>1. j \in 1..(k - 1) /\ Visits(j, g)'
        BY <3>2, <1>1, <1>2
      <4> QED BY <4>1, <1>13
    <3> QED BY <3>1, <3>2
  <2> QED BY <2>1, <2>2, <1>0 DEF Enclosed
<1>20. SettledClosed'
  <2>1. \A m \in Group(n) : Successors(m) \subseteq Group(n) \cup Settled
    BY <1>3, GroupIs
  <2> QED BY <2>1, <1>0, <1>2, <1>11 DEF SettledClosed
<1>21. CyclesFound'
  <2>1. n \in Group(n)
    BY <1>3, GroupIs
  <2>2. IsCycle(group) <=> Group(n) # {n} \/ n \in Successors(n)
    BY <1>7 DEF IsCycle
  <2>3. \A m \in Group(n) : /\ m \in Reached(m) <=> IsCycle(group)
                            /\ m \in Reached(m) => Together(m) = Group(n)
    BY <2>2, <1>3, GroupTogether
  <2>4. cycles' = {Together(m) : m \in {m \in Settled \cup Group(n) : m \in Reached(m)}}
    BY <2>1, <2>3, <1>0, <1>8 DEF CyclesFound
  <2> QED BY <2>4, <1>2, <1>11 DEF CyclesFound
<1> QED BY <1>14, <1>15, <1>16, <1>17, <1>18, <1>19, <1>20, <1>21 DEF WalkInv

\* Every step of the walk keeps its invariant.
LEMMA WalkKeeps == ASSUME WalkInv, WalkStep, UNCHANGED graph PROVE WalkInv'
<1>1. CASE NextRoot
  <2>1. PICK k \in DOMAIN nodes : nodes[k] \notin Found /\ Discover(nodes[k], <<>>)
    BY <1>1 DEF NextRoot
  <2>2. PICK n, open : n = nodes[k] /\ open = <<>>
    OBVIOUS
  <2>3. frames = <<>> /\ Len(frames) = 0
    BY <1>1 DEF NextRoot
  <2>4. n \in Range(nodes) /\ Discover(n, open) /\ n \notin Found
    BY <2>1, <2>2 DEF Range
  <2>5. open \in Seq(Frames) /\ Len(open) = 0
    BY <2>2
  <2>6. \A i \in 1..Len(frames) :
           /\ open[i].node = frames[i].node
           /\ open[i].left = IF i = Len(frames) THEN frames[i].left \ {n} ELSE frames[i].left
    BY <2>3
  <2> QED BY <2>3, <2>4, <2>5, <2>6, DiscoverKeeps
<1>2. CASE VisitChild
  <2>1. frames # <<>>
    BY <1>2 DEF VisitChild
  <2>2. PICK c \in Top.left :
              \/ c \notin Found /\ Discover(c, Advanced(c))
              \/ /\ c \in Found
                 /\ low' = IF Back(c) THEN [low EXCEPT ![Top.node] = Lower(@, index[c])] ELSE low
                 /\ frames' = Advanced(c)
                 /\ UNCHANGED <<index, stack, cycles>>
    BY <1>2 DEF VisitChild
  <2>3. CASE c \notin Found /\ Discover(c, Advanced(c))
    <3>1. c \in Range(nodes)
      BY <2>1, FramesAre DEF Top, Successors
    <3>2. PICK open : open = Advanced(c)
      OBVIOUS
    <3>3. /\ open \in Seq(Frames) /\ Len(open) = Len(frames)
          /\ \A i \in 1..Len(frames) :
                /\ open[i].node = frames[i].node
                /\ open[i].left = IF i = Len(frames) THEN frames[i].left \ {c} ELSE frames[i].left
      BY <2>1, <3>2, AdvancedIs
    <3>4. Discover(c, open)
      BY <2>3, <3>2
    <3> QED BY <2>2, <2>3, <3>1, <3>3, <3>4, DiscoverKeeps
  <2>4. CASE ~(c \notin Found /\ Discover(c, Advanced(c)))
    <3>1. PICK t : t = Top.node
      OBVIOUS
    <3>2. low' = IF Back(c) THEN [low EXCEPT ![t] = Lower(@, index[c])] ELSE low
      BY <2>2, <2>4, <3>1
    <3> QED BY <2>1, <2>2, <2>4, <3>1, <3>2, LookKeeps
  <2> QED BY <2>3, <2>4
<1>3. CASE Leave
  BY <1>3, PassesOn, Closes
<1> QED BY <1>1, <1>2, <1>3 DEF WalkStep

\* When the walk is over, its cycles are those of the graph.
LEMMA WalkedFindsCycles == WalkInv => ComponentsAreCycles
<1> SUFFICES ASSUME WalkInv, Walked PROVE cycles = {Together(n) : n \in {n \in Range(nodes) : n \in Reached(n)}}
  BY DEF ComponentsAreCycles
<1>1. OnStack = {} /\ Found = Range(nodes)
  BY DEF WalkInv, ListsOK, FoundOK, Walked
<1>2. Settled = Range(nodes)
  BY <1>1 DEF Settled
<1> QED BY <1>2 DEF WalkInv, CyclesFound

----------------------------------------------------------------------------
(* Ordering.                                                               *)

Nodes == DOMAIN dependsOn

\* Any finite graph, cyclic or not.
ItemGraph == IsFiniteSet(Nodes) /\ dependsOn \in [Nodes -> SUBSET Nodes]

orderVars == <<ranked, dependsOn, remaining, ready, order>>

OrderInit ==
    /\ ItemGraph
    /\ remaining = [i \in Nodes |-> Cardinality(dependsOn[i])]
    /\ ready = {i \in Nodes : dependsOn[i] = {}}
    /\ order = <<>>

OrderStep == Place /\ UNCHANGED <<ranked, dependsOn>>

OrderSpec == OrderInit /\ [][OrderStep]_orderVars

----------------------------------------------------------------------------

Waiting(i) == dependsOn[i] \ Placed

\* `remaining` counts what an item waits for; what waits for nothing is ready or placed.
CountInv ==
    /\ ItemGraph
    /\ order \in Seq(Nodes)
    /\ remaining \in [Nodes -> Nat]
    /\ \A i \in Nodes : remaining[i] = Cardinality(Waiting(i))
    /\ ready = {i \in Nodes : Waiting(i) = {} /\ i \notin Placed}

PlacedOnce == \A j, k \in DOMAIN order : order[j] = order[k] => j = k

OrderInv == CountInv /\ TopologicalSoFar /\ PlacedOnce

\* What is left when the walk ends waits for something else that is left.
RestWaits == ready = {} => \A i \in Nodes \ Placed : Waiting(i) \ Placed # {}

\* An item waits for finitely many others, and its count is zero exactly when it waits for none.
LEMMA WaitingFinite ==
    ASSUME CountInv, NEW i \in Nodes
    PROVE  IsFiniteSet(Waiting(i)) /\ (Cardinality(Waiting(i)) = 0 <=> Waiting(i) = {})
<1>1. Waiting(i) \subseteq Nodes
  BY DEF CountInv, Waiting, ItemGraph
<1>2. IsFiniteSet(Waiting(i))
  BY <1>1, FS_Subset DEF CountInv, ItemGraph
<1> QED
  BY <1>2, FS_EmptySet

\* topologicalItems starts with nothing placed and every count the size of what its item needs.
LEMMA InitCounts == OrderInit => OrderInv
<1> SUFFICES ASSUME OrderInit PROVE OrderInv
  OBVIOUS
<1>1. Placed = {} /\ order \in Seq(Nodes)
  BY DEF OrderInit, Placed
<1>2. \A i \in Nodes : Waiting(i) = dependsOn[i]
  BY <1>1 DEF OrderInit, Waiting
<1>3. \A i \in Nodes : IsFiniteSet(dependsOn[i]) /\ Cardinality(dependsOn[i]) \in Nat
  BY FS_Subset, FS_CardinalityType DEF OrderInit, ItemGraph
<1>4. CountInv
  BY <1>1, <1>2, <1>3 DEF OrderInit, CountInv
<1>5. TopologicalSoFar
  BY DEF OrderInit, TopologicalSoFar
<1>6. PlacedOnce
  BY DEF OrderInit, PlacedOnce
<1> QED
  BY <1>4, <1>5, <1>6 DEF OrderInv

\* Placing an item takes it off what the others wait for.
LEMMA PlaceCounts ==
    ASSUME OrderInv, OrderStep
    PROVE  CountInv'
<1>0. CountInv
  BY DEF OrderInv
<1>1. PICK x \in ready : /\ order' = Append(order, x)
                         /\ remaining' = Left(x)
                         /\ ready' = (ready \ {x}) \cup
                              {i \in DOMAIN dependsOn : x \in dependsOn[i] /\ Left(x)[i] = 0}
  BY DEF OrderStep, Place
<1>2. x \in Nodes /\ x \notin Placed /\ Waiting(x) = {}
  BY <1>0 DEF CountInv
<1>3. dependsOn' = dependsOn /\ Nodes' = Nodes /\ ItemGraph'
  BY <1>0 DEF CountInv, OrderStep, ItemGraph, Nodes
<1>4. order' \in Seq(Nodes)
  BY <1>0, <1>1, <1>2 DEF CountInv
<1>5. Placed' = Placed \cup {x}
  <2>1. /\ Len(order) \in Nat /\ DOMAIN order = 1..Len(order)
        /\ DOMAIN order' = 1..(Len(order) + 1) /\ order'[Len(order) + 1] = x
        /\ \A k \in DOMAIN order : order'[k] = order[k]
    BY <1>0, <1>1, <1>2 DEF CountInv
  <2>2. DOMAIN order' = DOMAIN order \cup {Len(order) + 1}
    BY <2>1
  <2> QED
    BY <2>1, <2>2, Zenon DEF Placed
<1>6. \A i \in Nodes : Waiting(i)' = Waiting(i) \ {x}
  BY <1>3, <1>5 DEF Waiting
<1>7. \A i \in Nodes : x \in dependsOn[i] <=> x \in Waiting(i)
  BY <1>2 DEF Waiting
<1>8. ASSUME NEW i \in Nodes
      PROVE  /\ remaining'[i] \in Nat
             /\ remaining'[i] = Cardinality(Waiting(i)')
             /\ remaining'[i] = 0 <=> Waiting(i)' = {}
  <2>1. IsFiniteSet(Waiting(i)) /\ Cardinality(Waiting(i)) \in Nat
    BY <1>0, WaitingFinite, FS_CardinalityType
  <2>2. remaining'[i] = IF x \in Waiting(i) THEN remaining[i] - 1 ELSE remaining[i]
    BY <1>0, <1>1, <1>7 DEF Left, CountInv
  <2>3. remaining[i] = Cardinality(Waiting(i))
    BY <1>0 DEF CountInv
  <2>4. IsFiniteSet(Waiting(i) \ {x}) /\ Cardinality(Waiting(i) \ {x}) \in Nat
    BY <2>1, FS_Subset, FS_CardinalityType
  <2>5. CASE x \in Waiting(i)
    <3>1. Cardinality(Waiting(i) \ {x}) = Cardinality(Waiting(i)) - 1
      BY <2>1, <2>5, FS_RemoveElement
    <3> QED
      BY <3>1, <2>2, <2>3, <2>4, <2>5, <1>6, FS_EmptySet
  <2>6. CASE x \notin Waiting(i)
    <3>1. Waiting(i) \ {x} = Waiting(i)
      BY <2>6
    <3> QED
      BY <3>1, <2>1, <2>2, <2>3, <2>6, <1>6, FS_EmptySet
  <2> QED
    BY <2>5, <2>6
<1>9. remaining' \in [Nodes -> Nat]
  <2>1. remaining' = [i \in Nodes |-> remaining'[i]]
    BY <1>0, <1>1 DEF Left, CountInv
  <2> QED
    BY <2>1, <1>8
<1>10. ready' = {i \in Nodes : Waiting(i)' = {} /\ i \notin Placed'}
  <2>1. ASSUME NEW i \in Nodes
        PROVE  i \in ready' <=> Waiting(i)' = {} /\ i \notin Placed'
    <3>1. i \in ready <=> Waiting(i) = {} /\ i \notin Placed
      BY <1>0 DEF CountInv
    <3>2. i \in ready' <=> \/ i \in ready /\ i # x
                           \/ x \in Waiting(i) /\ Waiting(i)' = {}
      BY <1>1, <1>3, <1>7, <1>8 DEF Nodes
    <3>3. x \in Waiting(i) => i # x /\ i \notin Placed
      <4>1. i \in Placed => \A j \in Waiting(i) : FALSE
        <5>1. ASSUME i \in Placed PROVE dependsOn[i] \subseteq Placed
          <6>1. PICK k \in DOMAIN order : order[k] = i
            BY <5>1 DEF Placed
          <6>2. \A j \in dependsOn[i] : \E l \in 1..(k - 1) : order[l] = j
            BY <6>1, <1>3 DEF OrderInv, TopologicalSoFar
          <6>3. 1..(k - 1) \subseteq DOMAIN order
            <7>1. DOMAIN order = 1..Len(order) /\ Len(order) \in Nat
              BY <1>0 DEF CountInv
            <7> QED
              BY <6>1, <7>1
          <6> QED
            BY <6>2, <6>3 DEF Placed
        <5> QED
          BY <5>1, <1>3 DEF Waiting
      <4> QED
        BY <4>1, <1>2
    <3> QED
      BY <3>1, <3>2, <3>3, <1>5, <1>6
  <2>2. ready' \subseteq Nodes
    BY <1>0, <1>1, <1>3 DEF CountInv, Nodes
  <2> QED
    BY <2>1, <2>2
<1> QED
  BY <1>3, <1>4, <1>8, <1>9, <1>10 DEF CountInv

\* An item is ready only once everything it needs is placed, so placing it keeps the order.
LEMMA PlaceKeepsOrder ==
    ASSUME OrderInv, OrderStep
    PROVE  TopologicalSoFar'
<1>1. PICK x \in ready : order' = Append(order, x)
  BY DEF OrderStep, Place
<1>2. /\ order \in Seq(Nodes) /\ x \in Nodes /\ Waiting(x) = {}
      /\ dependsOn' = dependsOn
  BY DEF OrderInv, CountInv, OrderStep
<1>3. Len(order') = Len(order) + 1 /\ Len(order) \in Nat
      /\ DOMAIN order = 1..Len(order) /\ DOMAIN order' = 1..(Len(order) + 1)
      /\ order'[Len(order) + 1] = x
      /\ \A k \in DOMAIN order : order'[k] = order[k]
  BY <1>1, <1>2
<1> SUFFICES ASSUME NEW k \in DOMAIN order', NEW i \in dependsOn[order'[k]]
             PROVE  \E j \in 1..(k - 1) : order'[j] = i
  BY <1>2 DEF TopologicalSoFar
<1>4. CASE k \in DOMAIN order
  <2>1. PICK j \in 1..(k - 1) : order[j] = i
    BY <1>3, <1>4 DEF OrderInv, TopologicalSoFar
  <2>2. j \in DOMAIN order
    BY <1>3, <1>4
  <2> QED
    BY <2>1, <2>2, <1>3
<1>5. CASE k = Len(order) + 1
  <2>1. i \in Placed
    BY <1>2, <1>3, <1>5 DEF Waiting
  <2>2. PICK j \in DOMAIN order : order[j] = i
    BY <2>1 DEF Placed
  <2> QED
    BY <2>2, <1>3, <1>5
<1> QED
  BY <1>3, <1>4, <1>5

\* What is placed was not placed before.
LEMMA PlaceKeepsOnce ==
    ASSUME OrderInv, OrderStep
    PROVE  PlacedOnce'
<1>1. PICK x \in ready : order' = Append(order, x)
  BY DEF OrderStep, Place
<1>2. order \in Seq(Nodes) /\ x \in Nodes /\ x \notin Placed
  BY DEF OrderInv, CountInv
<1>3. /\ Len(order) \in Nat
      /\ DOMAIN order = 1..Len(order) /\ DOMAIN order' = 1..(Len(order) + 1)
      /\ order'[Len(order) + 1] = x
      /\ \A k \in DOMAIN order : order'[k] = order[k]
  BY <1>1, <1>2
<1>4. \A k \in DOMAIN order : order'[k] # x
  BY <1>2, <1>3 DEF Placed
<1>5. \A k \in DOMAIN order' : k \in DOMAIN order \/ k = Len(order) + 1
  BY <1>3
<1> QED
  BY <1>3, <1>4, <1>5 DEF PlacedOnce, OrderInv

\* Placing an item keeps the whole invariant of the ordering.
LEMMA OrderSteps == ASSUME OrderInv, OrderStep PROVE OrderInv'
BY PlaceCounts, PlaceKeepsOrder, PlaceKeepsOnce DEF OrderInv

\* The invariant of the ordering speaks of the ordering's variables alone.
LEMMA OrderStays == ASSUME OrderInv, UNCHANGED orderVars PROVE OrderInv'
BY DEF OrderInv, CountInv, TopologicalSoFar, PlacedOnce, Waiting, Placed, Nodes, ItemGraph, orderVars

\* The invariant of the ordering holds of the walk on its own, in every finite item graph.
LEMMA OrderInvHolds == OrderSpec => []OrderInv
<1>1. OrderInv /\ [OrderStep]_orderVars => OrderInv'
  BY OrderSteps, OrderStays
<1> QED
  BY <1>1, InitCounts, PTL DEF OrderSpec

\* graph/index-content.ts:193-210: whatever the recipes are, no item is placed before
\* one it is made from.
THEOREM PlacedInOrder == OrderSpec => []TopologicalSoFar
<1>1. OrderInv => TopologicalSoFar
  BY DEF OrderInv
<1> QED
  BY <1>1, OrderInvHolds, PTL

\* graph/index-content.ts:212-214: what the walk leaves for the end waits for itself,
\* that is, each such item is made from another one that is left.
THEOREM LeftoverIsCyclic == OrderSpec => []RestWaits
<1>1. OrderInv => RestWaits
  <2> SUFFICES ASSUME OrderInv, ready = {}, NEW i \in Nodes \ Placed
               PROVE  Waiting(i) \ Placed # {}
    BY DEF RestWaits
  <2>1. Waiting(i) # {}
    BY DEF OrderInv, CountInv
  <2> QED
    BY <2>1 DEF Waiting
<1> QED
  BY <1>1, OrderInvHolds, PTL

----------------------------------------------------------------------------
(* From a bundle's files to the order of its items.                        *)

\* The list b holds, its graph of recipes, and what its checks have said of it.
Loaded ==
    /\ IsList(b.recipes) /\ IsList(b.items) /\ "power" \notin Ids(b.items)
    /\ nodes = [k \in Each(b.recipes) |-> b.recipes[k].id]
    /\ edges = RecipeGraph(b.recipes)

Checked == Walked /\ CheckReferences(b)

Indexing == /\ ranked = Append([k \in Each(b.items) |-> b.items[k].id], "power")
            /\ dependsOn = Needs

ContentInv ==
    /\ WalkInv
    /\ phase = "load" => StartWalk
    /\ phase \in {"components", "index", "order", "ready"} => Loaded
    /\ phase \in {"index", "order", "ready"} => Checked
    /\ phase = "order" => Indexing /\ OrderInv
    /\ ItemsOrdered

\* The walk's invariant says nothing of the rest.
LEMMA WalkStays == ASSUME WalkInv, UNCHANGED <<graph, walk>> PROVE WalkInv'
<1>1. /\ Range(nodes)' = Range(nodes)
      /\ \A m : Successors(m)' = Successors(m)
      /\ \A m : Reached(m)' = Reached(m)
      /\ \A m : Together(m)' = Together(m)
  BY SameGraph
<1>2. index' = index /\ low' = low /\ stack' = stack /\ frames' = frames /\ cycles' = cycles
  BY DEF walk
<1>3. Found' = Found /\ OnStack' = OnStack /\ Settled' = Settled /\ Frames' = Frames
  BY <1>1, <1>2 DEF Found, OnStack, Settled, Frames
<1>4. /\ \A i, f : Visits(i, f)' <=> Visits(i, f)
      /\ \A m : Open(m)' <=> Open(m)
      /\ \A m, S : Seen(m, S)' <=> Seen(m, S)
  BY <1>2, <1>3 DEF Visits, Open, Seen
<1>5. FoundOK' /\ ListsOK'
  BY <1>1, <1>2, <1>3 DEF WalkInv, FoundOK, ListsOK
<1>6. ReachesUp' /\ LowReached' /\ Enclosed'
  BY <1>1, <1>2, <1>3, <1>4 DEF WalkInv, ReachesUp, LowReached, Enclosed
<1>7. LookedAt'
  BY <1>1, <1>2, <1>3, <1>4 DEF WalkInv, LookedAt, Seen
<1>8. SettledClosed' /\ CyclesFound'
  BY <1>1, <1>2, <1>3 DEF WalkInv, SettledClosed, CyclesFound
<1> QED BY <1>5, <1>6, <1>7, <1>8 DEF WalkInv

\* Of a list: its ids are finitely many, as many as it is long if none is there twice.
LEMMA ListIs ==
    ASSUME NEW list, IsList(list)
    PROVE  /\ DOMAIN list = 1..Len(list) /\ Len(list) \in Nat
           /\ IsFiniteSet(Ids(list))
           /\ ~Twice(list) => /\ Cardinality(Ids(list)) = Len(list)
                              /\ \A x \in Range(list) : Named(list, x.id) = x
<1>1. DOMAIN list = 1..Len(list) /\ Len(list) \in Nat
  BY DEF IsList
<1>0. PICK f : f = [k \in 1..Len(list) |-> list[k].id]
  OBVIOUS
<1>2. f \in Surjection(1..Len(list), Ids(list))
  BY <1>0, <1>1 DEF Surjection, Ids, Each
<1>3. IsFiniteSet(1..Len(list)) /\ Cardinality(1..Len(list)) = Len(list)
  <2>1. PICK n \in Nat : n = Len(list)
    BY <1>1
  <2>2. 1 \in Int /\ n \in Int
    OBVIOUS
  <2>3. IsFiniteSet(1..n) /\ Cardinality(1..n) = IF 1 > n THEN 0 ELSE n - 1 + 1
    BY <2>2, FS_Interval
  <2> QED BY <2>1, <2>3
<1>4. IsFiniteSet(Ids(list))
  BY <1>2, <1>3, FS_Surjection
<1>5. ASSUME ~Twice(list)
      PROVE  /\ Cardinality(Ids(list)) = Len(list)
             /\ \A x \in Range(list) : Named(list, x.id) = x
  <2>1. \A j, k \in 1..Len(list) : list[j].id = list[k].id => j = k
    <3>1. \A k \in 1..Len(list) : \A j \in 1..(k - 1) : list[j].id # list[k].id
      BY <1>1, <1>5 DEF Twice, Each
    <3>2. \A j, k \in 1..Len(list) : j < k => j \in 1..(k - 1)
      BY <1>1
    <3>3. \A j, k \in 1..Len(list) : j < k \/ k < j \/ j = k
      BY <1>1
    <3> QED BY <3>1, <3>2, <3>3
  <2>2. f \in Injection(1..Len(list), Ids(list))
    BY <2>1, <1>0, <1>1 DEF Injection, IsInjective, Ids, Each
  <2>3. Cardinality(Ids(list)) = Len(list)
    BY <2>2, <1>2, <1>3, FS_Surjection
  <2>4. ASSUME NEW x \in Range(list) PROVE Named(list, x.id) = x
    <3>1. PICK k \in 1..Len(list) : list[k] = x
      BY <1>1 DEF Range
    <3>2. PICK j : j = CHOOSE p \in 1..Len(list) : list[p].id = x.id
      OBVIOUS
    <3>3. j \in 1..Len(list) /\ list[j].id = list[k].id
      BY <3>1, <3>2
    <3>4. j = k
      BY <3>3, <2>1
    <3> QED BY <3>1, <3>2, <3>4, <1>1 DEF Named, Each
  <2> QED BY <2>3, <2>4
<1> QED BY <1>1, <1>4, <1>5

\* The derived numbers touch neither recipes nor items.
LEMMA DerivedKeeps ==
    ASSUME NEW m, {"lanes", "items", "classes", "recipes"} \subseteq DOMAIN m
    PROVE  ApplyDerived(m).recipes = m.recipes /\ ApplyDerived(m).items = m.items
BY DEF ApplyDerived

\* The recipes on a cycle are those that reach themselves.
LEMMA CyclicAre ==
    ASSUME WalkInv, Walked
    PROVE  \A x : x \in Cyclic <=> x \in Reached(x)
<1>1. cycles = {Together(n) : n \in {n \in Range(nodes) : n \in Reached(n)}}
  BY WalkedFindsCycles DEF ComponentsAreCycles
<1>2. ASSUME NEW x \in Cyclic PROVE x \in Reached(x)
  <2>1. PICK n \in Range(nodes) : n \in Reached(n) /\ x \in Together(n)
    BY <1>1, <1>2 DEF Cyclic
  <2> QED BY <2>1, ReachesOn DEF Together
<1>3. ASSUME NEW x, x \in Reached(x) PROVE x \in Cyclic
  <2>1. x \in Range(nodes) /\ x \in Together(x)
    BY <1>3, ReachedNodes DEF Together
  <2> QED BY <2>1, <1>1, <1>3 DEF Cyclic
<1> QED BY <1>2, <1>3

\* A recipe that consumes what another makes leads to it.
LEMMA ConsumesFrom ==
    ASSUME Loaded, Checked, NEW r \in Range(b.recipes), NEW s \in Range(b.recipes),
           NEW i \in Range(r.ins), i \in Outputs(s)
    PROVE  s.id \in Successors(r.id)
<1>1. PICK list : list = b.recipes /\ IsList(list) /\ ~Twice(list)
  BY DEF Loaded, Checked, CheckReferences
<1>2. DOMAIN list = 1..Len(list) /\ \A x \in Range(list) : Named(list, x.id) = x
  BY <1>1, ListIs
<1>3. Range(nodes) = Ids(list) /\ \A x \in Range(list) : x.id \in Ids(list)
  BY <1>1 DEF Loaded, Range, Ids, Each
<1>4. edges[r.id] = DependsOn(list, r)
  <2>1. edges = [id \in Ids(list) |-> DependsOn(list, Named(list, id))]
    BY <1>1 DEF Loaded, RecipeGraph
  <2>2. r.id \in Ids(list) /\ Named(list, r.id) = r
    BY <1>1, <1>2, <1>3
  <2> QED BY <2>1, <2>2
<1>5. s.id \in DependsOn(list, r)
  BY <1>1 DEF DependsOn
<1> QED BY <1>1, <1>3, <1>4, <1>5 DEF Successors

\* What an item needs are items, each an input of a selectable recipe that makes it.
LEMMA NeedsAre ==
    ASSUME CheckReferences(b), NEW need, need = Needs
    PROVE  /\ need \in [EngineItems -> SUBSET Ids(b.items)]
           /\ \A i \in EngineItems : \A w :
                 w \in need[i] <=> w # i /\ \E r \in Selectable : i \in Yields(r) /\ w \in Range(r.ins)
<1> DEFINE Eaten(i) == UNION {Range(r.ins) : r \in {r \in Selectable : i \in Yields(r)}}
<1>1. \A r \in Selectable : Range(r.ins) \subseteq Ids(b.items)
  BY DEF CheckReferences, Selectable
<1>2. need = [i \in EngineItems |-> Eaten(i) \ {i}]
  BY DEF Needs
<1>3. \A i, w : w \in Eaten(i) <=> \E r \in Selectable : i \in Yields(r) /\ w \in Range(r.ins)
  <2> SUFFICES ASSUME NEW i, NEW w
               PROVE  w \in Eaten(i) <=> \E r \in Selectable : i \in Yields(r) /\ w \in Range(r.ins)
    OBVIOUS
  <2>1. PICK makers : makers = {r \in Selectable : i \in Yields(r)}
    OBVIOUS
  <2>2. Eaten(i) = UNION {Range(r.ins) : r \in makers}
    BY <2>1, Zenon
  <2>3. w \in UNION {Range(r.ins) : r \in makers} <=> \E r \in makers : w \in Range(r.ins)
    BY Zenon
  <2> HIDE DEF Eaten
  <2> QED BY <2>1, <2>2, <2>3
<1> HIDE DEF Eaten
<1>4. \A i : Eaten(i) \subseteq Ids(b.items)
  BY <1>1, <1>3
<1> QED BY <1>2, <1>3, <1>4

\* With the cycles out, Kahn's walk leaves nothing: of the recipes that tie what is left
\* together, one reaches least, and the one it leads to would reach less.
LEMMA NothingLeft ==
    ASSUME WalkInv, Loaded, Checked, Indexing, OrderInv, ready = {}
    PROVE  Placed = EngineItems
<1> DEFINE Unplaced == Ids(b.items) \ Placed
           Stuck == {r \in Selectable : /\ Outputs(r) \cap Unplaced # {}
                                        /\ Range(r.ins) \cap Unplaced # {}}
<1>1. PICK need : need = Needs /\ dependsOn = need
  BY DEF Indexing
<1>2. /\ need \in [EngineItems -> SUBSET Ids(b.items)]
      /\ \A i \in EngineItems : \A w :
            w \in need[i] <=> w # i /\ \E r \in Selectable : i \in Yields(r) /\ w \in Range(r.ins)
  BY <1>1, NeedsAre DEF Checked
<1>3. Nodes = EngineItems
  BY <1>1, <1>2 DEF Nodes
<1>4. Placed \subseteq EngineItems
  BY <1>3 DEF OrderInv, CountInv, Placed
<1>0. \A i \in Ids(b.items) : i \in EngineItems /\ \A r : i \in Yields(r) => i \in Outputs(r)
  BY DEF EngineItems, Yields, Loaded
<1>5. \A i \in Unplaced : \E r \in Stuck : i \in Outputs(r)
  <2> SUFFICES ASSUME NEW i \in Unplaced PROVE \E r \in Stuck : i \in Outputs(r)
    OBVIOUS
  <2>1. Waiting(i) # {}
    BY <1>0, <1>3 DEF OrderInv, CountInv
  <2>2. PICK w \in need[i] : w \notin Placed
    BY <2>1, <1>1 DEF Waiting
  <2>3. w \in Unplaced
    BY <2>2, <1>0, <1>2
  <2>4. PICK r \in Selectable : i \in Outputs(r) /\ w \in Range(r.ins)
    BY <2>2, <1>0, <1>2
  <2> QED BY <2>3, <2>4
<1>6. \A r \in Stuck : \E s \in Stuck : s.id \in Successors(r.id)
  <2> SUFFICES ASSUME NEW r \in Stuck PROVE \E s \in Stuck : s.id \in Successors(r.id)
    OBVIOUS
  <2>1. PICK w \in Range(r.ins) : w \in Unplaced
    OBVIOUS
  <2>2. PICK s \in Stuck : w \in Outputs(s)
    BY <2>1, <1>5
  <2>3. r \in Range(b.recipes) /\ s \in Range(b.recipes)
    BY DEF Selectable
  <2> HIDE DEF Stuck, Unplaced
  <2>4. s.id \in Successors(r.id)
    BY <2>1, <2>2, <2>3, ConsumesFrom
  <2> QED BY <2>2, <2>4
<1>7. \A r \in Stuck : r.id \notin Reached(r.id)
  BY CyclicAre DEF Checked, Selectable
<1> HIDE DEF Stuck
<1>8. Stuck = {}
  <2> SUFFICES ASSUME Stuck # {} PROVE FALSE
    OBVIOUS
  <2>1. \A n : IsFiniteSet(Reached(n)) /\ Cardinality(Reached(n)) \in Nat
    BY ReachedNodes, FS_Subset, FS_CardinalityType DEF WalkInv, FoundOK
  <2>2. PICK f : f = [r \in Stuck |-> Cardinality(Reached(r.id))]
    OBVIOUS
  <2>3. \A r \in Stuck : f[r] \in Nat
    BY <2>1, <2>2
  <2>4. PICK r \in Stuck : \A s \in Stuck : f[r] <= f[s]
    BY <2>3, LeastOf
  <2>5. PICK s \in Stuck : s.id \in Successors(r.id)
    BY <1>6
  <2>6. s.id \in Reached(r.id) /\ Reached(s.id) \subseteq Reached(r.id) /\ s.id \notin Reached(s.id)
    BY <2>5, <1>7, EdgeReaches, ReachesOn
  <2>7. Cardinality(Reached(s.id)) <= Cardinality(Reached(r.id))
        /\ Cardinality(Reached(s.id)) # Cardinality(Reached(r.id))
    <3>1. PICK S, T : S = Reached(r.id) /\ T = Reached(s.id)
      OBVIOUS
    <3>2. IsFiniteSet(S) /\ T \in SUBSET S /\ S # T
      BY <3>1, <2>1, <2>6
    <3> QED BY <3>1, <3>2, FS_Subset
  <2>8. f[r] <= f[s] /\ f[r] = Cardinality(Reached(r.id)) /\ f[s] = Cardinality(Reached(s.id))
    BY <2>2, <2>4
  <2> QED BY <2>1, <2>7, <2>8
<1>9. Unplaced = {}
  BY <1>5, <1>8
<1>10. "power" \in Placed
  <2> SUFFICES ASSUME "power" \notin Placed PROVE FALSE
    OBVIOUS
  <2>1. "power" \in EngineItems
    BY DEF EngineItems
  <2>2. Waiting("power") # {}
    BY <2>1, <1>3 DEF OrderInv, CountInv
  <2>3. PICK w \in need["power"] : w \notin Placed
    BY <2>2, <1>1 DEF Waiting
  <2> QED BY <2>1, <2>3, <1>2, <1>9
<1> QED BY <1>4, <1>9, <1>10 DEF EngineItems

\* The order that comes out of an empty `ready` is that of all the items.
LEMMA EndsInOrder ==
    ASSUME WalkInv, Loaded, Checked, Indexing, OrderInv, Finish, UNCHANGED <<graph, b>>
    PROVE  ItemsOrdered'
<1>1. Placed = EngineItems
  BY NothingLeft DEF Finish
<1>2. PICK items : items = b.items /\ IsList(items) /\ ~Twice(items)
  BY DEF Loaded, Checked, CheckReferences
<1>3. /\ DOMAIN items = 1..Len(items) /\ Len(items) \in Nat
      /\ Cardinality(Ids(items)) = Len(items)
  BY <1>2, ListIs
<1>4. order \in Seq(Nodes) /\ Len(order) \in Nat /\ DOMAIN order = 1..Len(order)
  BY DEF OrderInv, CountInv
<1>5. Rest = <<>>
  <2>0. PICK ids : ids = [k \in 1..Len(items) |-> items[k].id]
    OBVIOUS
  <2>5. ids \in Seq(Ids(items)) /\ ranked = Append(ids, "power")
    BY <1>2, <1>3, <2>0 DEF Indexing, Ids, Each
  <2>1. \A k \in DOMAIN ranked : ranked[k] \in Placed
    BY <1>1, <1>2, <2>5 DEF EngineItems
  <2>2. {k \in DOMAIN ranked : ranked[k] \notin Placed} = {}
    BY <2>1
  <2>3. Cardinality({}) = 0
    BY FS_EmptySet
  <2>4. PICK left, at : left = {} /\ Rest = [p \in 1..Cardinality(left) |-> ranked[at[p]]]
    <3>1. PICK left : left = {k \in DOMAIN ranked : ranked[k] \notin Placed}
      OBVIOUS
    <3>2. PICK at : at = [p \in 1..Cardinality(left) |->
                            CHOOSE k \in left : Cardinality({j \in left : j < k}) = p - 1]
      OBVIOUS
    <3>3. Rest = [p \in 1..Cardinality(left) |-> ranked[at[p]]]
      BY <3>1, <3>2 DEF Rest
    <3> QED BY <3>1, <3>3, <2>2
  <2> QED BY <2>3, <2>4
<1>6. order' = order
  BY <1>4, <1>5 DEF Finish
<1>7. Range(order) = EngineItems
  BY <1>1 DEF Placed, Range
<1>8. Len(order) = Len(b.items) + 1
  <2>1. order \in Bijection(1..Len(order), EngineItems)
    <3>1. order \in [1..Len(order) -> EngineItems]
      BY <1>1, <1>4 DEF Placed
    <3> QED BY <3>1, <1>1, <1>4 DEF Bijection, Injection, Surjection, IsInjective, Placed, OrderInv, PlacedOnce
  <2>2. Cardinality(EngineItems) = Len(order)
    <3>1. ExistsBijection(1..Len(order), EngineItems)
      BY <2>1 DEF ExistsBijection
    <3> QED BY <3>1, <1>4, FS_CountingElements
  <2>3. Cardinality(EngineItems) = Cardinality(Ids(items)) + 1
    <3>1. IsFiniteSet(Ids(items)) /\ "power" \notin Ids(items)
      BY <1>2, ListIs DEF Loaded
    <3> QED BY <3>1, <1>2, FS_AddElement DEF EngineItems
  <2> QED BY <2>2, <2>3, <1>2, <1>3
<1>9. ASSUME NEW r \in Range(b.recipes), r.id \notin Reached(r.id), NEW i \in Range(r.ins), NEW o \in Yields(r)
      PROVE  \E j, k \in DOMAIN order : j < k /\ order[j] = i /\ order[k] = o
  <2>1. r \in Selectable
    BY <1>9, CyclicAre DEF Checked, Selectable
  <2>0. i \in Ids(b.items)
    BY <1>9 DEF Checked, CheckReferences
  <2>2. i # o
    <3>1. CASE o \in Outputs(r)
      BY <1>9, <3>1, ConsumesFrom, EdgeReaches
    <3>2. CASE o \notin Outputs(r)
      BY <1>9, <2>0, <3>2 DEF Yields, Loaded
    <3> QED BY <3>1, <3>2
  <2>3. o \in EngineItems
    BY <1>9 DEF Checked, CheckReferences, Outputs, Yields, EngineItems
  <2>4. i \in dependsOn[o]
    <3>1. PICK need : need = Needs /\ dependsOn = need
      BY DEF Indexing
    <3> QED BY <3>1, <2>1, <2>2, <2>3, <1>9, NeedsAre DEF Checked
  <2>5. PICK k \in DOMAIN order : order[k] = o
    BY <2>3, <1>1 DEF Placed
  <2>6. PICK j \in 1..(k - 1) : order[j] = i
    BY <2>4, <2>5 DEF OrderInv, TopologicalSoFar
  <2>7. j \in DOMAIN order /\ j < k
    BY <1>4, <2>5
  <2> QED BY <2>5, <2>6, <2>7
<1>10. (\A x : Reached(x)' = Reached(x)) /\ b' = b
  BY SameGraph
<1> QED BY <1>6, <1>7, <1>8, <1>9, <1>10 DEF ItemsOrdered, EngineItems

\* The same of the next state.
LEMMA StartsRightNext == StartWalk' /\ IsFiniteSet(Range(nodes))' => WalkInv'
<1>1. StartWalk /\ IsFiniteSet(Range(nodes)) => WalkInv
  BY StartsRight
<1> QED BY <1>1, PTL

\* The same start, when it is a step of indexContent that starts the ordering.
LEMMA InitCountsNext == OrderInit' => OrderInv'
BY InitCounts, PTL

\* A bundle that loads is a list of recipes and one of items, and the walk starts on it.
LEMMA LoadKeeps == ASSUME ContentInv, Load PROVE ContentInv'
<1>1. WalkInv /\ StartWalk /\ UNCHANGED walk /\ phase = "load"
  BY DEF ContentInv, Load
<1>2. StartWalk'
  BY <1>1 DEF StartWalk, walk
<1>3. PICK merged : merged = FoldLeft(MergeInto, <<>>, files) @@ Defaults
  OBVIOUS
<1>4. CASE BundleOK(merged) /\ ~Outdated(merged)
  <2>1. /\ b' = ApplyDerived(merged) /\ phase' = "components"
        /\ nodes' = [k \in Each(merged.recipes) |-> merged.recipes[k].id]
        /\ edges' = RecipeGraph(merged.recipes)
    BY <1>3, <1>4 DEF Load
  <2>2. IsList(merged.recipes) /\ IsList(merged.items) /\ {"lanes", "items", "classes", "recipes"} \subseteq DOMAIN merged
    BY <1>4 DEF BundleOK
  <2>3. b'.recipes = merged.recipes /\ b'.items = merged.items
    BY <2>1, <2>2, DerivedKeeps
  <2>7. "power" \notin Ids(merged.items)
    BY <1>4 DEF BundleOK, ItemOK, Ids, Each, Range
  <2>4. Loaded'
    BY <2>1, <2>2, <2>3, <2>7 DEF Loaded
  <2>5. Range(nodes)' = Ids(merged.recipes)
    BY <2>1 DEF Range, Ids, Each
  <2>6. WalkInv'
    BY <2>2, <2>5, <1>2, ListIs, StartsRightNext
  <2> QED BY <2>1, <2>4, <2>6 DEF ContentInv, ItemsOrdered
<1>5. CASE ~(BundleOK(merged) /\ ~Outdated(merged))
  <2>1. phase' = "refused" /\ UNCHANGED <<graph, walk>>
    BY <1>1, <1>3, <1>5 DEF Load
  <2> QED BY <2>1, <1>1, WalkStays DEF ContentInv, ItemsOrdered
<1> QED BY <1>4, <1>5

\* What is loaded stays so, and what was said of it, while the bundle and its graph do.
LEMMA BundleStays ==
    ASSUME UNCHANGED <<b, graph>>
    PROVE  /\ Loaded => Loaded'
           /\ walk' = walk /\ Checked => Checked'
           /\ walk' = walk /\ itemGraph' = itemGraph /\ Indexing => Indexing'
           /\ walk' = walk => Needs' = Needs
<1>1. b' = b /\ nodes' = nodes /\ edges' = edges
  BY DEF graph
<1>2. Loaded => Loaded'
  BY <1>1 DEF Loaded
<1>3. walk' = walk /\ Checked => Checked'
  BY <1>1 DEF Checked, Walked, walk, Found
<1>4. walk' = walk => Needs' = Needs
  BY <1>1 DEF Needs, EngineItems, Selectable, Cyclic, walk
<1>5. walk' = walk /\ itemGraph' = itemGraph /\ Indexing => Indexing'
  BY <1>1, <1>4 DEF Indexing, itemGraph
<1> QED BY <1>2, <1>3, <1>4, <1>5

\* A bundle that is not refused passed the check of its references.
LEMMA ValidateKeeps == ASSUME ContentInv, Validate PROVE ContentInv'
<1>1. /\ phase = "components" /\ Walked /\ failed' = ValidateBundle(b, Selectable)
      /\ phase' = IF failed' = {} THEN "index" ELSE "refused"
      /\ UNCHANGED <<b, graph, walk>>
  BY DEF Validate
<1>2. WalkInv' /\ Loaded'
  BY <1>1, WalkStays, BundleStays DEF ContentInv
<1>3. failed' = {} => CheckReferences(b)
  <2>1. 2 \in failed' <=> ~CheckReferences(b)
    BY <1>1 DEF ValidateBundle
  <2> QED BY <2>1
<1>4. failed' = {} => Checked'
  BY <1>1, <1>3, BundleStays DEF Checked
<1> QED BY <1>1, <1>2, <1>4 DEF ContentInv, ItemsOrdered

\* The items' graph is finite and starts with nothing placed.
LEMMA IndexKeeps == ASSUME ContentInv, IndexContent PROVE ContentInv'
<1>1. /\ phase = "index" /\ UNCHANGED <<b, graph, walk>>
      /\ WalkInv /\ Loaded /\ Checked
  BY DEF IndexContent, ContentInv
<1>2. WalkInv' /\ Loaded' /\ Checked' /\ Needs' = Needs
  BY <1>1, WalkStays, BundleStays
<1>3. CASE \E r \in Range(b.recipes) : PrimaryOutput(r) = None
  BY <1>2, <1>3 DEF IndexContent, ContentInv, ItemsOrdered
<1>4. CASE ~(\E r \in Range(b.recipes) : PrimaryOutput(r) = None)
  <2>1. PICK need : need = Needs
    OBVIOUS
  <2>2. /\ phase' = "order" /\ ranked' = Append([k \in Each(b.items) |-> b.items[k].id], "power")
        /\ dependsOn' = need /\ StartOrder(need)
    BY <1>4, <2>1 DEF IndexContent
  <2>3. Indexing'
    BY <2>1, <2>2, <1>1, <1>2 DEF Indexing
  <2>4. need \in [EngineItems -> SUBSET Ids(b.items)]
    BY <2>1, <1>1, NeedsAre DEF Checked
  <2>5. IsFiniteSet(EngineItems) /\ Ids(b.items) \subseteq EngineItems
    BY <1>1, ListIs, FS_AddElement DEF Loaded, EngineItems
  <2>6. OrderInit'
    BY <2>2, <2>4, <2>5 DEF OrderInit, ItemGraph, Nodes, StartOrder
  <2> QED BY <2>2, <2>3, <2>6, <1>2, InitCountsNext DEF ContentInv, ItemsOrdered
<1> QED BY <1>3, <1>4

\* The loader starts with no graph at all.
LEMMA ContentStarts == Init => ContentInv
<1> SUFFICES ASSUME Init PROVE ContentInv
  OBVIOUS
<1>1. Range(nodes) = {}
  BY DEF Init, Range
<1>2. WalkInv
  BY <1>1, StartsRight, FS_EmptySet DEF Init
<1> QED BY <1>2 DEF Init, ContentInv, ItemsOrdered

\* Every step of loading, validating and indexing keeps what is known of the phase it is in.
LEMMA ContentSteps == ASSUME ContentInv, [Next]_vars PROVE ContentInv'
<1>1. CASE Load
  BY <1>1, LoadKeeps
<1>2. CASE FindComponents
  <2>1. phase = "components" /\ phase' = phase /\ WalkStep /\ UNCHANGED <<b, graph>>
    BY <1>2 DEF FindComponents
  <2>2. WalkInv' /\ Loaded'
    BY <2>1, WalkKeeps, BundleStays DEF ContentInv
  <2> QED BY <2>1, <2>2 DEF ContentInv, ItemsOrdered
<1>3. CASE Validate
  BY <1>3, ValidateKeeps
<1>4. CASE IndexContent
  BY <1>4, IndexKeeps
<1>5. CASE OrderItem
  <2>1. /\ phase = "order" /\ phase' = phase /\ Place
        /\ UNCHANGED <<b, graph, walk, itemGraph>> /\ UNCHANGED <<ranked, dependsOn>>
    BY <1>5 DEF OrderItem, itemGraph
  <2>2. WalkInv' /\ Loaded' /\ Checked' /\ Indexing'
    BY <2>1, WalkStays, BundleStays DEF ContentInv
  <2>3. OrderInv'
    BY <2>1, OrderSteps DEF ContentInv, OrderStep
  <2> QED BY <2>1, <2>2, <2>3 DEF ContentInv, ItemsOrdered
<1>6. CASE EndOrder
  <2>1. /\ phase = "order" /\ phase' = "ready" /\ Finish
        /\ UNCHANGED <<b, graph, walk>>
    BY <1>6 DEF EndOrder
  <2>2. WalkInv' /\ Loaded' /\ Checked'
    BY <2>1, WalkStays, BundleStays DEF ContentInv
  <2>3. ItemsOrdered'
    BY <2>1, EndsInOrder DEF ContentInv
  <2> QED BY <2>1, <2>2, <2>3 DEF ContentInv
<1>7. CASE UNCHANGED vars
  <2>1. phase' = phase /\ UNCHANGED <<b, graph, walk, itemGraph>> /\ UNCHANGED orderVars /\ order' = order
    BY <1>7 DEF vars, graph, itemGraph, sorting, orderVars
  <2>2. WalkInv' /\ (Loaded => Loaded') /\ (Checked => Checked') /\ (Indexing => Indexing')
    BY <2>1, WalkStays, BundleStays DEF ContentInv
  <2>3. OrderInv => OrderInv'
    BY <2>1, OrderStays
  <2>4. ItemsOrdered'
    <3>1. b' = b /\ order' = order /\ phase' = phase /\ \A x : Reached(x)' = Reached(x)
      BY <2>1, SameGraph
    <3> QED BY <3>1 DEF ContentInv, ItemsOrdered, EngineItems
  <2>5. StartWalk => StartWalk'
    BY <2>1 DEF StartWalk, walk
  <2> QED BY <2>1, <2>2, <2>3, <2>4, <2>5 DEF ContentInv
<1> QED BY <1>1, <1>2, <1>3, <1>4, <1>5, <1>6, <1>7 DEF Next

\* validate/scc.ts and graph/index-content.ts:121-216, of every directory of files: Tarjan's
\* walk finds exactly the nodes that reach themselves, and with their recipes left out the
\* items come in an order in which nothing is left to wait for itself.
THEOREM GraphAlwaysRead == Spec => []GraphRead
<1>1. ContentInv => GraphRead
  BY WalkedFindsCycles DEF ContentInv, GraphRead
<1> QED BY <1>1, ContentStarts, ContentSteps, PTL DEF Spec

----------------------------------------------------------------------------
(* What checks 7 and 12 say of a bundle.                                   *)

\* A finite set of naturals has a greatest.
LEMMA GreatestOf ==
    ASSUME NEW S, S \subseteq Nat, S # {}, IsFiniteSet(S)
    PROVE  Most(S) \in Nat
<1> DEFINE Bad == {T \in SUBSET S : T # {} /\ ~\E m \in T : \A n \in T : n <= m}
<1>1. ASSUME S \in Bad PROVE FALSE
  <2>1. PICK T \in Bad : \A U \in Bad : ~(<<U, T>> \in StrictSubsetOrdering(S))
    <3>1. IsWellFoundedOn(StrictSubsetOrdering(S), FiniteSubsetsOf(S))
      BY FS_StrictSubsetOrderingWellFounded
    <3>2. Bad \subseteq FiniteSubsetsOf(S)
      BY FS_Subset DEF FiniteSubsetsOf
    <3> HIDE DEF Bad
    <3> QED BY <1>1, <3>1, <3>2, WFMin
  <2>2. PICK x \in T : TRUE
    BY <2>1
  <2>3. T \ {x} \notin Bad
    BY <2>1, <2>2 DEF StrictSubsetOrdering
  <2>4. T \subseteq Nat /\ x \in Nat
    BY <2>1, <2>2
  <2>5. CASE T = {x}
    BY <2>1, <2>4, <2>5
  <2>6. CASE T # {x}
    <3>1. PICK m \in T \ {x} : \A n \in T \ {x} : n <= m
      BY <2>1, <2>2, <2>3, <2>6
    <3>2. m \in Nat /\ \A n \in T : n \in Nat
      BY <2>4, <3>1
    <3>3. CASE x <= m
      BY <2>1, <2>4, <3>1, <3>3
    <3>4. CASE m <= x
      <4>1. \A n \in T : n <= x
        BY <2>4, <3>1, <3>2, <3>4
      <4> QED BY <4>1, <2>1, <2>2
    <3> QED BY <3>2, <2>4, <3>3, <3>4
  <2> QED BY <2>5, <2>6
<1>2. \E m \in S : \A n \in S : n <= m
  BY <1>1
<1> QED BY <1>2 DEF Most

\* Finitely many finite sets are finite together.
LEMMA UnionFinite ==
    ASSUME NEW n \in Nat, NEW g, \A k \in 1..n : IsFiniteSet(g[k])
    PROVE  IsFiniteSet(UNION {g[k] : k \in 1..n})
<1> DEFINE U(m) == UNION {g[k] : k \in 1..m}
           Bad == {m \in 0..n : ~IsFiniteSet(U(m))}
<1>1. ASSUME n \in Bad PROVE FALSE
  <2>1. PICK f : f = [m \in Nat |-> m]
    OBVIOUS
  <2>2. PICK m \in Bad : \A p \in Bad : f[m] <= f[p]
    <3>1. Bad \subseteq 0..n
      OBVIOUS
    <3> HIDE DEF Bad
    <3>2. \A p \in Bad : f[p] \in Nat
      BY <2>1, <3>1
    <3> QED BY <1>1, <3>2, LeastOf
  <2>3. m \in 0..n /\ ~IsFiniteSet(U(m)) /\ \A p \in Bad : m <= p
    <3>1. m \in 0..n /\ ~IsFiniteSet(U(m)) /\ Bad \subseteq 0..n
      BY <2>2
    <3>2. m \in Nat /\ \A p \in Bad : p \in Nat
      BY <3>1
    <3> HIDE DEF Bad
    <3>3. \A p \in Bad : f[m] = m /\ f[p] = p
      BY <2>1, <3>2
    <3> QED BY <2>2, <3>1, <3>3
  <2>4. U(0) = {}
    OBVIOUS
  <2>5. m # 0
    BY <2>3, <2>4, FS_EmptySet
  <2>6. PICK p \in 0..n : p = m - 1
    BY <2>3, <2>5
  <2>7. IsFiniteSet(U(p))
    BY <2>3, <2>6
  <2>8. U(m) = U(p) \cup g[m]
    <3>1. \A k : k \in 1..m <=> k \in 1..p \/ k = m
      BY <2>3, <2>6, <2>5
    <3> QED BY <3>1
  <2>9. IsFiniteSet(g[m])
    BY <2>3, <2>5
  <2> HIDE DEF U
  <2> QED BY <2>3, <2>7, <2>8, <2>9, FS_Union
<1> QED BY <1>1

\* A list's elements are finitely many.
LEMMA ListFinite == ASSUME NEW list, IsList(list) PROVE IsFiniteSet(Range(list))
<1>1. PICK n \in Nat : n = Len(list) /\ DOMAIN list = 1..n
  BY DEF IsList
<1>2. list \in Surjection(1..n, Range(list))
  BY <1>1 DEF Surjection, Range, IsList
<1>3. IsFiniteSet(1..n)
  BY FS_Interval
<1> QED BY <1>2, <1>3, FS_Surjection

\* The numbers checks 7 and 12 reckon with are whole, and no item is called None.
Measured(d) ==
    /\ \A i \in Range(d.items) : i.id # None /\ {i.storage, i.quantum} \subseteq Positive
    /\ StorageCurveOK(d.storage) /\ StorageCurveOK(d.quantum)
    /\ DeepestTier(d) \in Nat

\* The deepest tier of a bundle is one of its tiers.
LEMMA DeepestIs ==
    ASSUME NEW d, IsList(d.milestones), \A m \in Range(d.milestones) : m.tier \in Nat,
           IsList(d.classes), \A c \in Range(d.classes) : IsList(c.marks) /\ \A m \in Range(c.marks) : m.tier \in Nat
    PROVE  DeepestTier(d) \in Nat
<1> DEFINE asked == {m.tier : m \in Range(d.milestones)}
           marked == UNION {{m.tier : m \in Range(c.marks)} : c \in Range(d.classes)}
<1>1. ASSUME NEW list, IsList(list) PROVE IsFiniteSet({m.tier : m \in Range(list)})
  <2>1. PICK f : f = [m \in Range(list) |-> m.tier]
    OBVIOUS
  <2>2. f \in Surjection(Range(list), {m.tier : m \in Range(list)})
    BY <2>1 DEF Surjection
  <2> QED BY <2>2, <1>1, ListFinite, FS_Surjection
<1>2. IsFiniteSet(marked)
  <2>1. PICK n \in Nat : n = Len(d.classes) /\ DOMAIN d.classes = 1..n
    BY DEF IsList
  <2>2. PICK g : g = [k \in 1..n |-> {m.tier : m \in Range(d.classes[k].marks)}]
    OBVIOUS
  <2>3. \A k \in 1..n : d.classes[k] \in Range(d.classes)
    BY <2>1 DEF Range
  <2>4. \A k \in 1..n : IsFiniteSet(g[k])
    BY <1>1, <2>2, <2>3
  <2>5. marked = UNION {g[k] : k \in 1..n}
    <3>1. ASSUME NEW t \in marked PROVE t \in UNION {g[k] : k \in 1..n}
      <4>1. PICK c \in Range(d.classes) : t \in {m.tier : m \in Range(c.marks)}
        BY <3>1
      <4>2. PICK k \in 1..n : d.classes[k] = c
        BY <4>1, <2>1 DEF Range
      <4>3. t \in g[k]
        BY <4>1, <4>2, <2>2
      <4> QED BY <4>3
    <3>2. ASSUME NEW t \in UNION {g[k] : k \in 1..n} PROVE t \in marked
      <4>1. PICK k \in 1..n : t \in g[k]
        BY <3>2
      <4>2. t \in {m.tier : m \in Range(d.classes[k].marks)}
        BY <4>1, <2>2
      <4> QED BY <4>2, <2>3
    <3> QED BY <3>1, <3>2
  <2> QED BY <2>4, <2>5, UnionFinite
<1>3. IsFiniteSet(asked)
  BY <1>1
<1>4. asked \subseteq Nat /\ marked \subseteq Nat
  OBVIOUS
<1>5. DeepestTier(d) = Most({0} \cup asked \cup marked)
  BY DEF DeepestTier
<1> HIDE DEF asked, marked
<1>6. IsFiniteSet({0} \cup asked \cup marked)
  BY <1>2, <1>3, FS_Union, FS_Singleton
<1>7. {0} \cup asked \cup marked \subseteq Nat /\ {0} \cup asked \cup marked # {}
  BY <1>4
<1> QED BY <1>5, <1>6, <1>7, GreatestOf

\* The derived numbers of a bundle that loads are whole as well, and leave its tiers alone.
LEMMA DerivedMeasures == ASSUME NEW m, BundleOK(m) PROVE Measured(ApplyDerived(m))
<1>1. PICK d : d = ApplyDerived(m)
  OBVIOUS
<1>2. {"lanes", "items", "classes", "recipes", "milestones", "storage", "quantum"} \subseteq DOMAIN m
  BY DEF BundleOK
<1>3. d.items = m.items
  BY <1>1, <1>2, DerivedKeeps
<1>4. d.storage = m.derived.storage @@ m.storage /\ d.quantum = m.derived.quantum @@ m.quantum
  BY <1>1, <1>2 DEF ApplyDerived
<1>5. PICK n \in Nat : n = Len(m.classes) /\ DOMAIN m.classes = 1..n
  BY DEF BundleOK, IsList
<1>6. /\ d.classes = [k \in 1..n |-> d.classes[k]]
      /\ \A k \in 1..n : d.classes[k].marks = m.classes[k].marks
  <2>1. \A k \in 1..n : m.classes[k] \in Range(m.classes)
    BY <1>5 DEF Range
  <2>2. \A k \in 1..n : "marks" \in DOMAIN m.classes[k]
    BY <2>1 DEF BundleOK, MachineClassOK
  <2> QED BY <1>1, <1>2, <1>5, <2>2 DEF ApplyDerived, Each
<1>7. PICK p \in Nat : p = Len(m.milestones) /\ DOMAIN m.milestones = 1..p
  BY DEF BundleOK, IsList
<1>8. /\ d.milestones = [k \in 1..p |-> d.milestones[k]]
      /\ \A k \in 1..p : d.milestones[k].tier = m.milestones[k].tier
  <2>1. \A k \in 1..p : m.milestones[k] \in Range(m.milestones)
    BY <1>7 DEF Range
  <2>2. \A k \in 1..p : "tier" \in DOMAIN m.milestones[k]
    BY <2>1 DEF BundleOK, MilestoneOK
  <2> QED BY <1>1, <1>2, <1>7, <2>2 DEF ApplyDerived, Each
<1>9. DeepestTier(d) \in Nat
  <2>1. IsList(d.classes) /\ IsList(d.milestones)
    <3>1. ASSUME NEW list, NEW q \in Nat, list = [k \in 1..q |-> list[k]] PROVE IsList(list)
      <4>1. list \in [1..q -> Range(list)]
        BY <3>1 DEF Range
      <4> QED BY <4>1 DEF IsList
    <3> QED BY <3>1, <1>6, <1>8
  <2>2. \A c \in Range(d.classes) : IsList(c.marks) /\ \A k \in Range(c.marks) : k.tier \in Nat
    BY <1>5, <1>6 DEF Range, BundleOK, MachineClassOK, MarkOK
  <2>3. \A k \in Range(d.milestones) : k.tier \in Nat
    BY <1>7, <1>8 DEF Range, BundleOK, MilestoneOK, Positive
  <2> QED BY <2>1, <2>2, <2>3, DeepestIs
<1>10. \A i \in Range(d.items) : i.id # None /\ {i.storage, i.quantum} \subseteq Positive
  BY <1>3 DEF BundleOK, ItemOK
<1>11. StorageCurveOK(d.storage) /\ StorageCurveOK(d.quantum)
  BY <1>4 DEF BundleOK, DerivedOK
<1> QED BY <1>1, <1>9, <1>10, <1>11 DEF Measured

\* What playing on leaves alone makes what it runs and owns what it pays for.
LEMMA PlayedOutIs ==
    ASSUME NEW tier, NEW items \in SUBSET Makes(Selectable), NEW owned \in SUBSET Places
    PROVE  [items |-> items, owned |-> owned] \in PlayedOut(tier) <=>
             /\ Stand \subseteq owned
             /\ \A r \in Selectable : r.tier <= tier /\ <<r.lane, r.class>> \in owned /\ Range(r.ins) \subseteq items
                                         => Outputs(r) \subseteq items
             /\ \A l \in Ids(b.lanes), c \in Range(b.classes) : BuildableWith(c, tier, items) => <<l, c.id>> \in owned
<1> DEFINE have == [items |-> items, owned |-> owned]
           run == {r \in Selectable : r.tier <= tier /\ <<r.lane, r.class>> \in owned /\ Range(r.ins) \subseteq items}
           made == items \cup UNION {Outputs(r) : r \in run}
           bought == {<<l, c.id>> : l \in Ids(b.lanes), c \in {c \in Range(b.classes) : BuildableWith(c, tier, made)}}
           paid == {<<l, c.id>> : l \in Ids(b.lanes), c \in {c \in Range(b.classes) : BuildableWith(c, tier, items)}}
<1>1. have \in PlayedOut(tier) <=> Stand \subseteq owned /\ PlayOn(tier, have) = have
  BY DEF PlayedOut
<1>2. PlayOn(tier, have) = [items |-> made, owned |-> owned \cup bought]
  BY DEF PlayOn
<1>3. PlayOn(tier, have) = have <=> made = items /\ owned \cup bought = owned
  <2> HIDE DEF made, bought
  <2> QED BY <1>2
<1>4. made = items <=> \A r \in Selectable : r.tier <= tier /\ <<r.lane, r.class>> \in owned /\ Range(r.ins) \subseteq items
                                               => Outputs(r) \subseteq items
  OBVIOUS
<1>5. made = items => bought = paid
  <2> HIDE DEF made
  <2> QED OBVIOUS
<1>6. paid \subseteq owned <=>
        \A l \in Ids(b.lanes), c \in Range(b.classes) : BuildableWith(c, tier, items) => <<l, c.id>> \in owned
  OBVIOUS
<1>7. owned \cup paid = owned <=> paid \subseteq owned
  OBVIOUS
<1> HIDE DEF have, made, bought, paid, run
<1> QED BY <1>1, <1>3, <1>4, <1>5, <1>6, <1>7 DEF have

\* What a turn of the bootstrap leaves alone, likewise.
LEMMA FinishedIs ==
    ASSUME NEW tier, NEW items \in SUBSET Makes(Selectable),
           NEW classes \in SUBSET (StartingClasses(b) \cup Ids(b.classes))
    PROVE  [items |-> items, classes |-> classes] \in Finished(b, Selectable, tier) <=>
             /\ StartingClasses(b) \subseteq classes
             /\ \A r \in Selectable : r.tier <= tier /\ r.class \in classes /\ Range(r.ins) \subseteq items
                                         => Outputs(r) \subseteq items
             /\ \A c \in Range(b.classes) : BuildableWith(c, tier, items) => c.id \in classes
<1> DEFINE have == [items |-> items, classes |-> classes]
           run == {r \in Selectable : RunsWith(r, tier, have)}
           made == items \cup UNION {Outputs(r) : r \in run}
           bought == {c.id : c \in {c \in Range(b.classes) : BuildableWith(c, tier, made)}}
           paid == {c.id : c \in {c \in Range(b.classes) : BuildableWith(c, tier, items)}}
<1>1. have \in Finished(b, Selectable, tier) <=>
        StartingClasses(b) \subseteq classes /\ Bootstrap(b, Selectable, tier, have) = have
  BY DEF Finished
<1>2. Bootstrap(b, Selectable, tier, have) = [items |-> made, classes |-> classes \cup bought]
  BY DEF Bootstrap
<1>3. Bootstrap(b, Selectable, tier, have) = have <=> made = items /\ classes \cup bought = classes
  <2> HIDE DEF made, bought
  <2> QED BY <1>2
<1>4. made = items <=> \A r \in Selectable : r.tier <= tier /\ r.class \in classes /\ Range(r.ins) \subseteq items
                                               => Outputs(r) \subseteq items
  BY DEF RunsWith
<1>5. made = items => bought = paid
  <2> HIDE DEF made
  <2> QED OBVIOUS
<1>6. paid \subseteq classes <=> \A c \in Range(b.classes) : BuildableWith(c, tier, items) => c.id \in classes
  OBVIOUS
<1>7. classes \cup paid = classes <=> paid \subseteq classes
  OBVIOUS
<1> HIDE DEF have, made, bought, paid, run
<1> QED BY <1>1, <1>3, <1>4, <1>5, <1>6, <1>7 DEF have

\* What a player makes, the bootstrap counts as made.
LEMMA PlayedIsProducible == ASSUME NEW tier PROVE Played(tier) \subseteq ProducibleAtTier(b, Selectable, tier)
<1>1. ASSUME NEW i \in Played(tier), NEW have \in Finished(b, Selectable, tier)
      PROVE  i \in have.items
  <2>1. PICK items \in SUBSET Makes(Selectable), classes \in SUBSET (StartingClasses(b) \cup Ids(b.classes)) :
             have = [items |-> items, classes |-> classes]
    BY <1>1 DEF Finished
  <2>2. /\ StartingClasses(b) \subseteq classes
        /\ \A r \in Selectable : r.tier <= tier /\ r.class \in classes /\ Range(r.ins) \subseteq items
                                    => Outputs(r) \subseteq items
        /\ \A c \in Range(b.classes) : BuildableWith(c, tier, items) => c.id \in classes
    BY <1>1, <2>1, FinishedIs
  <2>3. PICK owned : owned = {p \in Places : p[2] \in classes}
    OBVIOUS
  <2>4. Stand \subseteq owned
    BY <2>2, <2>3 DEF Stand, StartingClasses, Places
  <2>5. \A l, c : <<l, c>> \in owned => c \in classes
    BY <2>3
  <2>6. \A l \in Ids(b.lanes), c \in Range(b.classes) : BuildableWith(c, tier, items) => <<l, c.id>> \in owned
    <3>1. ASSUME NEW l \in Ids(b.lanes), NEW c \in Range(b.classes), BuildableWith(c, tier, items)
          PROVE  <<l, c.id>> \in owned
      <4>1. c.id \in Ids(b.classes) /\ c.id \in classes
        BY <3>1, <2>2 DEF Range, Ids, Each
      <4>2. <<l, c.id>> \in Places
        BY <4>1 DEF Places
      <4> QED BY <4>1, <4>2, <2>3
    <3> QED BY <3>1
  <2>7. owned \in SUBSET Places
    BY <2>3
  <2>8. [items |-> items, owned |-> owned] \in PlayedOut(tier)
    BY <2>2, <2>4, <2>5, <2>6, <2>7, PlayedOutIs
  <2>9. i \in [items |-> items, owned |-> owned].items
    BY <2>8, <1>1 DEF Played
  <2> QED BY <2>9, <2>1
<1>2. Played(tier) \subseteq Makes(Selectable)
  BY DEF Played
<1> QED BY <1>1, <1>2 DEF ProducibleAtTier

\* With its machines in every lane that uses them, what the bootstrap makes a player makes.
LEMMA ProducibleIsPlayed ==
    ASSUME StartsEverywhere, CheckReferences(b), NEW tier
    PROVE  ProducibleAtTier(b, Selectable, tier) \subseteq Played(tier)
<1>1. ASSUME NEW i \in ProducibleAtTier(b, Selectable, tier), NEW have \in PlayedOut(tier)
      PROVE  i \in have.items
  <2>1. PICK items \in SUBSET Makes(Selectable), owned \in SUBSET Places :
             have = [items |-> items, owned |-> owned]
    BY <1>1 DEF PlayedOut
  <2>2. /\ Stand \subseteq owned
        /\ \A r \in Selectable : r.tier <= tier /\ <<r.lane, r.class>> \in owned /\ Range(r.ins) \subseteq items
                                    => Outputs(r) \subseteq items
        /\ \A l \in Ids(b.lanes), c \in Range(b.classes) : BuildableWith(c, tier, items) => <<l, c.id>> \in owned
    BY <1>1, <2>1, PlayedOutIs
  <2>3. PICK classes : classes = {c \in StartingClasses(b) \cup Ids(b.classes) :
                                    \A r \in Range(b.recipes) : r.class = c => <<r.lane, c>> \in owned}
    OBVIOUS
  <2>4. StartingClasses(b) \subseteq classes
    <3>1. ASSUME NEW m \in Range(b.start.machines), NEW r \in Range(b.recipes), r.class = m.class
          PROVE  <<r.lane, m.class>> \in owned
      <4>1. PICK n \in Range(b.start.machines) : n.lane = r.lane /\ n.class = r.class
        BY <3>1 DEF StartsEverywhere
      <4>2. <<n.lane, n.class>> \in Stand
        BY <4>1 DEF Stand
      <4> QED BY <4>1, <4>2, <3>1, <2>2
    <3> QED BY <3>1, <2>3 DEF StartingClasses
  <2>5. \A r \in Selectable : r.class \in classes => <<r.lane, r.class>> \in owned
    BY <2>3 DEF Selectable
  <2>6. \A c \in Range(b.classes) : BuildableWith(c, tier, items) => c.id \in classes
    <3>1. \A r \in Range(b.recipes) : r.lane \in Ids(b.lanes)
      BY DEF CheckReferences
    <3>2. \A c \in Range(b.classes) : c.id \in Ids(b.classes)
      BY DEF Range, Ids, Each
    <3> QED BY <3>1, <3>2, <2>2, <2>3
  <2>7. classes \in SUBSET (StartingClasses(b) \cup Ids(b.classes))
    BY <2>3
  <2>8. [items |-> items, classes |-> classes] \in Finished(b, Selectable, tier)
    BY <2>2, <2>4, <2>5, <2>6, <2>7, FinishedIs
  <2>9. i \in [items |-> items, classes |-> classes].items
    BY <2>8, <1>1 DEF ProducibleAtTier
  <2> QED BY <2>9, <2>1
<1>2. ProducibleAtTier(b, Selectable, tier) \subseteq Makes(Selectable)
  BY DEF ProducibleAtTier
<1> QED BY <1>1, <1>2 DEF Played

\* The law of powers, which the provers do not know of.
Powers(g) == g ^ 0 = 1 /\ \A n \in Nat : g ^ n \in Nat /\ g ^ (n + 1) = g * g ^ n

\* A product grows with its factors.
LEMMA Times ==
    ASSUME NEW x \in Nat, NEW y \in Nat, NEW z \in Nat, x <= y
    PROVE  x * z <= y * z /\ z * x <= z * y /\ x * z \in Nat /\ y * z \in Nat
<1>1. PICK e \in Nat : y = x + e
  <2>1. y - x \in Nat /\ y = x + (y - x)
    OBVIOUS
  <2> QED BY <2>1
<1>2. y * z = x * z + e * z /\ e * z \in Nat /\ x * z \in Nat /\ y * z = z * y /\ x * z = z * x
  BY <1>1
<1> QED BY <1>2

\* So does a power with its exponent.
LEMMA PowersGrow ==
    ASSUME NEW g \in Positive, Powers(g), NEW k \in Nat, NEW n \in Nat, k <= n
    PROVE  g ^ k \in Nat /\ g ^ n \in Nat /\ g ^ k <= g ^ n
<1>1. \A m \in Nat : g ^ m \in Nat
  BY DEF Powers
<1> DEFINE Bad == {m \in Nat : k <= m /\ ~(g ^ k <= g ^ m)}
<1>2. ASSUME n \in Bad PROVE FALSE
  <2>1. PICK f : f = [m \in Nat |-> m]
    OBVIOUS
  <2>2. PICK m \in Bad : \A p \in Bad : f[m] <= f[p]
    <3>1. Bad \subseteq Nat
      OBVIOUS
    <3> HIDE DEF Bad
    <3>2. \A p \in Bad : f[p] \in Nat
      BY <2>1, <3>1
    <3> QED BY <1>2, <3>2, LeastOf
  <2>3. m \in Nat /\ k <= m /\ ~(g ^ k <= g ^ m)
    BY <2>2
  <2>4. m # k
    BY <2>3, <1>1
  <2>5. PICK p \in Nat : m = p + 1 /\ k <= p
    <3>1. m - 1 \in Nat /\ m = (m - 1) + 1 /\ k <= m - 1
      BY <2>3, <2>4
    <3> QED BY <3>1
  <2>6. p \notin Bad
    <3>1. f[m] = m /\ f[p] = p /\ ~(m <= p)
      BY <2>1, <2>5, <2>3
    <3> QED BY <3>1, <2>2
  <2>7. g ^ k <= g ^ p
    BY <2>5, <2>6
  <2>8. g ^ m = g * g ^ p
    BY <2>5 DEF Powers
  <2>9. PICK q \in Nat : q = g ^ p
    BY <1>1
  <2>10. 1 * q <= g * q
    <3>1. g \in Nat /\ 1 <= g
      BY DEF Positive
    <3> QED BY <3>1, Times
  <2>11. PICK w \in Nat : w = g ^ k
    BY <1>1
  <2>12. PICK v \in Nat : v = g * q
    BY DEF Positive
  <2>13. q <= v /\ w <= q /\ ~(w <= v)
    BY <2>3, <2>7, <2>8, <2>9, <2>10, <2>11, <2>12
  <2> QED BY <2>13
<1> QED BY <1>1, <1>2

\* A curve's capacity grows with its level.
LEMMA CapGrows ==
    ASSUME \A g \in Positive : Powers(g),
           NEW base \in Positive, NEW curve, StorageCurveOK(curve), NEW tier \in Nat, NEW k \in Nat, NEW n \in Nat, k <= n
    PROVE  /\ CapAtLevel(base, curve, k, tier) \in Nat /\ CapAtLevel(base, curve, n, tier) \in Nat
           /\ CapAtLevel(base, curve, k, tier) <= CapAtLevel(base, curve, n, tier)
<1>1. curve.capGrowth \in Positive /\ curve.capPerTier \in Positive
  BY DEF StorageCurveOK, Growths
<1>2. PICK x \in Nat, y \in Nat : x = curve.capGrowth ^ k /\ y = curve.capGrowth ^ n /\ x <= y
  BY <1>1, PowersGrow
<1>3. PICK z \in Nat : z = curve.capPerTier ^ tier
  BY <1>1 DEF Powers
<1>4. PICK p \in Nat, q \in Nat : p = base * x /\ q = base * y /\ p <= q
  BY <1>2, Times DEF Positive
<1>5. p * z \in Nat /\ q * z \in Nat /\ p * z <= q * z
  BY <1>4, Times
<1> QED BY <1>2, <1>3, <1>4, <1>5 DEF CapAtLevel

\* Of an item of the bundle a player never holds more than with the other ladder climbed.
LEMMA HoldIsLess ==
    ASSUME \A g \in Positive : Powers(g), Measured(b), NEW item \in Ids(b.items), NEW at \in Levels
    PROVE  /\ Hold(item, at) \in Nat
           /\ Ladder(b, Named(b.items, item), at.storage, TRUE) \in Nat
           /\ Ladder(b, Named(b.items, item), at.quantum, FALSE) \in Nat
           /\ Hold(item, at) <= Ladder(b, Named(b.items, item), at.storage, TRUE)
           /\ Hold(item, at) <= Ladder(b, Named(b.items, item), at.quantum, FALSE)
<1>1. PICK i : i = Named(b.items, item)
  OBVIOUS
<1>2. i \in Range(b.items)
  <2>1. PICK k \in Each(b.items) : b.items[k].id = item
    BY DEF Ids
  <2>2. PICK j \in Each(b.items) : i = b.items[j]
    BY <1>1, <2>1 DEF Named
  <2> QED BY <2>2 DEF Each, Range
<1>3. i.storage \in Positive /\ i.quantum \in Positive
  BY <1>2 DEF Measured
<1>4. PICK t \in Nat : t = DeepestTier(b)
  BY DEF Measured
<1>5. StorageCurveOK(b.storage) /\ StorageCurveOK(b.quantum)
  BY DEF Measured
<1>6. PICK L \in Nat, M \in Nat : L = b.storage.maxLevel /\ M = b.quantum.maxLevel
  BY <1>5 DEF StorageCurveOK, Positive
<1>7. PICK k \in Nat, n \in Nat : k = at.storage /\ n = at.quantum /\ k <= L /\ n <= M
  <2>1. at.storage \in 0..L /\ at.quantum \in 0..M
    BY <1>6 DEF Levels
  <2> QED BY <2>1
<1>8. PICK p \in Nat, q \in Nat :
           p = CapAtLevel(i.storage, b.storage, k, t) /\ q = CapAtLevel(i.storage, b.storage, L, t) /\ p <= q
  BY <1>3, <1>5, <1>7, CapGrows
<1>9. PICK x \in Nat, y \in Nat :
           x = CapAtLevel(i.quantum, b.quantum, n, t) /\ y = CapAtLevel(i.quantum, b.quantum, M, t) /\ x <= y
  BY <1>3, <1>5, <1>7, CapGrows
<1>10. Hold(item, at) = p + x
  BY <1>1, <1>4, <1>7, <1>8, <1>9 DEF Hold
<1>11. Ladder(b, i, at.storage, TRUE) = p + y /\ Ladder(b, i, at.quantum, FALSE) = q + x
  BY <1>4, <1>6, <1>7, <1>8, <1>9 DEF Ladder
<1>12. /\ Ladder(b, Named(b.items, item), at.storage, TRUE) = p + y
       /\ Ladder(b, Named(b.items, item), at.quantum, FALSE) = q + x
  BY <1>1, <1>11
<1>13. p + x \in Nat /\ p + y \in Nat /\ q + x \in Nat /\ p + x <= p + y /\ p + x <= q + x
  BY <1>8, <1>9
<1> QED BY <1>10, <1>12, <1>13

\* A ladder check 12 refuses stops every order of purchases below the top.
LEMMA LadderStops ==
    ASSUME \A g \in Positive : Powers(g), Measured(b), ~CheckStorageLadderClimbable(b)
    PROVE  ~Climbs
<1>1. StorageCurveOK(b.storage) /\ StorageCurveOK(b.quantum)
  BY DEF Measured
<1>2. PICK L \in Nat, M \in Nat : L = b.storage.maxLevel /\ M = b.quantum.maxLevel
  BY <1>1 DEF StorageCurveOK, Positive
<1>3. None \notin Ids(b.items)
  BY DEF Measured, Ids, Each, Range
<1>4. [storage |-> 0, quantum |-> 0] \in Levels
  BY <1>2 DEF Levels
<1>5. \A level : LevelCost(b.storage, level) \in Int \/ level \notin Nat
  <2>1. ASSUME NEW level \in Nat PROVE LevelCost(b.storage, level) \in Int
    <3>1. b.storage.costGrowth ^ level \in Nat /\ b.storage.costAmount \in Nat
      BY <1>1 DEF StorageCurveOK, Growths, Positive, Powers
    <3> QED BY <3>1 DEF LevelCost
  <2> QED BY <2>1
<1>6. \A level : LevelCost(b.quantum, level) \in Int \/ level \notin Nat
  <2>1. ASSUME NEW level \in Nat PROVE LevelCost(b.quantum, level) \in Int
    <3>1. b.quantum.costGrowth ^ level \in Nat /\ b.quantum.costAmount \in Nat
      BY <1>1 DEF StorageCurveOK, Growths, Positive, Powers
    <3> QED BY <3>1 DEF LevelCost
  <2> QED BY <2>1
<1>7. ASSUME ~Climbable(b, b.storage, TRUE) PROVE ~Climbs
  <2>1. PICK item : item = b.storage.costItem
    OBVIOUS
  <2>2. PICK level \in 0..(L - 1) :
             item \in Ids(b.items) /\ ~(LevelCost(b.storage, level) <= Ladder(b, Named(b.items, item), level, TRUE))
    BY <1>7, <1>2, <2>1 DEF Climbable
  <2>3. PICK S : S = {at \in Levels : at.storage <= level}
    OBVIOUS
  <2>4. [storage |-> 0, quantum |-> 0] \in S
    BY <1>4, <2>2, <2>3
  <2>5. ASSUME NEW at \in S, NEW to \in Purchases(at) PROVE to \in S
    <3>1. at \in Levels /\ at.storage \in 0..L /\ at.quantum \in 0..M /\ at.storage <= level
      BY <2>3, <1>2 DEF Levels
    <3>2. CASE /\ at.storage < L
               /\ item = None \/ LevelCost(b.storage, at.storage) <= Hold(item, at)
               /\ to = [storage |-> at.storage + 1, quantum |-> at.quantum]
      <4>1. at.storage # level
        <5>1. SUFFICES ASSUME at.storage = level PROVE FALSE
          OBVIOUS
        <5>2. PICK c \in Int : c = LevelCost(b.storage, level)
          BY <1>5, <2>2
        <5>3. PICK h \in Nat, l \in Nat :
                   h = Hold(item, at) /\ l = Ladder(b, Named(b.items, item), level, TRUE) /\ h <= l
          BY <2>2, <3>1, <5>1, HoldIsLess
        <5>4. c <= h
          BY <3>2, <5>1, <5>2, <5>3, <1>3, <2>2
        <5>5. ~(c <= l)
          BY <5>2, <5>3, <2>2
        <5>6. c <= l
          <6>1. h <= l
            BY <5>3
          <6> QED BY <6>1, <5>4
        <5> QED BY <5>5, <5>6
      <4>2. at.storage + 1 \in 0..L /\ at.storage + 1 <= level
        BY <3>1, <3>2, <4>1, <2>2
      <4>3. to \in Levels /\ to.storage = at.storage + 1
        BY <3>1, <3>2, <4>2, <1>2 DEF Levels
      <4> QED BY <4>2, <4>3, <2>3
    <3>3. CASE at.quantum < M /\ to = [storage |-> at.storage, quantum |-> at.quantum + 1]
      <4>1. at.quantum + 1 \in 0..M
        BY <3>1, <3>3
      <4>2. to \in Levels /\ to.storage = at.storage
        BY <3>1, <3>3, <4>1, <1>2 DEF Levels
      <4> QED BY <4>2, <3>1, <2>3
    <3> QED BY <2>5, <3>2, <3>3, <1>2, <2>1 DEF Purchases
  <2>6. AllBought \notin S
    <3>1. ~(L <= level)
      BY <2>2
    <3> QED BY <3>1, <2>3, <1>2 DEF AllBought
  <2>7. S \in SUBSET Levels
    BY <2>3
  <2> QED BY <2>4, <2>5, <2>6, <2>7 DEF Climbs
<1>8. ASSUME ~Climbable(b, b.quantum, FALSE) PROVE ~Climbs
  <2>1. PICK item : item = b.quantum.costItem
    OBVIOUS
  <2>2. PICK level \in 0..(M - 1) :
             item \in Ids(b.items) /\ ~(LevelCost(b.quantum, level) <= Ladder(b, Named(b.items, item), level, FALSE))
    BY <1>8, <1>2, <2>1 DEF Climbable
  <2>3. PICK S : S = {at \in Levels : at.quantum <= level}
    OBVIOUS
  <2>4. [storage |-> 0, quantum |-> 0] \in S
    BY <1>4, <2>2, <2>3
  <2>5. ASSUME NEW at \in S, NEW to \in Purchases(at) PROVE to \in S
    <3>1. at \in Levels /\ at.storage \in 0..L /\ at.quantum \in 0..M /\ at.quantum <= level
      BY <2>3, <1>2 DEF Levels
    <3>2. CASE /\ at.quantum < M
               /\ item = None \/ LevelCost(b.quantum, at.quantum) <= Hold(item, at)
               /\ to = [storage |-> at.storage, quantum |-> at.quantum + 1]
      <4>1. at.quantum # level
        <5>1. SUFFICES ASSUME at.quantum = level PROVE FALSE
          OBVIOUS
        <5>2. PICK c \in Int : c = LevelCost(b.quantum, level)
          BY <1>6, <2>2
        <5>3. PICK h \in Nat, l \in Nat :
                   h = Hold(item, at) /\ l = Ladder(b, Named(b.items, item), level, FALSE) /\ h <= l
          BY <2>2, <3>1, <5>1, HoldIsLess
        <5>4. c <= h
          BY <3>2, <5>1, <5>2, <5>3, <1>3, <2>2
        <5>5. ~(c <= l)
          BY <5>2, <5>3, <2>2
        <5>6. c <= l
          <6>1. h <= l
            BY <5>3
          <6> QED BY <6>1, <5>4
        <5> QED BY <5>5, <5>6
      <4>2. at.quantum + 1 \in 0..M /\ at.quantum + 1 <= level
        BY <3>1, <3>2, <4>1, <2>2
      <4>3. to \in Levels /\ to.quantum = at.quantum + 1
        BY <3>1, <3>2, <4>2, <1>2 DEF Levels
      <4> QED BY <4>2, <4>3, <2>3
    <3>3. CASE at.storage < L /\ to = [storage |-> at.storage + 1, quantum |-> at.quantum]
      <4>1. at.storage + 1 \in 0..L
        BY <3>1, <3>3
      <4>2. to \in Levels /\ to.quantum = at.quantum
        BY <3>1, <3>3, <4>1, <1>2 DEF Levels
      <4> QED BY <4>2, <3>1, <2>3
    <3> QED BY <2>5, <3>2, <3>3, <1>2, <2>1 DEF Purchases
  <2>6. AllBought \notin S
    <3>1. ~(M <= level)
      BY <2>2
    <3> QED BY <3>1, <2>3, <1>2 DEF AllBought
  <2>7. S \in SUBSET Levels
    BY <2>3
  <2> QED BY <2>4, <2>5, <2>6, <2>7 DEF Climbs
<1> QED BY <1>7, <1>8 DEF CheckStorageLadderClimbable

\* What was loaded is measured, and the verdict on it is what its checks say.
VerdictInv ==
    /\ phase \in {"load", "components", "index", "order", "ready", "unplayable", "refused"}
    /\ phase # "refused" => failed = {}
    /\ phase \in {"components", "index", "order", "ready"} => Measured(b)
    /\ phase \in {"index", "order", "ready"} => ValidateBundle(b, Selectable) = {}
    /\ phase = "refused" => failed = {1} \/ (Measured(b) /\ failed = ValidateBundle(b, Selectable))

\* The verdict stands while the bundle and its cycles do.
LEMMA SelectableStays == ASSUME b' = b, walk' = walk PROVE Selectable' = Selectable
BY DEF Selectable, Cyclic, walk

\* At the start nothing is refused.
LEMMA VerdictStarts == Init => VerdictInv
BY DEF Init, VerdictInv

\* Every step keeps the verdict that of the bundle as it stands.
LEMMA VerdictSteps == ASSUME VerdictInv, [Next]_vars PROVE VerdictInv'
<1>1. CASE Load
  <2>1. PICK merged : merged = FoldLeft(MergeInto, <<>>, files) @@ Defaults
    OBVIOUS
  <2>2. CASE BundleOK(merged) /\ ~Outdated(merged)
    <3>1. b' = ApplyDerived(merged) /\ phase' = "components" /\ failed' = failed /\ phase = "load"
      BY <1>1, <2>1, <2>2 DEF Load
    <3>2. Measured(b')
      BY <3>1, <2>2, DerivedMeasures
    <3> QED BY <3>1, <3>2 DEF VerdictInv
  <2>3. CASE ~(BundleOK(merged) /\ ~Outdated(merged))
    BY <1>1, <2>1, <2>3 DEF Load, VerdictInv
  <2> QED BY <2>2, <2>3
<1>2. CASE FindComponents
  BY <1>2 DEF FindComponents, VerdictInv
<1>3. CASE Validate
  <2>1. /\ phase = "components" /\ failed' = ValidateBundle(b, Selectable)
        /\ phase' = IF failed' = {} THEN "index" ELSE "refused"
        /\ b' = b /\ walk' = walk
    BY <1>3 DEF Validate
  <2>2. ValidateBundle(b', Selectable') = failed'
    BY <2>1, SelectableStays
  <2>3. Measured(b')
    BY <2>1 DEF VerdictInv
  <2> QED BY <2>1, <2>2, <2>3 DEF VerdictInv
<1>4. ASSUME b' = b, walk' = walk, failed' = failed,
             phase' = phase \/ (phase \in {"index", "order"} /\ phase' \in {"order", "ready", "unplayable"})
      PROVE  VerdictInv'
  <2>1. Selectable' = Selectable
    BY <1>4, SelectableStays
  <2>2. ValidateBundle(b', Selectable') = ValidateBundle(b, Selectable) /\ (Measured(b') <=> Measured(b))
    BY <1>4, <2>1
  <2> QED BY <1>4, <2>2 DEF VerdictInv
<1>5. CASE IndexContent
  BY <1>4, <1>5 DEF IndexContent
<1>6. CASE OrderItem
  BY <1>4, <1>6 DEF OrderItem
<1>7. CASE EndOrder
  BY <1>4, <1>7 DEF EndOrder
<1>8. CASE UNCHANGED vars
  BY <1>4, <1>8 DEF vars
<1> QED BY <1>1, <1>2, <1>3, <1>5, <1>6, <1>7, <1>8 DEF Next

\* A mark is affordable when all it costs is made, by either account.
LEMMA MarksAgree ==
    /\ EveryMarkBuyable => CheckBuildCostsSatisfiable(b, Selectable)
    /\ StartsEverywhere /\ CheckReferences(b) /\ CheckBuildCostsSatisfiable(b, Selectable) => EveryMarkBuyable
<1>1. ASSUME EveryMarkBuyable PROVE CheckBuildCostsSatisfiable(b, Selectable)
  <2>1. ASSUME NEW c \in Range(b.classes), NEW m \in Range(c.marks)
        PROVE  CostItems(m.cost) \subseteq ProducibleAtTier(b, Selectable, m.tier)
    <3>1. CostItems(m.cost) \subseteq Played(m.tier)
      BY <1>1 DEF EveryMarkBuyable
    <3> QED BY <3>1, PlayedIsProducible
  <2> QED BY <2>1 DEF CheckBuildCostsSatisfiable
<1>2. ASSUME StartsEverywhere, CheckReferences(b), CheckBuildCostsSatisfiable(b, Selectable) PROVE EveryMarkBuyable
  <2>1. ASSUME NEW c \in Range(b.classes), NEW m \in Range(c.marks)
        PROVE  CostItems(m.cost) \subseteq Played(m.tier)
    <3>1. CostItems(m.cost) \subseteq ProducibleAtTier(b, Selectable, m.tier)
      BY <1>2 DEF CheckBuildCostsSatisfiable
    <3> QED BY <3>1, <1>2, ProducibleIsPlayed
  <2> QED BY <2>1 DEF EveryMarkBuyable
<1> QED BY <1>1, <1>2

\* validate/graph.ts:107-212 and validate/economy.ts:216-301, of every bundle in every
\* directory of files: check 7 passes, of the bundles that start with their machines in every
\* lane that uses them, those alone whose marks a player comes to afford, and refuses no bundle
\* whose marks a player does; check 12 refuses no ladder that some order of purchases climbs.
THEOREM ChecksAlwaysTellTheTruth ==
    ASSUME \A g \in Positive : Powers(g)
    PROVE  Spec => []ChecksTellTheTruth
<1>1. VerdictInv => ChecksTellTheTruth
  <2> SUFFICES ASSUME VerdictInv PROVE ChecksTellTheTruth
    OBVIOUS
  <2>1. /\ 2 \in ValidateBundle(b, Selectable) <=> ~CheckReferences(b)
        /\ 7 \in ValidateBundle(b, Selectable) <=> ~CheckBuildCostsSatisfiable(b, Selectable)
        /\ 12 \in ValidateBundle(b, Selectable) <=> ~CheckStorageLadderClimbable(b)
    BY DEF ValidateBundle
  <2>2. Accepted => CheckReferences(b) /\ CheckBuildCostsSatisfiable(b, Selectable)
    BY <2>1 DEF Accepted, VerdictInv
  <2>3. phase = "refused" /\ 7 \in failed => ~CheckBuildCostsSatisfiable(b, Selectable)
    BY <2>1 DEF VerdictInv
  <2>4. MarksBuyable
    BY <2>2, <2>3, MarksAgree DEF MarksBuyable
  <2>5. ASSUME 12 \in failed PROVE ~Climbs
    <3>1. phase = "refused" => Measured(b) /\ ~CheckStorageLadderClimbable(b)
      BY <2>1, <2>5 DEF VerdictInv
    <3>2. phase = "refused"
      BY <2>5 DEF VerdictInv
    <3> QED BY <3>1, <3>2, LadderStops
  <2> QED BY <2>4, <2>5 DEF ChecksTellTheTruth, NoFalseAlarm
<1> QED BY <1>1, VerdictStarts, VerdictSteps, PTL DEF Spec

=============================================================================
