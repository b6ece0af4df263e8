----------------------------- MODULE Components -----------------------------
(***************************************************************************)
(* Tarjan's walk of packages/content/src/validate/scc.ts, which the engine *)
(* repeats in graph/index-content.ts: from `nodes`, an authored list, and  *)
(* `edges`, the successors of each node, to the groups of nodes that lie   *)
(* on a cycle together. The walk keeps its own frames instead of a call    *)
(* stack; a step here is one turn of its loop. The code lists a node's     *)
(* successors; here a visit takes them in any order.                       *)
(***************************************************************************)
EXTENDS Naturals, SequencesExt

VARIABLES
    nodes, edges,
    index,     \* node -> the moment it was found, for the nodes found so far
    low,       \* node -> the earliest node on the stack it is known to reach
    stack,     \* the nodes found whose group is not settled yet
    frames,    \* [node, left]: the open visits and the successors each has yet to look at
    cycles     \* the groups found

walk == <<index, low, stack, frames, cycles>>

\* A successor that is no node is ignored.
Successors(n) == edges[n] \cap Range(nodes)

Found == DOMAIN index
Top == frames[Len(frames)]
Lower(a, b) == IF a < b THEN a ELSE b

StartWalk ==
    /\ index = <<>> /\ low = <<>> /\ stack = <<>> /\ frames = <<>> /\ cycles = {}

\* n gets the number of those found before it.
Numbered(f, n) == [m \in Found \cup {n} |-> IF m = n THEN Cardinality(Found) ELSE f[m]]

\* n enters the walk; the frames below it are `open`.
Discover(n, open) ==
    /\ index' = Numbered(index, n)
    /\ low' = Numbered(low, n)
    /\ stack' = Append(stack, n)
    /\ frames' = Append(open, [node |-> n, left |-> Successors(n)])
    /\ UNCHANGED cycles

NextRoot ==
    /\ frames = <<>>
    /\ \E k \in DOMAIN nodes :
          /\ nodes[k] \notin Found
          /\ \A j \in 1..(k - 1) : nodes[j] \in Found
          /\ Discover(nodes[k], <<>>)

Advanced(child) == [frames EXCEPT ![Len(frames)].left = @ \ {child}]

\* An edge to n leads back into the open part of the walk.
Back(n) == n \in Range(stack)

VisitChild ==
    /\ frames # <<>>
    /\ \E child \in Top.left :
          \/ child \notin Found /\ Discover(child, Advanced(child))
          \/ /\ child \in Found
             /\ low' = IF Back(child) THEN [low EXCEPT ![Top.node] = Lower(@, index[child])] ELSE low
             /\ frames' = Advanced(child)
             /\ UNCHANGED <<index, stack, cycles>>

IsCycle(group) == Len(group) > 1 \/ group[1] \in Successors(group[1])

\* The visit ends: its parent learns what it reaches, and if it reaches
\* nothing earlier than itself, everything above it on the stack is its group.
Leave ==
    /\ frames # <<>>
    /\ Top.left = {}
    /\ LET n == Top.node
           at == CHOOSE k \in DOMAIN stack : stack[k] = n
           group == SubSeq(stack, at, Len(stack))
           open == Front(frames)
       IN  /\ frames' = open
           /\ low' = IF open = <<>> THEN low
                     ELSE [low EXCEPT ![open[Len(open)].node] = Lower(@, low[n])]
           /\ IF low[n] # index[n] THEN UNCHANGED <<stack, cycles>>
              ELSE /\ stack' = SubSeq(stack, 1, at - 1)
                   /\ cycles' = IF IsCycle(group) THEN cycles \cup {Range(group)} ELSE cycles
           /\ UNCHANGED index

WalkStep == NextRoot \/ VisitChild \/ Leave

Walked == frames = <<>> /\ Range(nodes) \subseteq Found

----------------------------------------------------------------------------
(* What the walk is for.                                                   *)

\* The nodes reached from S along one edge or more.
Onward(S) == UNION {Successors(n) : n \in S}
Reached(n) == {m \in Range(nodes) : \A S \in SUBSET Range(nodes) : Onward({n} \cup S) \subseteq S => m \in S}

Together(n) == {m \in Reached(n) : n \in Reached(m)}

\* The groups are the nodes that reach themselves, with all that reach and are
\* reached by them, whatever the order of the nodes and of their successors.
ComponentsAreCycles ==
    Walked => cycles = {Together(n) : n \in {n \in Range(nodes) : n \in Reached(n)}}

\* While the walk is on, every node left on the stack comes after those below it.
WalkTypeOK ==
    /\ Range(stack) \subseteq Found /\ DOMAIN low = Found
    /\ \A i, j \in DOMAIN stack : i < j => index[stack[i]] < index[stack[j]]
    /\ \A n \in Found : low[n] <= index[n]
    /\ \A f \in Range(frames) : f.node \in Range(stack)
=============================================================================
