------------------------------ MODULE Ordering ------------------------------
(***************************************************************************)
(* topologicalItems of graph/index-content.ts: Kahn's walk over the items. *)
(* `ready` is kept sorted by authored rank in the code; here it is a set   *)
(* and the least ranked item is taken from it.                             *)
(***************************************************************************)
EXTENDS Naturals, Sequences, FiniteSets

VARIABLES
    ranked,     \* the items in authored order
    dependsOn,  \* item -> the items it is made from
    remaining,  \* item -> how many of those are not placed yet
    ready,
    order

sorting == <<remaining, ready, order>>

Placed == {order[k] : k \in DOMAIN order}
ItemsToOrder == {ranked[k] : k \in DOMAIN ranked}

StartOrder(need) ==
    /\ remaining' = [i \in DOMAIN need |-> Cardinality(need[i])]
    /\ ready' = {i \in DOMAIN need : need[i] = {}}
    /\ order' = <<>>

\* x comes before everything else that is ready.
First(x) ==
    \E k \in DOMAIN ranked :
       /\ ranked[k] = x
       /\ \A j \in DOMAIN ranked : ranked[j] \in ready => k <= j

\* Mutant of Left: one dependency placed frees an item.
NoneLeft(x) == [i \in DOMAIN remaining |-> IF x \in dependsOn[i] THEN 0 ELSE remaining[i]]

\* What each item still waits for once x is placed.
Left(x) == [i \in DOMAIN remaining |-> IF x \in dependsOn[i] THEN remaining[i] - 1 ELSE remaining[i]]

Place ==
    \E x \in ready :
       /\ First(x)
       /\ order' = Append(order, x)
       /\ remaining' = Left(x)
       /\ ready' = (ready \ {x}) \cup {i \in DOMAIN dependsOn : x \in dependsOn[i] /\ Left(x)[i] = 0}

\* Whatever is left waits for itself; it follows in authored order.
Rest ==
    LET left == {k \in DOMAIN ranked : ranked[k] \notin Placed}
        at(p) == CHOOSE k \in left : Cardinality({j \in left : j < k}) = p - 1
    IN  [p \in 1..Cardinality(left) |-> ranked[at(p)]]

Finish ==
    /\ ready = {}
    /\ order' = order \o Rest
    /\ UNCHANGED <<remaining, ready>>

\* Every item placed so far comes after all the items it is made from.
TopologicalSoFar ==
    \A k \in DOMAIN order : \A i \in dependsOn[order[k]] : \E j \in 1..(k - 1) : order[j] = i
=============================================================================
