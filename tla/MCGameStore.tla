---------------------------- MODULE MCGameStore ----------------------------
(* One browser, one account, three guests and two batches. *)
EXTENDS GameStore, TLC

CONSTANTS g1, g2, g3, b1, b2

Symmetry == Permutations(Guests) \cup Permutations(Batches)

\* Whether an account has a part in the state.
SignedIn ==
    \/ c.cookie \/ c.callback \/ c.boot = "callback" \/ c.identity = "session"
    \/ acct # None \/ c.parked # None
    \/ \E r \in wire : r.kind # "post" \/ r.cred = Session

\* Beside an account's world two guests and one batch are enough; without one a third guest and a
\* second batch are needed to see a creation's retry outlive two new factories.  Four different
\* requests on the way let each kind be late beside a reload; what the properties except is
\* looked at one kind at a time.
Bound ==
    SignedIn => /\ Cardinality({g \in Guests : guest[g] # "free"}) <= 2
                /\ Cardinality({b \in Batches : made[b] # None}) <= 1
                /\ Cardinality(wire) <= 4
                /\ Cardinality({h \in {carried, hurried, astray} : h # {}}) <= 1
                /\ ~(c.raced /\ c.misread)
=============================================================================
