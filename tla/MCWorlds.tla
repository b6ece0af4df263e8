------------------------------ MODULE MCWorlds ------------------------------
(* Worlds on a small instance: two requests at a time, two keys, three        *)
(* published bundles of which two share a label, one unknown version.         *)
EXTENDS Worlds, TLC

CONSTANTS s1, s2, k1, k2

MCBodies == {[ops |-> "buy", taps |-> 0, hasTap |-> FALSE],
             [ops |-> NoOps, taps |-> 2, hasTap |-> TRUE]}
MCLabel == [v \in {"v1", "v2", "v3"} |-> IF v = "v2" THEN "B" ELSE "A"]

\* A purchase a world can afford once, and only once a TAP or a unit of time has paid for it.
Bought(steps) == \E i \in DOMAIN steps : steps[i].body.ops = "buy"
MCRejects(steps, step) == step.body.ops = "buy" /\ (Bought(steps) \/ step.at = 0)
\* Bundle v2 has no room for a world that has bought.
MCMisfits(steps, v) == v = "v2" /\ Bought(steps)

Symmetry == Permutations({s1, s2}) \cup Permutations({k1, k2})
=============================================================================
