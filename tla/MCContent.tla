----------------------------- MODULE MCContent -----------------------------
(* Directories of one base file and a second one that varies: the recipes'  *)
(* inputs in every way, or the economy and the machines over a few graphs.  *)
EXTENDS Content

Lane(id) == [id |-> id]
Item(id, lane, terminal) == [id |-> id, lane |-> lane, terminal |-> terminal, storage |-> 2, quantum |-> 1]
Cost(item, n) == <<[item |-> item, amount |-> n]>>
Mk(n, tier, cost) == [mark |-> n, tier |-> tier, draw |-> 1, cost |-> cost]
Class(id, ratio, marks) == [id |-> id, ratio |-> ratio, step |-> 3, interval |-> 2, marks |-> marks]
Out(item, byproduct) == [item |-> item, byproduct |-> byproduct]
Recipe(id, lane, class, ins, outs, tier, alt) ==
    [id |-> id, lane |-> lane, class |-> class, ins |-> ins, outs |-> outs, mw |-> 0, alt |-> alt, tier |-> tier]
Curve(cap, cost, item, amount) ==
    [capGrowth |-> cap, costGrowth |-> cost, costItem |-> item, costAmount |-> amount, maxLevel |-> 2, capPerTier |-> 1]
Machine(lane, class) == [lane |-> lane, class |-> class, mark |-> 1, count |-> 1]
Start(machines) == [tier |-> 0, machines |-> machines, assignments |-> <<>>, priority |-> <<>>]
Nothing == [classes |-> <<>>, milestones |-> <<>>, storage |-> <<>>, quantum |-> <<>>]

MCDefaults == [storage |-> Curve(2, 2, None, 1), quantum |-> Curve(2, 2, None, 1), milestones |-> <<>>,
               start |-> Start(<<>>), grid |-> 2, derived |-> Nothing]

Base == [lanes |-> <<Lane("l"), Lane("m")>>,
         items |-> <<Item("a", "l", FALSE), Item("b", "l", TRUE), Item("c", "m", TRUE)>>,
         classes |-> <<Class("X", 2, <<Mk(1, 0, Cost("a", 1))>>)>>]

\* Four recipes with any inputs, or five; the first two make the same item.
Wiring(i1, i2, i3, i4, more) ==
    [recipes |-> <<Recipe("p", "l", "X", i1, <<Out("a", FALSE)>>, 0, FALSE),
                   Recipe("q", "l", "X", i2, <<Out("b", FALSE), Out("a", TRUE)>>, 0, FALSE),
                   Recipe("r", "m", "Y", i3, <<Out("c", FALSE)>>, 0, FALSE),
                   Recipe("s", "m", "X", i4, <<Out("b", FALSE)>>, 0, TRUE)>> \o more,
     classes |-> <<Class("Y", 2, <<Mk(1, 0, Cost("b", 1))>>)>>,
     start |-> Start(<<Machine("l", "X"), Machine("m", "X")>>)]

Inputs == {<<>>, <<"a">>, <<"b">>, <<"c">>, <<"b", "c">>}
Fifth(ins) == <<Recipe("t", "l", "X", ins, <<Out("a", FALSE), Out("c", TRUE)>>, 0, TRUE)>>
Graphs == {<<Base, Wiring(i1, i2, i3, i4, more)>> :
             i1 \in Inputs, i2 \in Inputs, i3 \in Inputs \cup {<<"d">>}, i4 \in Inputs,
             more \in {<<>>, Fifth(<<"b">>), Fifth(<<"c">>)}}

\* Two classes whose marks cost any item and stand in either lane.
Shop(costX, costY, laneQ, machines, tier) ==
    [recipes |-> <<Recipe("p", "l", "X", <<>>, <<Out("a", FALSE)>>, 0, FALSE),
                   Recipe("q", laneQ, "Y", <<"a">>, <<Out("b", FALSE)>>, tier, FALSE),
                   Recipe("r", "m", "X", <<"b">>, <<Out("c", FALSE)>>, 0, FALSE)>>,
     classes |-> <<Class("Y", 2, <<Mk(1, 0, costY), Mk(2, 1, costX)>>)>>,
     start |-> Start(machines)]
Costs == {Cost("a", 1), Cost("b", 1), Cost("c", 1), Cost("a", 1) \o Cost("b", 1)}
Shops == {<<Base, Shop(x, y, lane, machines, tier)>> :
            x \in Costs, y \in Costs, lane \in {"l", "m"}, tier \in {0, 1},
            machines \in {<<>>, <<Machine("l", "X")>>, <<Machine("l", "X"), Machine("l", "Y")>>, <<Machine("l", "X"), Machine("m", "X")>>,
                          <<Machine("l", "Y"), Machine("m", "Y"), Machine("m", "X"), Machine("l", "X")>>}}

\* Curves of which either may cost an item and outgrow what can be held, with and
\* without solved numbers; what the milestone asks may be more than that.
Economy(storage, quantum, derived) ==
    [storage |-> storage, quantum |-> quantum, derived |-> derived,
     milestones |-> <<[tier |-> 1, requires |-> Cost("a", 12), lanes |-> {"m"}]>>]
CurvesOf(S) == {Curve(2, cost, item, amount) : cost \in {2, 3}, item \in {"a", None, "z"}, amount \in S}
Solved == {Nothing,
           [Nothing EXCEPT !.storage = [capGrowth |-> 3]],
           [Nothing EXCEPT !.classes = ("X" :> 3), !.milestones = (1 :> ("a" :> 90))],
           [Nothing EXCEPT !.milestones = (1 :> ("b" :> 1))],
           [Nothing EXCEPT !.classes = ("X" :> 1)]}
Economies == {<<Base, Wiring(<<>>, <<"a">>, <<"b">>, <<"a">>, <<>>), Economy(s, q, d)>> :
                s \in CurvesOf({1, 4, 6}), q \in CurvesOf({1, 4, 6}), d \in Solved}

\* A grid without generators, a class whose step outgrows its cost, a file left out,
\* a number out of range.
Others == {<<Base>>,
           <<Base, Wiring(<<>>, <<"a">>, <<"b">>, <<"a">>, <<>>), [grid |-> 1]>>,
           <<Base, Wiring(<<>>, <<"a">>, <<"b">>, <<"a">>, <<>>), [grid |-> -1]>>,
           <<Base, Wiring(<<>>, <<"a">>, <<"b">>, <<"a">>, <<>>),
             [classes |-> <<[Class("Z", 2, <<Mk(1, 0, Cost("a", 1))>>) EXCEPT !.step = 5]>>]>>,
           <<Base, Wiring(<<>>, <<"a">>, <<"b">>, <<"a">>, <<>>), [lanes |-> <<Lane("l")>>]>>,
           <<Base, Wiring(<<>>, <<"a">>, <<"b">>, <<"a">>, <<>>),
             [milestones |-> <<[tier |-> 1, requires |-> Cost("a", 1), lanes |-> {"l", "n"}]>>]>>,
           <<Base, Wiring(<<>>, <<"a">>, <<"b">>, <<"a">>, <<>>),
             [recipes |-> <<Recipe("u", "l", "X", <<"a">>, <<Out("a", TRUE)>>, 0, FALSE)>>]>>,
           <<Base, Wiring(<<>>, <<"a">>, <<"b">>, <<"a">>, <<>>),
             [recipes |-> <<[Recipe("u", "l", "X", <<"b">>, <<>>, 0, FALSE) EXCEPT !.mw = 5],
                            Recipe("v", "l", "X", <<"c">>, <<Out("b", TRUE)>>, 0, FALSE)>>]>>}

MCDirectories == Graphs \cup Shops \cup Economies \cup Others
=============================================================================
