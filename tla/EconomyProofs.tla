--------------------------- MODULE EconomyProofs ---------------------------
(***************************************************************************)
(* Proofs about Economy for every content, every bound and every rate the  *)
(* solver may answer: every safety property the run checks. What sums over *)
(* a pool or over the factory rests on the lemmas about totals.            *)
(***************************************************************************)
EXTENDS Economy, FiniteSetTheorems, TLAPS

(***************************************************************************)
(* Totals.  Total folds an addition over the domain of a function, taking  *)
(* the indices in an order that is left open; for a finite domain every    *)
(* order gives the same sum.  Induction is by a minimal counterexample:    *)
(* the finite subsets of a set are well-founded under strict inclusion.    *)
(***************************************************************************)

\* A member of a family of sets no other member of which lies inside it.
Smallest(F, T) == T \in F /\ \A U : U \subseteq T /\ U # T => U \notin F

\* Every non-empty family of finite sets has one.
LEMMA SmallestSet ==
    ASSUME NEW F, F # {}, \A T \in F : IsFiniteSet(T)
    PROVE  \E T : Smallest(F, T)
<1>. DEFINE S == UNION F
<1>1. F \subseteq FiniteSubsetsOf(S) /\ F \subseteq SUBSET S
    BY DEF FiniteSubsetsOf
<1>. HIDE DEF S
<1>2. PICK T \in F : \A U \in F : ~(<<U, T>> \in StrictSubsetOrdering(S))
    BY <1>1, FS_StrictSubsetOrderingWellFounded, WFMin
<1>3. QED
    BY <1>1, <1>2 DEF StrictSubsetOrdering, Smallest

\* The member a fold takes first.
First(s) == CHOOSE x \in s : TRUE

\* `it` gives the sum of f over every part of T, taken in the order of First.
Partial(it, T, f) ==
    it = [s \in SUBSET T |-> IF s = {} THEN 0 ELSE f[First(s)] + it[s \ {First(s)}]]

\* What the fold of Total comes to.
LEMMA TotalIs ==
    ASSUME NEW f
    PROVE  Total(f) = (CHOOSE it : Partial(it, DOMAIN f, f))[DOMAIN f]
BY DEF Total, FoldFunction, FoldFunctionOnSet, MapThenFoldSet, Partial, First

\* A set that is not empty has a first member.
LEMMA FirstIn == \A s : s # {} => First(s) \in s
BY DEF First

\* Two such functions agree wherever both are defined.
LEMMA PartialUnique ==
    ASSUME NEW f, NEW T, NEW g, Partial(g, T, f), NEW U, NEW h, Partial(h, U, f),
           NEW s, s \subseteq T, s \subseteq U, IsFiniteSet(s)
    PROVE  g[s] = h[s]
<1>. DEFINE Bad == {r \in SUBSET s : g[r] # h[r]}
<1>1. SUFFICES ASSUME g[s] # h[s]
               PROVE  FALSE
    OBVIOUS
<1>2. Bad # {} /\ \A r \in Bad : IsFiniteSet(r) /\ r \subseteq s
    BY <1>1, FS_Subset
<1>. HIDE DEF Bad
<1>3. PICK r : Smallest(Bad, r)
    BY <1>2, SmallestSet
<1>4. r \subseteq s /\ g[r] # h[r]
    BY <1>3 DEF Bad, Smallest
<1>5. r \in SUBSET T /\ r \in SUBSET U
    BY <1>4
<1>6. /\ g[r] = IF r = {} THEN 0 ELSE f[First(r)] + g[r \ {First(r)}]
      /\ h[r] = IF r = {} THEN 0 ELSE f[First(r)] + h[r \ {First(r)}]
    BY <1>5 DEF Partial
<1>7. r # {}
    BY <1>4, <1>6
<1>8. First(r) \in r
    BY <1>7, FirstIn
<1>9. r \ {First(r)} \notin Bad /\ r \ {First(r)} \subseteq s
    BY <1>3, <1>4, <1>8 DEF Smallest
<1>10. g[r \ {First(r)}] = h[r \ {First(r)}]
    BY <1>9 DEF Bad
<1>11. QED
    BY <1>4, <1>6, <1>10

\* There is one for every finite set.
LEMMA PartialExists ==
    ASSUME NEW f, NEW S, IsFiniteSet(S)
    PROVE  \E it : Partial(it, S, f)
<1>. DEFINE Bad == {T \in SUBSET S : \A it : ~Partial(it, T, f)}
<1>1. SUFFICES ASSUME S \in Bad
               PROVE  FALSE
    OBVIOUS
<1>2. Bad # {} /\ \A T \in Bad : IsFiniteSet(T) /\ T \subseteq S
    BY <1>1, FS_Subset
<1>. HIDE DEF Bad
<1>3. PICK T : Smallest(Bad, T)
    BY <1>2, SmallestSet
<1>4. T \subseteq S /\ IsFiniteSet(T) /\ \A it : ~Partial(it, T, f)
    BY <1>2, <1>3 DEF Bad, Smallest
<1>. DEFINE Of(U) == CHOOSE it : Partial(it, U, f)
<1>5. ASSUME NEW U, U \subseteq T, U # T
      PROVE  Partial(Of(U), U, f)
    <2>1. U \notin Bad /\ U \in SUBSET S
        BY <1>3, <1>4, <1>5 DEF Smallest
    <2>2. \E it : Partial(it, U, f)
        BY <2>1 DEF Bad
    <2>3. QED
        BY <2>2
<1>. HIDE DEF Of
<1>. DEFINE new == [s \in SUBSET T |-> IF s = {} THEN 0
                        ELSE f[First(s)] + Of(s \ {First(s)})[s \ {First(s)}]]
<1>6. ASSUME NEW s \in SUBSET T, s # {}
      PROVE  new[s \ {First(s)}] = Of(s \ {First(s)})[s \ {First(s)}]
    <2>. DEFINE u == s \ {First(s)}  v == u \ {First(u)}
    <2>1. First(s) \in s /\ u \subseteq T /\ u # T
        BY <1>6, FirstIn
    <2>2. Partial(Of(u), u, f)
        BY <1>5, <2>1
    <2>3. Of(u)[u] = IF u = {} THEN 0 ELSE f[First(u)] + Of(u)[v]
        BY <2>2 DEF Partial
    <2>4. new[u] = IF u = {} THEN 0 ELSE f[First(u)] + Of(v)[v]
        BY <2>1
    <2>. HIDE DEF new
    <2>5. u # {} => Of(u)[v] = Of(v)[v]
        <3>1. SUFFICES ASSUME u # {}
                       PROVE  Of(u)[v] = Of(v)[v]
            OBVIOUS
        <3>2. First(u) \in u /\ v \subseteq u /\ v \subseteq T /\ v # T
            BY <2>1, <3>1, FirstIn
        <3>3. Partial(Of(v), v, f) /\ IsFiniteSet(v)
            BY <1>4, <1>5, <3>2, FS_Subset
        <3>4. QED
            BY <2>2, <3>2, <3>3, PartialUnique
    <2>6. QED
        BY <2>3, <2>4, <2>5
<1>7. new = [s \in SUBSET T |-> IF s = {} THEN 0 ELSE f[First(s)] + new[s \ {First(s)}]]
    BY <1>6
<1>8. Partial(new, T, f)
    BY <1>7 DEF Partial
<1>9. QED
    BY <1>4, <1>8

\* The sum of f over a part of its domain.
Part(f, T) == [x \in T |-> f[x]]
SumOver(f, T) == (CHOOSE it : Partial(it, T, f))[T]

\* The total of the part is the sum over it.
LEMMA TotalIsSum ==
    ASSUME NEW f, NEW T
    PROVE  Total(Part(f, T)) = SumOver(f, T)
<1>1. DOMAIN Part(f, T) = T /\ \A x \in T : Part(f, T)[x] = f[x]
    BY DEF Part
<1>2. \A it : Partial(it, T, Part(f, T)) <=> Partial(it, T, f)
    <2>1. \A s \in SUBSET T : s # {} => Part(f, T)[First(s)] = f[First(s)]
        BY <1>1, FirstIn
    <2>2. \A it : [s \in SUBSET T |-> IF s = {} THEN 0
                                      ELSE Part(f, T)[First(s)] + it[s \ {First(s)}]]
                  = [s \in SUBSET T |-> IF s = {} THEN 0 ELSE f[First(s)] + it[s \ {First(s)}]]
        BY <2>1
    <2>3. QED
        BY <2>2 DEF Partial
<1>3. (CHOOSE it : Partial(it, T, Part(f, T))) = (CHOOSE it : Partial(it, T, f))
    BY <1>2
<1>4. QED
    BY <1>1, <1>3, TotalIs DEF SumOver

\* The sum of nothing is 0, and any other sum is its first term plus the sum of the rest.
LEMMA SumUnfolds ==
    ASSUME NEW f, NEW T, IsFiniteSet(T)
    PROVE  SumOver(f, T) = IF T = {} THEN 0 ELSE f[First(T)] + SumOver(f, T \ {First(T)})
<1>. DEFINE Of(U) == CHOOSE it : Partial(it, U, f)  rest == T \ {First(T)}
<1>1. Partial(Of(T), T, f)
    BY PartialExists
<1>2. IsFiniteSet(rest)
    BY FS_Subset
<1>3. Partial(Of(rest), rest, f)
    BY <1>2, PartialExists
<1>. HIDE DEF Of
<1>4. Of(T)[T] = IF T = {} THEN 0 ELSE f[First(T)] + Of(T)[rest]
    BY <1>1 DEF Partial
<1>5. Of(T)[rest] = Of(rest)[rest]
    BY <1>1, <1>2, <1>3, PartialUnique
<1>6. SumOver(f, T) = Of(T)[T] /\ SumOver(f, rest) = Of(rest)[rest]
    BY DEF SumOver, Of
<1>7. QED
    BY <1>4, <1>5, <1>6

\* A sum of integers is an integer, and of naturals a natural.
LEMMA SumType ==
    ASSUME NEW f, NEW Q \in {Nat, Int}, NEW T, IsFiniteSet(T), \A x \in T : f[x] \in Q
    PROVE  SumOver(f, T) \in Q
<1>. DEFINE Bad == {r \in SUBSET T : SumOver(f, r) \notin Q}
<1>1. SUFFICES ASSUME T \in Bad
               PROVE  FALSE
    OBVIOUS
<1>2. Bad # {} /\ \A r \in Bad : IsFiniteSet(r) /\ r \subseteq T
    BY <1>1, FS_Subset
<1>. HIDE DEF Bad
<1>3. PICK r : Smallest(Bad, r)
    BY <1>2, SmallestSet
<1>4. r \subseteq T /\ IsFiniteSet(r) /\ SumOver(f, r) \notin Q
    BY <1>2, <1>3 DEF Bad, Smallest
<1>0. 0 \in Q /\ \A m, n \in Q : m + n \in Q
    OBVIOUS
<1>5. r # {}
    <2>1. r = {} => SumOver(f, r) = 0
        BY <1>4, SumUnfolds
    <2>2. QED
        BY <1>4, <1>0, <2>1
<1>6. First(r) \in r /\ r \ {First(r)} \notin Bad /\ r \ {First(r)} \subseteq T
    BY <1>3, <1>4, <1>5, FirstIn DEF Smallest
<1>7. SumOver(f, r \ {First(r)}) \in Q /\ f[First(r)] \in Q
    BY <1>4, <1>6 DEF Bad
<1>8. SumOver(f, r) = f[First(r)] + SumOver(f, r \ {First(r)})
    BY <1>4, <1>5, SumUnfolds
<1>9. QED
    BY <1>4, <1>0, <1>7, <1>8

\* Any term may be taken out of a sum first.
LEMMA SumTakes ==
    ASSUME NEW f, NEW T, IsFiniteSet(T), \A x \in T : f[x] \in Int, NEW a \in T
    PROVE  SumOver(f, T) = f[a] + SumOver(f, T \ {a})
<1>. DEFINE Bad == {r \in SUBSET T : \E x \in r : SumOver(f, r) # f[x] + SumOver(f, r \ {x})}
<1>1. SUFFICES ASSUME T \in Bad
               PROVE  FALSE
    OBVIOUS
<1>2. Bad # {} /\ \A r \in Bad : IsFiniteSet(r) /\ r \subseteq T
    BY <1>1, FS_Subset
<1>. HIDE DEF Bad
<1>3. PICK r : Smallest(Bad, r)
    BY <1>2, SmallestSet
<1>4. r \in Bad /\ r \subseteq T /\ IsFiniteSet(r)
    BY <1>2, <1>3 DEF Smallest
<1>5. PICK x \in r : SumOver(f, r) # f[x] + SumOver(f, r \ {x})
    BY <1>4 DEF Bad
<1>. DEFINE c == First(r)
<1>6. c \in r /\ SumOver(f, r) = f[c] + SumOver(f, r \ {c})
    BY <1>4, <1>5, FirstIn, SumUnfolds
<1>7. x # c
    BY <1>5, <1>6
<1>. HIDE DEF c
<1>8. r \ {c} \notin Bad /\ r \ {x} \notin Bad /\ r \ {c} \subseteq T /\ r \ {x} \subseteq T
    BY <1>3, <1>4, <1>5, <1>6 DEF Smallest
<1>9. /\ SumOver(f, r \ {c}) = f[x] + SumOver(f, (r \ {c}) \ {x})
      /\ SumOver(f, r \ {x}) = f[c] + SumOver(f, (r \ {x}) \ {c})
    BY <1>5, <1>6, <1>7, <1>8 DEF Bad
<1>10. (r \ {c}) \ {x} = (r \ {x}) \ {c}
    OBVIOUS
<1>11. SumOver(f, (r \ {x}) \ {c}) \in Int
    <2>1. IsFiniteSet((r \ {x}) \ {c}) /\ \A y \in (r \ {x}) \ {c} : f[y] \in Int
        BY <1>4, FS_Subset
    <2>2. QED
        BY <2>1, SumType
<1>12. f[x] \in Int /\ f[c] \in Int
    BY <1>4, <1>6
<1>13. SumOver(f, r) = f[c] + (f[x] + SumOver(f, (r \ {x}) \ {c}))
    BY <1>6, <1>9, <1>10
<1>14. SumOver(f, r \ {x}) = f[c] + SumOver(f, (r \ {x}) \ {c})
    BY <1>9
<1>15. PICK m \in Int : m = SumOver(f, (r \ {x}) \ {c})
    BY <1>11
<1>16. SumOver(f, r) = f[x] + SumOver(f, r \ {x})
    BY <1>12, <1>13, <1>14, <1>15
<1>17. QED
    BY <1>5, <1>16

\* The total of a function is the sum over its domain.
LEMMA TotalSums ==
    ASSUME NEW f
    PROVE  Total(f) = SumOver(f, DOMAIN f)
BY TotalIs DEF SumOver

\* Two functions with the same terms have the same sum.
LEMMA SumAgrees ==
    ASSUME NEW f, NEW g, NEW T, \A x \in T : f[x] = g[x]
    PROVE  SumOver(f, T) = SumOver(g, T)
<1>1. Part(f, T) = Part(g, T)
    BY DEF Part
<1>2. QED
    BY <1>1, TotalIsSum

\* A sum of differences is the difference of the sums.
LEMMA SumOfDifferences ==
    ASSUME NEW f, NEW g, NEW h, NEW T, IsFiniteSet(T),
           \A x \in T : f[x] \in Int /\ g[x] \in Int /\ h[x] = f[x] - g[x]
    PROVE  SumOver(h, T) = SumOver(f, T) - SumOver(g, T)
<1>. DEFINE Bad == {r \in SUBSET T : SumOver(h, r) # SumOver(f, r) - SumOver(g, r)}
<1>1. SUFFICES ASSUME T \in Bad
               PROVE  FALSE
    OBVIOUS
<1>2. Bad # {} /\ \A r \in Bad : IsFiniteSet(r) /\ r \subseteq T
    BY <1>1, FS_Subset
<1>. HIDE DEF Bad
<1>3. PICK r : Smallest(Bad, r)
    BY <1>2, SmallestSet
<1>4. /\ r \in Bad /\ r \subseteq T /\ IsFiniteSet(r)
      /\ SumOver(h, r) # SumOver(f, r) - SumOver(g, r)
    BY <1>2, <1>3 DEF Bad, Smallest
<1>5. r # {}
    <2>1. r = {} => SumOver(h, r) = 0 /\ SumOver(f, r) = 0 /\ SumOver(g, r) = 0
        BY <1>4, SumUnfolds
    <2>2. QED
        BY <1>4, <2>1
<1>. DEFINE c == First(r)
            rest == r \ {c}
<1>6. c \in r /\ rest \notin Bad /\ rest \subseteq T
    BY <1>3, <1>4, <1>5, FirstIn DEF Smallest
<1>7. /\ SumOver(f, r) = f[c] + SumOver(f, rest)
      /\ SumOver(g, r) = g[c] + SumOver(g, rest)
      /\ SumOver(h, r) = h[c] + SumOver(h, rest)
    BY <1>4, <1>5, SumUnfolds
<1>. HIDE DEF c
<1>8. SumOver(h, rest) = SumOver(f, rest) - SumOver(g, rest)
    BY <1>6 DEF Bad
<1>9. SumOver(f, rest) \in Int /\ SumOver(g, rest) \in Int
    <2>1. IsFiniteSet(rest) /\ \A x \in rest : f[x] \in Int /\ g[x] \in Int
        BY <1>4, <1>6, FS_Subset
    <2>. HIDE DEF rest
    <2>2. QED
        BY <2>1, SumType
<1>. HIDE DEF rest
<1>10. f[c] \in Int /\ g[c] \in Int /\ h[c] = f[c] - g[c]
    BY <1>4, <1>6
<1>11. QED
    BY <1>4, <1>7, <1>8, <1>9, <1>10

\* Changing one term changes the sum by as much.
LEMMA SumChanges ==
    ASSUME NEW f, NEW g, NEW T, IsFiniteSet(T), NEW a \in T,
           \A x \in T : f[x] \in Int /\ g[x] \in Int,
           \A x \in T \ {a} : g[x] = f[x]
    PROVE  /\ SumOver(f, T) \in Int
           /\ SumOver(g, T) = SumOver(f, T) - f[a] + g[a]
<1>. DEFINE rest == T \ {a}
<1>1. /\ SumOver(f, T) = f[a] + SumOver(f, rest)
      /\ SumOver(g, T) = g[a] + SumOver(g, rest)
    BY SumTakes
<1>2. SumOver(f, rest) = SumOver(g, rest)
    BY SumAgrees
<1>3. SumOver(f, rest) \in Int /\ SumOver(f, T) \in Int
    <2>1. IsFiniteSet(rest) /\ \A x \in rest : f[x] \in Int
        BY FS_Subset
    <2>. HIDE DEF rest
    <2>2. QED
        BY <2>1, SumType
<1>. HIDE DEF rest
<1>4. QED
    BY <1>1, <1>2, <1>3

\* A relation, as a set of pairs, that orders every two members of S.
Orders(R, S) ==
    /\ \A s, t \in S : s # t => <<s, t>> \in R \/ <<t, s>> \in R
    /\ \A s, t, u \in S : <<s, t>> \in R /\ <<t, u>> \in R => <<s, u>> \in R

\* Then a finite S has a last member.
LEMMA LastExists ==
    ASSUME NEW S, IsFiniteSet(S), S # {}, NEW R, Orders(R, S)
    PROVE  \E r \in S : \A s \in S \ {r} : <<s, r>> \in R
<1>. DEFINE Last(r, T) == r \in T /\ \A s \in T \ {r} : <<s, r>> \in R
            Bad == {T \in SUBSET S : T # {} /\ \A r \in T : ~Last(r, T)}
<1>1. SUFFICES ASSUME S \in Bad
               PROVE  FALSE
    OBVIOUS
<1>2. Bad # {} /\ \A T \in Bad : IsFiniteSet(T) /\ T \subseteq S
    BY <1>1, FS_Subset
<1>. HIDE DEF Bad
<1>3. PICK T : Smallest(Bad, T)
    BY <1>2, SmallestSet
<1>4. T \subseteq S /\ T # {} /\ \A r \in T : ~Last(r, T)
    BY <1>3 DEF Bad, Smallest
<1>5. PICK x \in T : TRUE
    BY <1>4
<1>6. T \ {x} # {}
    BY <1>4, <1>5
<1>7. T \ {x} \notin Bad /\ T \ {x} \subseteq S
    BY <1>3, <1>4, <1>5 DEF Smallest
<1>8. PICK y \in T \ {x} : Last(y, T \ {x})
    BY <1>6, <1>7 DEF Bad
<1>9. CASE <<x, y>> \in R
    <2>1. Last(y, T)
        BY <1>8, <1>9
    <2>2. QED
        BY <1>4, <1>8, <2>1
<1>10. CASE <<y, x>> \in R
    <2>1. ASSUME NEW s \in T \ {x} PROVE <<s, x>> \in R
        BY <1>4, <1>5, <1>8, <1>10, <2>1 DEF Orders
    <2>2. QED
        BY <1>4, <1>5, <2>1
<1>11. QED
    BY <1>4, <1>5, <1>8, <1>9, <1>10 DEF Orders

(***************************************************************************)
(* Stocks: what each storage operation returns, preserves and bounds.      *)
(***************************************************************************)

InQuantumCaps(s, caps) == \A i \in Items : s.quantum[i] <= caps[i]

\* Settling moves bound stock into the room of Quantum Storage, and no more.
LEMMA SettleBoundFacts ==
    ASSUME NEW s \in Stocks, NEW caps \in Amounts, InQuantumCaps(s, caps)
    PROVE  LET t == SettleBound(s, caps) IN
           /\ t \in Stocks
           /\ InQuantumCaps(t, caps)
           /\ t.stored = s.stored
           /\ \A i \in Items : t.bound[i] <= s.bound[i]
<1>. DEFINE move == [i \in Items |-> Least(s.bound[i], Room(caps[i], s.quantum[i]))]
            q == Plus(s.quantum, move)
            b == Minus(s.bound, move)
<1>1. /\ s.stored \in Amounts /\ s.quantum \in Amounts /\ s.bound \in Amounts
      /\ s = [stored |-> s.stored, quantum |-> s.quantum, bound |-> s.bound]
    BY DEF Stocks
<1>2. ASSUME NEW i \in Items
      PROVE  /\ move[i] \in Nat /\ move[i] <= s.bound[i]
             /\ s.quantum[i] + move[i] <= caps[i]
    <2>1. s.bound[i] \in Nat /\ s.quantum[i] \in Nat /\ caps[i] \in Nat
          /\ s.quantum[i] <= caps[i]
        BY <1>1 DEF Amounts, InQuantumCaps
    <2>2. QED
        BY <2>1 DEF Least, Room
<1>3. /\ q \in Amounts /\ b \in Amounts
      /\ \A i \in Items : q[i] <= caps[i] /\ b[i] <= s.bound[i]
    BY <1>1, <1>2 DEF Amounts, Plus, Minus
<1>4. SettleBound(s, caps) = [s EXCEPT !.quantum = q, !.bound = b]
    BY DEF SettleBound
<1>. HIDE DEF q, b
<1>5. SettleBound(s, caps) = [stored |-> s.stored, quantum |-> q, bound |-> b]
    BY <1>4 DEF Stocks
<1>6. QED
    BY <1>1, <1>3, <1>5 DEF Stocks, InQuantumCaps

\* A refund never takes Quantum Storage past its cap.
LEMMA DepositRefundFacts ==
    ASSUME NEW s \in Stocks, NEW caps \in Amounts, InQuantumCaps(s, caps),
           NEW amount \in Amounts
    PROVE  LET t == DepositRefund(s, amount, caps) IN
           /\ t \in Stocks
           /\ InQuantumCaps(t, caps)
           /\ t.stored = s.stored
<1>. DEFINE take == [i \in Items |-> Least(amount[i], Room(caps[i], s.quantum[i]))]
            q == Plus(s.quantum, take)
            b == Plus(s.bound, Minus(amount, take))
<1>1. /\ s.stored \in Amounts /\ s.quantum \in Amounts /\ s.bound \in Amounts
      /\ s = [stored |-> s.stored, quantum |-> s.quantum, bound |-> s.bound]
    BY DEF Stocks
<1>2. ASSUME NEW i \in Items
      PROVE  /\ take[i] \in Nat /\ take[i] <= amount[i]
             /\ s.quantum[i] + take[i] <= caps[i]
    <2>1. amount[i] \in Nat /\ s.quantum[i] \in Nat /\ caps[i] \in Nat
          /\ s.quantum[i] <= caps[i]
        BY <1>1 DEF Amounts, InQuantumCaps
    <2>2. QED
        BY <2>1 DEF Least, Room
<1>3. /\ q \in Amounts /\ b \in Amounts
      /\ \A i \in Items : q[i] <= caps[i]
    BY <1>1, <1>2 DEF Amounts, Plus, Minus
<1>4. DepositRefund(s, amount, caps) = [s EXCEPT !.quantum = q, !.bound = b]
    BY DEF DepositRefund
<1>. HIDE DEF q, b
<1>5. DepositRefund(s, amount, caps) = [stored |-> s.stored, quantum |-> q, bound |-> b]
    BY <1>4 DEF Stocks
<1>6. QED
    BY <1>1, <1>3, <1>5 DEF Stocks, InQuantumCaps

\* A build that can be paid leaves every store in range and binds nothing.
LEMMA SpendForBuildFacts ==
    ASSUME NEW s \in Stocks, NEW caps \in Amounts, InQuantumCaps(s, caps),
           NEW cost \in Amounts, CanAffordBuild(s, cost)
    PROVE  LET t == SpendForBuild(s, cost, caps) IN
           /\ t \in Stocks
           /\ InQuantumCaps(t, caps)
           /\ \A i \in Items : /\ t.stored[i] <= s.stored[i]
                               /\ t.bound[i] <= s.bound[i]
<1>. DEFINE b == LeastOf(cost, s.bound)
            q == LeastOf(Minus(cost, b), s.quantum)
            stored == Minus(s.stored, Minus(Minus(cost, b), q))
            u == [stored |-> stored, quantum |-> Minus(s.quantum, q),
                  bound |-> Minus(s.bound, b)]
<1>1. s.stored \in Amounts /\ s.quantum \in Amounts /\ s.bound \in Amounts
    BY DEF Stocks
<1>2. ASSUME NEW i \in Items
      PROVE  /\ u.stored[i] \in Nat /\ u.stored[i] <= s.stored[i]
             /\ u.quantum[i] \in Nat /\ u.quantum[i] <= s.quantum[i]
             /\ u.bound[i] \in Nat /\ u.bound[i] <= s.bound[i]
    <2>1. /\ s.stored[i] \in Nat /\ s.quantum[i] \in Nat /\ s.bound[i] \in Nat
          /\ cost[i] \in Nat
          /\ cost[i] <= s.stored[i] + s.quantum[i] + s.bound[i]
        BY <1>1 DEF Amounts, CanAffordBuild, Liquid
    <2>2. QED
        BY <2>1 DEF Least, LeastOf, Minus
<1>3. /\ u.stored = [i \in Items |-> u.stored[i]]
      /\ u.quantum = [i \in Items |-> u.quantum[i]]
      /\ u.bound = [i \in Items |-> u.bound[i]]
    BY DEF Minus
<1>4. SpendForBuild(s, cost, caps) = SettleBound(u, caps)
    BY DEF SpendForBuild
<1>5. u = [stored |-> u.stored, quantum |-> u.quantum, bound |-> u.bound]
    OBVIOUS
<1>. HIDE DEF u
<1>6. u \in Stocks /\ InQuantumCaps(u, caps)
    <2>1. u.stored \in Amounts /\ u.quantum \in Amounts /\ u.bound \in Amounts
        BY <1>2, <1>3 DEF Amounts
    <2>2. ASSUME NEW i \in Items PROVE u.quantum[i] <= caps[i]
        BY <1>1, <1>2 DEF Amounts, InQuantumCaps
    <2>3. QED
        BY <1>5, <2>1, <2>2 DEF Stocks, InQuantumCaps
<1>7. DEFINE t == SettleBound(u, caps)
<1>8. /\ t \in Stocks /\ InQuantumCaps(t, caps) /\ t.stored = u.stored
      /\ \A i \in Items : t.bound[i] <= u.bound[i]
    BY <1>6, SettleBoundFacts
<1>9. ASSUME NEW i \in Items PROVE t.bound[i] <= s.bound[i]
    <2>1. t.bound[i] \in Nat /\ s.bound[i] \in Nat
        BY <1>1, <1>8 DEF Stocks, Amounts
    <2>2. QED
        BY <1>2, <1>8, <2>1
<1>10. QED
    BY <1>2, <1>4, <1>8, <1>9

\* A delivery that can be paid leaves every store in range and binds nothing.
LEMMA SpendFromLiquidFacts ==
    ASSUME NEW s \in Stocks, NEW caps \in Amounts, InQuantumCaps(s, caps),
           NEW cost \in Amounts, CanAffordLiquid(s, cost)
    PROVE  LET t == SpendFromLiquid(s, cost, caps) IN
           /\ t \in Stocks
           /\ InQuantumCaps(t, caps)
           /\ \A i \in Items : /\ t.stored[i] <= s.stored[i]
                               /\ t.bound[i] <= s.bound[i]
<1>. DEFINE d == LeastOf(cost, s.stored)
            u == [stored |-> Minus(s.stored, d),
                  quantum |-> Minus(s.quantum, Minus(cost, d)), bound |-> s.bound]
<1>1. s.stored \in Amounts /\ s.quantum \in Amounts /\ s.bound \in Amounts
    BY DEF Stocks
<1>2. ASSUME NEW i \in Items
      PROVE  /\ u.stored[i] \in Nat /\ u.stored[i] <= s.stored[i]
             /\ u.quantum[i] \in Nat /\ u.quantum[i] <= s.quantum[i]
    <2>1. /\ s.stored[i] \in Nat /\ s.quantum[i] \in Nat /\ cost[i] \in Nat
          /\ cost[i] <= s.stored[i] + s.quantum[i]
        BY <1>1 DEF Amounts, CanAffordLiquid, Liquid
    <2>2. QED
        BY <2>1 DEF Least, LeastOf, Minus
<1>3. /\ u.stored = [i \in Items |-> u.stored[i]]
      /\ u.quantum = [i \in Items |-> u.quantum[i]]
      /\ u.bound = s.bound
    BY DEF Minus
<1>4. SpendFromLiquid(s, cost, caps) = SettleBound(u, caps)
    BY DEF SpendFromLiquid
<1>5. u = [stored |-> u.stored, quantum |-> u.quantum, bound |-> u.bound]
    OBVIOUS
<1>. HIDE DEF u
<1>6. u \in Stocks /\ InQuantumCaps(u, caps)
    <2>1. u.stored \in Amounts /\ u.quantum \in Amounts /\ u.bound \in Amounts
        BY <1>1, <1>2, <1>3 DEF Amounts
    <2>2. ASSUME NEW i \in Items PROVE u.quantum[i] <= caps[i]
        BY <1>1, <1>2 DEF Amounts, InQuantumCaps
    <2>3. QED
        BY <1>5, <2>1, <2>2 DEF Stocks, InQuantumCaps
<1>7. /\ SettleBound(u, caps) \in Stocks /\ InQuantumCaps(SettleBound(u, caps), caps)
      /\ SettleBound(u, caps).stored = u.stored
      /\ \A i \in Items : SettleBound(u, caps).bound[i] <= u.bound[i]
    BY <1>6, SettleBoundFacts
<1>8. QED
    BY <1>2, <1>3, <1>4, <1>7

(***************************************************************************)
(* Caps and costs.                                                         *)
(***************************************************************************)

\* Caps are naturals in every typed state.
LEMMA CapsType ==
    ASSUME WorldType
    PROVE  /\ QuantumCaps \in Amounts
           /\ \A i \in Items : /\ StorageCap(i) \in Nat
                               /\ QuantumCap(i) \in Nat
                               /\ QuantumCaps[i] = QuantumCap(i)
<1>1. ASSUME NEW i \in Items PROVE StorageCap(i) \in Nat /\ QuantumCap(i) \in Nat
    <2>1. LaneOf[i] \in Lanes
        BY Content
    <2>2. storageLevel[i] \in 0..MaxLevel /\ qsLevel[LaneOf[i]] \in 0..MaxLevel
          /\ tier \in 0..MaxTier
        BY <2>1 DEF WorldType
    <2>3. QED
        BY <2>2, Caps DEF StorageCap, QuantumCap
<1>2. QED
    BY <1>1 DEF QuantumCaps, Amounts

\* No level and no tier falls in the step.
LevelsKept ==
    /\ tier <= tier'
    /\ \A i \in Items : storageLevel[i] <= storageLevel'[i]
    /\ \A l \in Lanes : qsLevel[l] <= qsLevel'[l]

\* Then no cap falls, and a stock within the old caps is within the new.
LEMMA CapsKept ==
    ASSUME WorldType, WorldType', LevelsKept,
           InQuantumCaps(stock', QuantumCaps),
           \A i \in Items : stock'.stored[i] <= StorageCap(i)
    PROVE  StockWithinCaps'
<1>1. ASSUME NEW i \in Items
      PROVE  /\ StorageCap(i)' \in Nat /\ QuantumCap(i)' \in Nat
             /\ StorageCap(i) <= StorageCap(i)' /\ QuantumCap(i) <= QuantumCap(i)'
    <2>1. LaneOf[i] \in Lanes
        BY Content
    <2>2. /\ storageLevel[i] \in 0..MaxLevel /\ qsLevel[LaneOf[i]] \in 0..MaxLevel
          /\ tier \in 0..MaxTier
          /\ storageLevel'[i] \in 0..MaxLevel /\ qsLevel'[LaneOf[i]] \in 0..MaxLevel
          /\ tier' \in 0..MaxTier
        BY <2>1 DEF WorldType
    <2>3. /\ storageLevel[i] \in 0..storageLevel'[i]
          /\ qsLevel[LaneOf[i]] \in 0..qsLevel'[LaneOf[i]]
          /\ tier \in 0..tier'
        BY <2>1, <2>2, Naturals DEF LevelsKept
    <2>4. QED
        BY <2>2, <2>3, Caps DEF StorageCap, QuantumCap
<1>2. ASSUME NEW i \in Items
      PROVE  stock'.stored[i] <= StorageCap(i)' /\ stock'.quantum[i] <= QuantumCap(i)'
    <2>1. /\ StorageCap(i) \in Nat /\ QuantumCap(i) \in Nat
          /\ QuantumCaps[i] = QuantumCap(i)
        BY CapsType
    <2>2. StorageCap(i)' \in Nat /\ QuantumCap(i)' \in Nat
        BY <1>1
    <2>3. stock'.stored[i] \in Nat /\ stock'.quantum[i] \in Nat
        BY DEF WorldType, Stocks, Amounts
    <2>4. /\ stock'.stored[i] <= StorageCap(i)
          /\ stock'.quantum[i] <= QuantumCap(i)
        BY <2>1 DEF InQuantumCaps
    <2>5. QED
        BY <1>1, <2>1, <2>2, <2>3, <2>4
<1>3. QED
    BY <1>2 DEF StockWithinCaps

\* A range of machines costs a natural amount of each item.
LEMMA MachineCostType ==
    ASSUME NEW p \in Pools, NEW m \in Marks, NEW k \in Nat, NEW n \in Nat,
           k + n <= MaxMachines
    PROVE  MachineCostRange(p, m, k, n) \in Amounts
<1>1. k + n \in 0..MaxMachines /\ k \in 0..(k + n)
    BY Naturals
<1>2. k \in 0..MaxMachines
    BY Naturals
<1>3. /\ MachineSpent(p, m, k + n) \in Amounts /\ MachineSpent(p, m, k) \in Amounts
      /\ \A i \in Items : MachineSpent(p, m, k)[i] <= MachineSpent(p, m, k + n)[i]
    BY <1>1, <1>2, Costs
<1>4. QED
    BY <1>3 DEF MachineCostRange, Minus, Amounts

\* So does a range of levels.
LEMMA LevelCostType ==
    ASSUME NEW k \in Nat, NEW n \in Nat, k + n <= MaxLevel
    PROVE  /\ Minus(StorageSpent(k + n), StorageSpent(k)) \in Amounts
           /\ Minus(QuantumSpent(k + n), QuantumSpent(k)) \in Amounts
<1>1. k + n \in 0..MaxLevel /\ k \in 0..(k + n) /\ k \in 0..MaxLevel
    BY Naturals
<1>2. /\ StorageSpent(k + n) \in Amounts /\ StorageSpent(k) \in Amounts
      /\ QuantumSpent(k + n) \in Amounts /\ QuantumSpent(k) \in Amounts
      /\ \A i \in Items : /\ StorageSpent(k)[i] <= StorageSpent(k + n)[i]
                          /\ QuantumSpent(k)[i] <= QuantumSpent(k + n)[i]
    BY <1>1, Costs
<1>3. QED
    BY <1>2 DEF Minus, Amounts

(***************************************************************************)
(* One segment at one net rate: no store goes negative or past its cap.    *)
(***************************************************************************)

\* A product of naturals is one.
LEMMA ProductIsNat ==
    ASSUME NEW a \in Nat, NEW b \in Nat
    PROVE  a * b \in Nat
    OBVIOUS

\* Production fills stored, then quantum, to their caps and no further.
LEMMA DepositProductionFacts ==
    ASSUME WorldType, StockWithinCaps, NEW i \in Items, NEW n \in Nat
    PROVE  LET f == DepositProduction(stock, i, n) IN
           /\ f.stored \in Int /\ f.quantum \in Int
           /\ stock.stored[i] + f.stored \in 0..StorageCap(i)
           /\ stock.quantum[i] + f.quantum \in 0..QuantumCap(i)
<1>1. /\ stock.stored[i] \in Nat /\ stock.quantum[i] \in Nat
      /\ StorageCap(i) \in Nat /\ QuantumCap(i) \in Nat
      /\ stock.stored[i] <= StorageCap(i) /\ stock.quantum[i] <= QuantumCap(i)
    BY CapsType DEF WorldType, Stocks, Amounts, StockWithinCaps
<1>2. QED
    BY <1>1 DEF DepositProduction, Least, Room

\* Consumption takes from stored, then quantum, what they hold and no more.
LEMMA DrainLiquidFacts ==
    ASSUME WorldType, StockWithinCaps, NEW i \in Items, NEW n \in Nat
    PROVE  LET f == DrainLiquid(stock, i, n) IN
           /\ f.stored \in Int /\ f.quantum \in Int
           /\ stock.stored[i] + f.stored \in 0..StorageCap(i)
           /\ stock.quantum[i] + f.quantum \in 0..QuantumCap(i)
<1>1. /\ stock.stored[i] \in Nat /\ stock.quantum[i] \in Nat
      /\ StorageCap(i) \in Nat /\ QuantumCap(i) \in Nat
      /\ stock.stored[i] <= StorageCap(i) /\ stock.quantum[i] <= QuantumCap(i)
    BY CapsType DEF WorldType, Stocks, Amounts, StockWithinCaps
<1>. DEFINE t == Least(n, stock.stored[i])
            q == Least(n - t, stock.quantum[i])
<1>2. /\ t \in Nat /\ t <= stock.stored[i] /\ n - t \in Nat
    BY <1>1 DEF Least
<1>. HIDE DEF t
<1>3. q \in Nat /\ q <= stock.quantum[i]
    BY <1>1, <1>2 DEF Least
<1>. HIDE DEF q
<1>4. DrainLiquid(stock, i, n) = [stored |-> -t, quantum |-> -q, overflow |-> 0]
    BY DEF DrainLiquid, t, q
<1>5. QED
    BY <1>1, <1>2, <1>3, <1>4

\* A segment leaves each store between nothing and its cap at any net rate.
LEMMA FlowFacts ==
    ASSUME WorldType, StockWithinCaps, NEW i \in Items, NEW net \in Int, NEW dt \in Nat
    PROVE  LET f == Flow(stock, i, net, dt) IN
           /\ f.stored \in Int /\ f.quantum \in Int
           /\ stock.stored[i] + f.stored \in 0..StorageCap(i)
           /\ stock.quantum[i] + f.quantum \in 0..QuantumCap(i)
<1>1. CASE net >= 0
    <2>1. net * dt \in Nat
        BY <1>1, ProductIsNat
    <2>2. QED
        BY <1>1, <2>1, DepositProductionFacts DEF Flow
<1>2. CASE ~(net >= 0)
    <2>1. -net \in Nat
        BY <1>2
    <2>2. -net * dt \in Nat
        BY <2>1, ProductIsNat
    <2>3. QED
        BY <1>2, <2>2, DrainLiquidFacts DEF Flow
<1>3. QED
    BY <1>1, <1>2

(***************************************************************************)
(* The invariant of the stock: its type and its caps, together, since each *)
(* storage operation keeps one only under the other.                       *)
(***************************************************************************)

StockInv == WorldType /\ StockWithinCaps

\* The world a bundle starts with.
LEMMA StockInvInit == Init => StockInv
<1>. SUFFICES ASSUME Init PROVE StockInv
    OBVIOUS
<1>1. /\ stock.stored = [i \in Items |-> 0] /\ stock.quantum = [i \in Items |-> 0]
      /\ stock \in Stocks
    BY DEF Init, Stocks, Amounts
<1>2. 0 \in 0..MaxLevel
    BY Naturals
<1>3. WorldType
    <2>1. installed \in [Pools -> [Marks -> 0..MaxMachines]] /\ active \in [Items -> Recipes]
          /\ tier \in 0..MaxTier /\ priority \in Seq(Items) /\ paused \subseteq Items
        BY Start DEF Init
    <2>2. storageLevel \in [Items -> 0..MaxLevel] /\ qsLevel \in [Lanes -> 0..MaxLevel]
        BY <1>2 DEF Init
    <2>3. banked \in [Items -> Int]
        BY DEF Init
    <2>4. QED
        BY <1>1, <2>1, <2>2, <2>3 DEF WorldType
<1>4. \A i \in Items : StorageCap(i) \in Nat /\ QuantumCap(i) \in Nat
    BY <1>3, CapsType
<1>5. QED
    BY <1>1, <1>3, <1>4 DEF StockInv, StockWithinCaps

\* In a state of the invariant the storage lemmas apply to the stock.
LEMMA StockInvFacts ==
    ASSUME StockInv
    PROVE  /\ stock \in Stocks /\ QuantumCaps \in Amounts
           /\ InQuantumCaps(stock, QuantumCaps)
           /\ \A i \in Items : /\ stock.stored[i] \in Nat
                               /\ StorageCap(i) \in Nat
                               /\ stock.stored[i] <= StorageCap(i)
    BY CapsType DEF StockInv, WorldType, StockWithinCaps, InQuantumCaps, Stocks, Amounts

\* A step that settles or spends, or refunds into Quantum Storage, and lowers
\* no level keeps the invariant.
LEMMA SpendingKeepsStockInv ==
    ASSUME StockInv, WorldType', LevelsKept,
           InQuantumCaps(stock', QuantumCaps),
           \A i \in Items : stock'.stored[i] <= stock.stored[i]
    PROVE  StockInv'
<1>1. \A i \in Items : stock'.stored[i] \in Nat
    BY DEF WorldType, Stocks, Amounts
<1>2. \A i \in Items : stock'.stored[i] <= StorageCap(i)
    BY <1>1, StockInvFacts
<1>3. QED
    BY <1>2, CapsKept DEF StockInv

\* What machines a purchase, a dismantle or an upgrade leaves is in range.
LEMMA InstallType ==
    ASSUME WorldType, NEW p \in Pools, NEW m \in Marks, NEW n \in 0..MaxMachines
    PROVE  Install(p, m, n) \in [Pools -> [Marks -> 0..MaxMachines]]
    BY DEF WorldType, Install

\* BUY_MACHINE.
LEMMA BuyMachineKeeps ==
    ASSUME StockInv, NEW p \in Pools, NEW m \in Marks, NEW n \in 1..MaxCount,
           NEW named, NEW fast, BuyMachine(p, m, n, named, fast)
    PROVE  /\ StockInv'
           /\ \A i \in Items : stock'.bound[i] <= stock.bound[i]
<1>. DEFINE owned == installed[p][m]
            cost == MachineCostRange(p, m, owned, n)
<1>1. owned \in Nat /\ n \in Nat /\ owned + n <= MaxMachines /\ owned + n \in 0..MaxMachines
    BY Naturals DEF StockInv, WorldType, BuyMachine
<1>2. cost \in Amounts
    BY <1>1, MachineCostType
<1>3. /\ CanAffordBuild(stock, cost)
      /\ stock' = SpendForBuild(stock, cost, QuantumCaps)
      /\ installed' = Install(p, m, owned + n)
      /\ UNCHANGED <<active, storageLevel, qsLevel, priority, paused, tier, banked>>
    BY DEF BuyMachine, Player, list
<1>. HIDE DEF owned, cost
<1>4. /\ stock' \in Stocks /\ InQuantumCaps(stock', QuantumCaps)
      /\ \A i \in Items : /\ stock'.stored[i] <= stock.stored[i]
                          /\ stock'.bound[i] <= stock.bound[i]
    BY <1>2, <1>3, SpendForBuildFacts, StockInvFacts
<1>5. WorldType'
    BY <1>1, <1>3, <1>4, InstallType DEF StockInv, WorldType
<1>6. LevelsKept
    BY <1>3 DEF LevelsKept, StockInv, WorldType
<1>7. QED
    BY <1>4, <1>5, <1>6, SpendingKeepsStockInv

\* DISMANTLE takes at least one machine away.
LEMMA DismantleKeeps ==
    ASSUME StockInv, NEW p \in Pools, NEW m \in Marks, NEW n \in 1..MaxCount,
           Dismantle(p, m, n)
    PROVE  StockInv' /\ installed'[p][m] < installed[p][m]
<1>. DEFINE owned == installed[p][m]
            refund == MachineCostRange(p, m, owned - n, n)
<1>1. /\ owned \in Nat /\ n \in Nat /\ n <= owned /\ owned - n \in 0..MaxMachines
      /\ owned - n \in Nat /\ owned - n + n <= MaxMachines /\ owned - n < owned
    BY Naturals DEF StockInv, WorldType, Dismantle
<1>2. refund \in Amounts
    BY <1>1, MachineCostType
<1>3. /\ stock' = DepositRefund(stock, refund, QuantumCaps)
      /\ installed' = Install(p, m, owned - n)
      /\ UNCHANGED <<active, storageLevel, qsLevel, priority, paused, tier, banked>>
    BY DEF Dismantle, Player, list
<1>4. installed'[p][m] = owned - n
    BY <1>3 DEF Install, StockInv, WorldType
<1>. HIDE DEF refund
<1>5. /\ stock' \in Stocks /\ InQuantumCaps(stock', QuantumCaps)
      /\ stock'.stored = stock.stored
    BY <1>2, <1>3, DepositRefundFacts, StockInvFacts
<1>6. WorldType'
    BY <1>1, <1>3, <1>5, InstallType DEF StockInv, WorldType
<1>7. LevelsKept
    BY <1>3 DEF LevelsKept, StockInv, WorldType
<1>8. \A i \in Items : stock'.stored[i] <= stock.stored[i]
    BY <1>5, StockInvFacts
<1>9. QED
    BY <1>1, <1>4, <1>5, <1>6, <1>7, <1>8, SpendingKeepsStockInv

\* UPGRADE_MARK empties a mark that owned something.
LEMMA UpgradeMarkKeeps ==
    ASSUME StockInv, NEW p \in Pools, NEW m \in 1..MaxMark - 1, UpgradeMark(p, m)
    PROVE  StockInv' /\ m \in Marks /\ installed'[p][m] < installed[p][m]
<1>. DEFINE owned == installed[p][m]
            higher == installed[p][m + 1]
            equivalent == (owned * RateOf[m]) \div RateOf[m + 1]
            refund == MachineCostRange(p, m, 0, owned)
            refunded == DepositRefund(stock, refund, QuantumCaps)
            cost == MachineCostRange(p, m + 1, higher, equivalent)
            kept == [installed EXCEPT ![p] = [@ EXCEPT ![m] = 0,
                                                       ![m + 1] = higher + equivalent]]
<1>1. m \in Marks /\ m + 1 \in Marks /\ m # m + 1
    BY Naturals DEF Marks
<1>2. /\ owned \in 0..MaxMachines /\ owned \in Nat /\ higher \in Nat
      /\ 0 + owned <= MaxMachines
    BY <1>1, Naturals DEF StockInv, WorldType
<1>3. RateOf[m] \in Nat /\ RateOf[m + 1] \in Nat \ {0}
    BY <1>1, Content
<1>4. owned * RateOf[m] \in Nat
    BY <1>2, <1>3, ProductIsNat
<1>5. /\ equivalent >= 1 /\ higher + equivalent <= MaxMachines
      /\ CanAffordBuild(refunded, cost)
      /\ stock' = SpendForBuild(refunded, cost, QuantumCaps)
      /\ installed' = kept
      /\ UNCHANGED <<active, storageLevel, qsLevel, priority, paused, tier, banked>>
    BY DEF UpgradeMark, Player, list
<1>6. equivalent \in Nat
    <2>1. equivalent \in Int
        BY <1>3, <1>4
    <2>. HIDE DEF equivalent
    <2>2. QED
        BY <1>5, <2>1
<1>7. owned > 0
    <2>1. SUFFICES ASSUME owned = 0 PROVE FALSE
        BY <1>2
    <2>2. owned * RateOf[m] = 0
        BY <1>3, <2>1
    <2>3. equivalent = 0
        BY <1>3, <2>2
    <2>. HIDE DEF equivalent
    <2>4. QED
        BY <1>5, <2>3
<1>. HIDE DEF equivalent
<1>8. refund \in Amounts /\ cost \in Amounts
    BY <1>1, <1>2, <1>5, <1>6, MachineCostType
<1>9. higher + equivalent \in 0..MaxMachines
    BY <1>2, <1>5, <1>6, Naturals
<1>10. installed[p] \in [Marks -> 0..MaxMachines]
    BY DEF StockInv, WorldType
<1>11. /\ kept \in [Pools -> [Marks -> 0..MaxMachines]]
       /\ kept[p][m] = 0
    <2>. DEFINE row == [installed[p] EXCEPT ![m] = 0, ![m + 1] = higher + equivalent]
    <2>1. 0 \in 0..MaxMachines
        BY Naturals
    <2>2. row \in [Marks -> 0..MaxMachines] /\ row[m] = 0
        BY <1>1, <1>9, <1>10, <2>1
    <2>3. kept = [installed EXCEPT ![p] = row]
        OBVIOUS
    <2>. HIDE DEF row
    <2>4. QED
        BY <2>2, <2>3 DEF StockInv, WorldType
<1>. HIDE DEF refund, cost, kept
<1>12. /\ refunded \in Stocks /\ InQuantumCaps(refunded, QuantumCaps)
       /\ refunded.stored = stock.stored
    BY <1>8, DepositRefundFacts, StockInvFacts
<1>. HIDE DEF refunded
<1>13. /\ stock' \in Stocks /\ InQuantumCaps(stock', QuantumCaps)
       /\ \A i \in Items : stock'.stored[i] <= stock.stored[i]
    BY <1>5, <1>8, <1>12, SpendForBuildFacts, StockInvFacts
<1>14. WorldType'
    BY <1>5, <1>11, <1>13 DEF StockInv, WorldType
<1>15. LevelsKept
    BY <1>5 DEF LevelsKept, StockInv, WorldType
<1>16. QED
    BY <1>1, <1>2, <1>5, <1>7, <1>11, <1>13, <1>14, <1>15, SpendingKeepsStockInv

\* What the two level purchases share.
LEMMA BuyLevelsKeeps ==
    ASSUME StockInv, NEW level \in 0..MaxLevel, NEW k \in 1..MaxLevel,
           NEW cost \in Amounts, BuyLevels(level, k, cost),
           storageLevel' \in [Items -> 0..MaxLevel], qsLevel' \in [Lanes -> 0..MaxLevel],
           LevelsKept
    PROVE  /\ StockInv'
           /\ \A i \in Items : stock'.bound[i] <= stock.bound[i]
<1>1. /\ CanAffordBuild(stock, cost)
      /\ stock' = SpendForBuild(stock, cost, QuantumCaps)
      /\ UNCHANGED <<installed, active, priority, paused, tier, banked>>
    BY DEF BuyLevels, Player, list
<1>2. /\ stock' \in Stocks /\ InQuantumCaps(stock', QuantumCaps)
      /\ \A i \in Items : /\ stock'.stored[i] <= stock.stored[i]
                          /\ stock'.bound[i] <= stock.bound[i]
    BY <1>1, SpendForBuildFacts, StockInvFacts
<1>3. WorldType'
    BY <1>1, <1>2 DEF StockInv, WorldType
<1>4. QED
    BY <1>2, <1>3, SpendingKeepsStockInv

\* BUY_STORAGE.
LEMMA BuyStorageKeeps ==
    ASSUME StockInv, NEW j \in Items, NEW k \in 1..MaxLevel, BuyStorage(j, k)
    PROVE  /\ StockInv'
           /\ \A i \in Items : stock'.bound[i] <= stock.bound[i]
<1>. DEFINE l == storageLevel[j]
            cost == Minus(StorageSpent(l + k), StorageSpent(l))
<1>1. /\ l \in 0..MaxLevel /\ l \in Nat /\ k \in Nat /\ k >= 1
      /\ storageLevel \in [Items -> 0..MaxLevel] /\ qsLevel \in [Lanes -> 0..MaxLevel]
      /\ tier \in Nat
    BY Naturals DEF StockInv, WorldType
<1>2. /\ BuyLevels(l, k, cost) /\ l + k <= MaxLevel
      /\ storageLevel' = [storageLevel EXCEPT ![j] = l + k]
      /\ qsLevel' = qsLevel /\ tier' = tier
    BY DEF BuyStorage, BuyLevels, Player
<1>3. cost \in Amounts
    BY <1>1, <1>2, LevelCostType
<1>. HIDE DEF cost
<1>4. l + k \in 0..MaxLevel
    BY <1>1, <1>2, Naturals
<1>5. storageLevel' \in [Items -> 0..MaxLevel] /\ qsLevel' \in [Lanes -> 0..MaxLevel]
    BY <1>1, <1>2, <1>4
<1>6. LevelsKept
    BY <1>1, <1>2, Naturals DEF LevelsKept
<1>7. QED
    BY <1>1, <1>2, <1>3, <1>5, <1>6, BuyLevelsKeeps

\* BUY_QS.
LEMMA BuyQsKeeps ==
    ASSUME StockInv, NEW lane \in Lanes, NEW k \in 1..MaxLevel, BuyQs(lane, k)
    PROVE  /\ StockInv'
           /\ \A i \in Items : stock'.bound[i] <= stock.bound[i]
<1>. DEFINE l == qsLevel[lane]
            cost == Minus(QuantumSpent(l + k), QuantumSpent(l))
<1>1. /\ l \in 0..MaxLevel /\ l \in Nat /\ k \in Nat /\ k >= 1
      /\ storageLevel \in [Items -> 0..MaxLevel] /\ qsLevel \in [Lanes -> 0..MaxLevel]
      /\ tier \in Nat
    BY Naturals DEF StockInv, WorldType
<1>2. /\ BuyLevels(l, k, cost) /\ l + k <= MaxLevel
      /\ qsLevel' = [qsLevel EXCEPT ![lane] = l + k]
      /\ storageLevel' = storageLevel /\ tier' = tier
    BY DEF BuyQs, BuyLevels, Player
<1>3. cost \in Amounts
    BY <1>1, <1>2, LevelCostType
<1>. HIDE DEF cost
<1>4. l + k \in 0..MaxLevel
    BY <1>1, <1>2, Naturals
<1>5. storageLevel' \in [Items -> 0..MaxLevel] /\ qsLevel' \in [Lanes -> 0..MaxLevel]
    BY <1>1, <1>2, <1>4
<1>6. LevelsKept
    BY <1>1, <1>2, Naturals DEF LevelsKept
<1>7. QED
    BY <1>1, <1>2, <1>3, <1>5, <1>6, BuyLevelsKeeps

\* What the reducers that leave stock, machines, levels and tier alone keep.
LEMMA StockUntouched ==
    ASSUME StockInv, UNCHANGED <<stock, installed, storageLevel, qsLevel, tier, banked>>,
           active' \in [Items -> Recipes], priority' \in Seq(Items), paused' \subseteq Items
    PROVE  StockInv'
    BY DEF StockInv, WorldType, StockWithinCaps, StorageCap, QuantumCap

\* Settling.
LEMMA SettleKeeps ==
    ASSUME StockInv, Settle
    PROVE  /\ StockInv'
           /\ \A i \in Items : stock'.bound[i] <= stock.bound[i]
<1>1. /\ stock' = SettleBound(stock, QuantumCaps)
      /\ UNCHANGED <<world, tier, list, banked>>
    BY DEF Settle
<1>2. /\ stock' \in Stocks /\ InQuantumCaps(stock', QuantumCaps)
      /\ stock'.stored = stock.stored
      /\ \A i \in Items : stock'.bound[i] <= stock.bound[i]
    BY <1>1, SettleBoundFacts, StockInvFacts
<1>3. WorldType' /\ LevelsKept
    BY <1>1, <1>2 DEF StockInv, WorldType, LevelsKept, world, list
<1>4. \A i \in Items : stock'.stored[i] <= stock.stored[i]
    BY <1>2, StockInvFacts
<1>5. QED
    BY <1>2, <1>3, <1>4, SpendingKeepsStockInv

\* Delivering a milestone.
LEMMA DeliverKeeps ==
    ASSUME StockInv, Deliver
    PROVE  /\ StockInv'
           /\ \A i \in Items : stock'.bound[i] <= stock.bound[i]
<1>. DEFINE cost == Milestone[tier + 1]
<1>1. /\ tier < MaxTier /\ CanAffordLiquid(stock, cost)
      /\ stock' = SpendFromLiquid(stock, cost, QuantumCaps)
      /\ tier' = tier + 1
      /\ UNCHANGED <<world, list, banked>>
    BY DEF Deliver, Deliverable
<1>2. tier \in 0..MaxTier
    BY DEF StockInv, WorldType
<1>3. cost \in Amounts
    BY <1>1, <1>2, Naturals, Content
<1>. HIDE DEF cost
<1>4. /\ stock' \in Stocks /\ InQuantumCaps(stock', QuantumCaps)
      /\ \A i \in Items : /\ stock'.stored[i] <= stock.stored[i]
                          /\ stock'.bound[i] <= stock.bound[i]
    BY <1>1, <1>3, SpendFromLiquidFacts, StockInvFacts
<1>5. tier' \in 0..MaxTier /\ tier <= tier'
    BY <1>1, <1>2, Naturals
<1>6. WorldType' /\ LevelsKept
    BY <1>1, <1>4, <1>5 DEF StockInv, WorldType, LevelsKept, world, list
<1>7. QED
    BY <1>4, <1>6, SpendingKeepsStockInv

\* A segment.
LEMMA IntegrateKeeps ==
    ASSUME StockInv, left \in Nat,
           NEW net \in [Items -> -MaxRate..MaxRate], NEW dt, Integrate(net, dt)
    PROVE  StockInv' /\ stock'.bound = stock.bound
<1>. DEFINE flow == [i \in Items |-> Flow(stock, i, net[i], dt)]
            stored == [i \in Items |-> stock.stored[i] + flow[i].stored]
            quantum == [i \in Items |-> stock.quantum[i] + flow[i].quantum]
<1>1. /\ dt \in Nat
      /\ stock' = [stock EXCEPT !.stored = stored, !.quantum = quantum]
      /\ banked' = [i \in Items |-> banked[i] + flow[i].stored + flow[i].quantum]
      /\ UNCHANGED <<world, tier, list>>
    <2>1. dt \in 1..left
        BY DEF Integrate
    <2>2. stock' = [stock EXCEPT !.stored = [i \in Items |-> @[i] + flow[i].stored],
                                 !.quantum = [i \in Items |-> @[i] + flow[i].quantum]]
          /\ banked' = [i \in Items |-> banked[i] + flow[i].stored + flow[i].quantum]
          /\ UNCHANGED <<world, tier, list>>
        BY DEF Integrate
    <2>3. QED
        BY <2>1, <2>2
<1>2. ASSUME NEW i \in Items
      PROVE  /\ flow[i].stored \in Int /\ flow[i].quantum \in Int
             /\ stock.stored[i] + flow[i].stored \in 0..StorageCap(i)
             /\ stock.quantum[i] + flow[i].quantum \in 0..QuantumCap(i)
    <2>1. net[i] \in Int
        BY Naturals
    <2>2. flow[i] = Flow(stock, i, net[i], dt)
        OBVIOUS
    <2>. HIDE DEF flow
    <2>3. QED
        BY <1>1, <2>1, <2>2, FlowFacts DEF StockInv
<1>. HIDE DEF flow
<1>3. /\ stored \in Amounts /\ quantum \in Amounts
      /\ \A i \in Items : stored[i] <= StorageCap(i) /\ quantum[i] <= QuantumCap(i)
    BY <1>2, CapsType DEF Amounts, StockInv
<1>. HIDE DEF stored, quantum
<1>4. /\ stock \in Stocks
      /\ \A i \in Items : QuantumCaps[i] = QuantumCap(i)
    BY CapsType DEF StockInv, WorldType
<1>5. /\ stock' \in Stocks
      /\ stock'.stored = stored /\ stock'.quantum = quantum /\ stock'.bound = stock.bound
    BY <1>1, <1>3, <1>4 DEF Stocks
<1>6. banked' \in [Items -> Int]
    BY <1>1, <1>2 DEF StockInv, WorldType
<1>7. WorldType' /\ LevelsKept
    BY <1>1, <1>5, <1>6 DEF StockInv, WorldType, LevelsKept, world, list
<1>8. InQuantumCaps(stock', QuantumCaps)
    BY <1>3, <1>4, <1>5 DEF InQuantumCaps
<1>9. \A i \in Items : stock'.stored[i] <= StorageCap(i)
    BY <1>3, <1>5
<1>10. QED
    BY <1>5, <1>7, <1>8, <1>9, CapsKept DEF StockInv

\* Bound stock that grew in a step took machines away in it.
BoundFromMachines ==
    (\E i \in Items : stock'.bound[i] > stock.bound[i])
      => \E p \in Pools, m \in Marks : installed'[p][m] < installed[p][m]

\* A step whose bound stock did not grow has nothing to show.
LEMMA BoundNotGrown ==
    ASSUME StockInv, StockInv', \A i \in Items : stock'.bound[i] <= stock.bound[i]
    PROVE  BoundFromMachines
<1>1. \A i \in Items : stock'.bound[i] \in Nat /\ stock.bound[i] \in Nat
    BY DEF StockInv, WorldType, Stocks, Amounts
<1>2. QED
    BY <1>1 DEF BoundFromMachines

\* The same of the steps that leave the stock alone.
LEMMA StockUntouchedStep ==
    ASSUME StockInv, UNCHANGED <<stock, installed, storageLevel, qsLevel, tier, banked>>,
           active' \in [Items -> Recipes], priority' \in Seq(Items), paused' \subseteq Items
    PROVE  StockInv' /\ BoundFromMachines
<1>1. StockInv'
    BY StockUntouched
<1>2. \A i \in Items : stock'.bound[i] <= stock.bound[i]
    BY DEF StockInv, WorldType, Stocks, Amounts
<1>3. QED
    BY <1>1, <1>2, BoundNotGrown

\* Every step keeps the stock's invariant and binds only what machines cost.
LEMMA StockInvStep ==
    ASSUME StockInv, LoopType, [Next]_vars
    PROVE  StockInv' /\ BoundFromMachines
<1>1. ASSUME NEW p \in Pools, NEW m \in Marks, NEW n \in 1..MaxCount,
             NEW named, NEW fast, BuyMachine(p, m, n, named, fast)
      PROVE  StockInv' /\ BoundFromMachines
    BY <1>1, BuyMachineKeeps, BoundNotGrown
<1>2. ASSUME NEW p \in Pools, NEW m \in Marks, NEW n \in 1..MaxCount, Dismantle(p, m, n)
      PROVE  StockInv' /\ BoundFromMachines
    BY <1>2, DismantleKeeps DEF BoundFromMachines
<1>3. ASSUME NEW p \in Pools, NEW m \in 1..MaxMark - 1, UpgradeMark(p, m)
      PROVE  StockInv' /\ BoundFromMachines
    BY <1>3, UpgradeMarkKeeps DEF BoundFromMachines
<1>4. ASSUME NEW r \in Recipes, SelectRecipe(r)
      PROVE  StockInv' /\ BoundFromMachines
    <2>1. active' \in [Items -> Recipes]
        BY <1>4 DEF SelectRecipe, StockInv, WorldType
    <2>2. QED
        BY <1>4, <2>1, StockUntouchedStep DEF SelectRecipe, Player, list, StockInv, WorldType
<1>5. ASSUME NEW r \in Recipes, NEW n \in 0..MaxCount, AssignMachines(r, n)
      PROVE  StockInv' /\ BoundFromMachines
    BY <1>5, StockUntouchedStep DEF AssignMachines, Player, list, StockInv, WorldType
<1>6. ASSUME NEW q \in [DOMAIN priority -> Range(priority)], ReorderPriority(q)
      PROVE  StockInv' /\ BoundFromMachines
    <2>1. priority \in Seq(Items)
        BY DEF StockInv, WorldType
    <2>2. Range(priority) \subseteq Items /\ DOMAIN priority = 1..Len(priority)
          /\ Len(priority) \in Nat
        BY <2>1 DEF Range
    <2>3. q \in [1..Len(priority) -> Items]
        BY <2>2
    <2>4. q \in Seq(Items)
        BY <2>2, <2>3
    <2>5. QED
        BY <1>6, <2>4, StockUntouchedStep
        DEF ReorderPriority, Player, world, StockInv, WorldType
<1>7. ASSUME NEW i \in Items, SetPaused(i)
      PROVE  StockInv' /\ BoundFromMachines
    <2>1. paused' \subseteq Items
        BY <1>7 DEF SetPaused, StockInv, WorldType
    <2>2. QED
        BY <1>7, <2>1, StockUntouchedStep DEF SetPaused, Player, world, StockInv, WorldType
<1>8. ASSUME NEW k \in 1..MaxLevel, NEW i \in Items, BuyStorage(i, k)
      PROVE  StockInv' /\ BoundFromMachines
    BY <1>8, BuyStorageKeeps, BoundNotGrown
<1>9. ASSUME NEW k \in 1..MaxLevel, NEW l \in Lanes, BuyQs(l, k)
      PROVE  StockInv' /\ BoundFromMachines
    BY <1>9, BuyQsKeeps, BoundNotGrown
<1>10. ASSUME NEW n \in 0..MaxStacks, Tap(n)
      PROVE  StockInv' /\ BoundFromMachines
    BY <1>10, StockUntouchedStep DEF Tap, Player, world, list, StockInv, WorldType
<1>11. ASSUME NEW elapsed \in 0..MaxWindow, StartResolve(elapsed)
      PROVE  StockInv' /\ BoundFromMachines
    BY <1>11, StockUntouchedStep DEF StartResolve, world, list, StockInv, WorldType
<1>12. ASSUME Settle PROVE StockInv' /\ BoundFromMachines
    BY <1>12, SettleKeeps, BoundNotGrown
<1>13. ASSUME Deliver PROVE StockInv' /\ BoundFromMachines
    BY <1>13, DeliverKeeps, BoundNotGrown
<1>14. ASSUME NEW net \in [Items -> -MaxRate..MaxRate], NEW dt, Integrate(net, dt)
      PROVE  StockInv' /\ BoundFromMachines
    <2>1. StockInv' /\ stock'.bound = stock.bound
        BY <1>14, IntegrateKeeps DEF LoopType
    <2>2. \A i \in Items : stock'.bound[i] <= stock.bound[i]
        BY <2>1 DEF StockInv, WorldType, Stocks, Amounts
    <2>3. QED
        BY <2>1, <2>2, BoundNotGrown
<1>15. ASSUME EndResolve PROVE StockInv' /\ BoundFromMachines
    BY <1>15, StockUntouchedStep DEF EndResolve, world, list, StockInv, WorldType
<1>16. ASSUME UNCHANGED vars PROVE StockInv' /\ BoundFromMachines
    BY <1>16, StockUntouchedStep DEF vars, world, list, StockInv, WorldType
<1>17. CASE Reduce
    BY <1>17, <1>1, <1>2, <1>3, <1>4, <1>5, <1>6, <1>7, <1>8, <1>9, <1>10 DEF Reduce
<1>18. CASE Resolve
    BY <1>18, <1>11, <1>12, <1>13, <1>14, <1>15 DEF Resolve
<1>19. QED
    BY <1>16, <1>17, <1>18 DEF Next

(***************************************************************************)
(* The loop's clock and the tap timer. A timer that a resolve has passed   *)
(* is gone, so one that is set lies after the cursor, and between resolves *)
(* after the world's own clock.                                            *)
(***************************************************************************)

TapsInv ==
    /\ tapStacks > 0 <=> tapAt # NoTimer
    /\ tapAt # NoTimer => tapAt > IF pc = "idle" THEN now ELSE cursor

LoopInv == LoopType /\ TapsInv

\* No timer is set at the start.
LEMMA LoopInvInit == Init => LoopInv
    BY Naturals DEF Init, LoopInv, LoopType, TapsInv, NoTimer

\* Firing what is due at c leaves only timers after c.
LEMMA FireDueTimersFacts ==
    ASSUME LoopInv, NEW c \in Nat, FireDueTimers(c)
    PROVE  /\ tapStacks' \in 0..MaxStacks /\ tapAt' \in Nat \cup {NoTimer}
           /\ tapStacks' > 0 <=> tapAt' # NoTimer
           /\ tapAt' # NoTimer => tapAt' > c
<1>1. /\ tapStacks \in 0..MaxStacks /\ tapAt \in Nat \cup {NoTimer}
      /\ tapStacks > 0 <=> tapAt # NoTimer
    BY DEF LoopInv, LoopType, TapsInv
<1>2. CASE tapAt # NoTimer /\ tapAt <= c
    BY <1>1, <1>2, Naturals DEF FireDueTimers
<1>3. CASE ~(tapAt # NoTimer /\ tapAt <= c)
    <2>1. tapStacks' = tapStacks /\ tapAt' = tapAt
        BY <1>3 DEF FireDueTimers
    <2>2. QED
        BY <1>1, <1>3, <2>1 DEF NoTimer
<1>4. QED
    BY <1>2, <1>3

\* No reducer touches the tier or the loop, and only a tap touches the timer.
LEMMA ReducerFrame ==
    ASSUME Reduce
    PROVE  Player /\ (UNCHANGED taps \/ \E n \in 0..MaxStacks : Tap(n))
<1>1. ASSUME NEW p, NEW m, NEW n, NEW named, NEW fast, BuyMachine(p, m, n, named, fast)
      PROVE  Player /\ UNCHANGED taps
    BY <1>1 DEF BuyMachine
<1>2. ASSUME NEW p, NEW m, NEW n, Dismantle(p, m, n) PROVE Player /\ UNCHANGED taps
    BY <1>2 DEF Dismantle
<1>3. ASSUME NEW p, NEW m, UpgradeMark(p, m) PROVE Player /\ UNCHANGED taps
    BY <1>3 DEF UpgradeMark
<1>4. ASSUME NEW r, SelectRecipe(r) PROVE Player /\ UNCHANGED taps
    BY <1>4 DEF SelectRecipe
<1>5. ASSUME NEW r, NEW n, AssignMachines(r, n) PROVE Player /\ UNCHANGED taps
    BY <1>5 DEF AssignMachines
<1>6. ASSUME NEW q, ReorderPriority(q) PROVE Player /\ UNCHANGED taps
    BY <1>6 DEF ReorderPriority
<1>7. ASSUME NEW i, SetPaused(i) PROVE Player /\ UNCHANGED taps
    BY <1>7 DEF SetPaused
<1>8. ASSUME NEW k, NEW i, BuyStorage(i, k) PROVE Player /\ UNCHANGED taps
    BY <1>8 DEF BuyStorage, BuyLevels
<1>9. ASSUME NEW k, NEW l, BuyQs(l, k) PROVE Player /\ UNCHANGED taps
    BY <1>9 DEF BuyQs, BuyLevels
<1>10. ASSUME NEW n, Tap(n) PROVE Player
    BY <1>10 DEF Tap
<1>11. QED
    BY <1>1, <1>2, <1>3, <1>4, <1>5, <1>6, <1>7, <1>8, <1>9, <1>10 DEF Reduce

\* Every step keeps the loop's clock and the timer ahead of it.
LEMMA LoopInvStep ==
    ASSUME LoopInv, [Next]_vars
    PROVE  LoopInv'
<1>1. /\ tapStacks \in 0..MaxStacks /\ tapAt \in Nat \cup {NoTimer}
      /\ now \in Nat /\ cursor \in Nat /\ left \in Nat /\ endsAt \in Nat
      /\ pc \in {"idle", "settle", "deliver"}
      /\ pc = "idle" => left = 0
      /\ pc # "idle" => cursor + left = endsAt
    BY DEF LoopInv, LoopType
<1>2. ASSUME UNCHANGED <<taps, now, loop>> PROVE LoopInv'
    BY <1>2 DEF LoopInv, LoopType, TapsInv, taps, loop
<1>3. ASSUME NEW n \in 0..MaxStacks, Tap(n) PROVE LoopInv'
    <2>. DEFINE stacks == Least(MaxStacks, tapStacks + n)
    <2>1. stacks \in 0..MaxStacks
        BY <1>1, Naturals DEF Least
    <2>2. /\ pc = "idle" /\ UNCHANGED <<now, pc, cursor, left, endsAt>>
          /\ tapStacks' = stacks
          /\ tapAt' = IF stacks > 0 THEN now + TapDuration ELSE NoTimer
        BY <1>3 DEF Tap, Player, loop
    <2>. HIDE DEF stacks
    <2>3. /\ tapAt' \in Nat \cup {NoTimer}
          /\ tapStacks' > 0 <=> tapAt' # NoTimer
          /\ tapAt' # NoTimer => tapAt' > now
        BY <1>1, <2>1, <2>2, Naturals DEF NoTimer
    <2>4. QED
        BY <1>1, <2>1, <2>2, <2>3 DEF LoopInv, LoopType, TapsInv
<1>4. ASSUME NEW elapsed \in 0..MaxWindow, StartResolve(elapsed) PROVE LoopInv'
    <2>. DEFINE simulated == Least(elapsed, OfflineCap)
                start == now + elapsed - simulated
    <2>1. /\ simulated \in Nat /\ start \in Nat /\ start + simulated = now + elapsed
        BY <1>1, Naturals DEF Least
    <2>2. /\ FireDueTimers(start)
          /\ pc' = "settle" /\ cursor' = start /\ left' = simulated
          /\ endsAt' = now + elapsed /\ now' = now
        BY <1>4 DEF StartResolve
    <2>3. now + elapsed \in Nat
        BY <1>1, Naturals
    <2>. HIDE DEF simulated, start
    <2>4. /\ tapStacks' \in 0..MaxStacks /\ tapAt' \in Nat \cup {NoTimer}
          /\ tapStacks' > 0 <=> tapAt' # NoTimer
          /\ tapAt' # NoTimer => tapAt' > start
        BY <2>1, <2>2, FireDueTimersFacts
    <2>5. QED
        BY <1>1, <2>1, <2>2, <2>3, <2>4 DEF LoopInv, LoopType, TapsInv
<1>5. ASSUME Settle PROVE LoopInv'
    BY <1>5 DEF Settle, LoopInv, LoopType, TapsInv, taps
<1>6. ASSUME NEW net, NEW dt, Integrate(net, dt) PROVE LoopInv'
    <2>1. /\ pc = "deliver" /\ dt \in 1..left
          /\ cursor' = cursor + dt /\ left' = left - dt
          /\ FireDueTimers(cursor + dt)
          /\ pc' = "settle" /\ UNCHANGED <<now, endsAt>>
        BY <1>6 DEF Integrate
    <2>2. cursor + dt \in Nat /\ left - dt \in Nat /\ cursor + dt + (left - dt) = endsAt
        BY <1>1, <2>1
    <2>3. /\ tapStacks' \in 0..MaxStacks /\ tapAt' \in Nat \cup {NoTimer}
          /\ tapStacks' > 0 <=> tapAt' # NoTimer
          /\ tapAt' # NoTimer => tapAt' > cursor + dt
        BY <2>1, <2>2, FireDueTimersFacts
    <2>4. QED
        BY <1>1, <2>1, <2>2, <2>3 DEF LoopInv, LoopType, TapsInv
<1>7. ASSUME EndResolve PROVE LoopInv'
    <2>1. /\ pc = "deliver" /\ left = 0 /\ now' = endsAt /\ pc' = "idle"
          /\ cursor' = 0 /\ endsAt' = 0 /\ UNCHANGED <<tapStacks, tapAt, left>>
        BY <1>7 DEF EndResolve, taps
    <2>2. now' = cursor
        BY <1>1, <2>1
    <2>3. QED
        BY <1>1, <2>1, <2>2 DEF LoopInv, LoopType, TapsInv
<1>8. CASE Reduce
    BY <1>2, <1>3, <1>8, ReducerFrame DEF Player
<1>9. CASE Resolve
    <2>1. CASE Deliver
        BY <1>2, <2>1 DEF Deliver
    <2>2. QED
        BY <1>4, <1>5, <1>6, <1>7, <1>9, <2>1 DEF Resolve
<1>10. CASE UNCHANGED vars
    BY <1>2, <1>10 DEF vars
<1>11. QED
    BY <1>8, <1>9, <1>10 DEF Next

\* No step lowers the tier, and only a delivery raises it.
LEMMA TierRises ==
    ASSUME WorldType, [Next]_vars
    PROVE  tier <= tier' /\ (tier' # tier => Deliver)
<1>1. CASE Reduce
    BY <1>1, ReducerFrame DEF Player, WorldType
<1>2. CASE Resolve
    <2>1. Deliver \/ tier' = tier
        BY <1>2 DEF Resolve, StartResolve, Settle, Integrate, EndResolve
    <2>2. tier \in Nat
        BY Naturals DEF WorldType
    <2>3. QED
        BY <2>1, <2>2 DEF Deliver
<1>3. CASE UNCHANGED vars
    BY <1>3 DEF vars, WorldType
<1>4. QED
    BY <1>1, <1>2, <1>3 DEF Next

EconomyInv == StockInv /\ LoopInv

\* The two invariants together.
LEMMA EconomyInvariant == Spec => []EconomyInv
<1>1. Init => EconomyInv
    BY StockInvInit, LoopInvInit DEF EconomyInv
<1>2. EconomyInv /\ [Next]_vars => EconomyInv'
    BY StockInvStep, LoopInvStep DEF EconomyInv, LoopInv
<1>3. QED
    BY <1>1, <1>2, PTL DEF Spec

(***************************************************************************)
(* Machines at work.                                                       *)
(***************************************************************************)

Assignments == [Recipes -> Nat]

\* The assignments in a pool sum to a natural.
LEMMA AssignedInSums ==
    ASSUME NEW a \in Assignments, NEW p
    PROVE  /\ IsFiniteSet(RecipesIn(p)) /\ RecipesIn(p) \subseteq Recipes
           /\ AssignedIn(a, p) = SumOver(a, RecipesIn(p))
           /\ AssignedIn(a, p) \in Nat
<1>1. IsFiniteSet(RecipesIn(p)) /\ RecipesIn(p) \subseteq Recipes
    BY Finite, FS_Subset DEF RecipesIn
<1>2. AssignedIn(a, p) = SumOver(a, RecipesIn(p))
    BY TotalIsSum DEF AssignedIn, Part
<1>3. \A r \in RecipesIn(p) : a[r] \in Nat
    BY <1>1 DEF Assignments
<1>4. SumOver(a, RecipesIn(p)) \in Nat
    BY <1>1, <1>3, SumType
<1>5. QED
    BY <1>1, <1>2, <1>4

\* The recipes the clamp shrinks before r, and what it takes from r.
Ahead(a, p, r) ==
    {s \in RecipesIn(p) : \/ a[s] > a[r]
                          \/ a[s] = a[r] /\ Authored[s] < Authored[r]}

Excess(a, p, pool) == Room(AssignedIn(a, p), pool)

Loss(a, p, pool) ==
    [r \in Recipes |-> IF PoolOf[r] = p
                       THEN Least(a[r], Room(Excess(a, p, pool), SumOver(a, Ahead(a, p, r))))
                       ELSE 0]

\* The clamp takes just that, from recipes of its pool only.
LEMMA ClampTakes ==
    ASSUME NEW a \in Assignments, NEW p, NEW pool \in Nat
    PROVE  /\ ClampAssignments(a, p, pool) \in Assignments
           /\ \A r \in Recipes :
                 /\ Loss(a, p, pool)[r] \in Nat
                 /\ ClampAssignments(a, p, pool)[r] = a[r] - Loss(a, p, pool)[r]
                 /\ PoolOf[r] # p => ClampAssignments(a, p, pool)[r] = a[r]
<1>. DEFINE c == ClampAssignments(a, p, pool)
            d == Loss(a, p, pool)
            e == Excess(a, p, pool)
<1>1. e \in Nat
    BY AssignedInSums DEF Excess, Room
<1>2. ASSUME NEW r \in Recipes
      PROVE  SumOver(a, Ahead(a, p, r)) \in Nat /\ a[r] \in Nat
    <2>1. IsFiniteSet(Ahead(a, p, r)) /\ \A s \in Ahead(a, p, r) : a[s] \in Nat
        BY AssignedInSums, FS_Subset DEF Ahead, Assignments
    <2>2. SumOver(a, Ahead(a, p, r)) \in Nat
        BY <2>1, SumType
    <2>3. QED
        BY <2>2 DEF Assignments
<1>3. c = [r \in Recipes |->
             IF PoolOf[r] = p
             THEN a[r] - Least(a[r], Room(e, Total(Part(a, Ahead(a, p, r)))))
             ELSE a[r]]
    BY DEF ClampAssignments, Excess, Ahead, Part
<1>4. c = [r \in Recipes |->
             IF PoolOf[r] = p
             THEN a[r] - Least(a[r], Room(e, SumOver(a, Ahead(a, p, r))))
             ELSE a[r]]
    <2>. HIDE DEF c, e
    <2>1. \A r \in Recipes : Total(Part(a, Ahead(a, p, r))) = SumOver(a, Ahead(a, p, r))
        BY TotalIsSum
    <2>2. QED
        BY <1>3, <2>1
<1>. HIDE DEF c
<1>5. ASSUME NEW r \in Recipes
      PROVE  /\ d[r] \in Nat /\ d[r] <= a[r] /\ c[r] = a[r] - d[r]
             /\ PoolOf[r] # p => c[r] = a[r]
    <2>1. d[r] = IF PoolOf[r] = p THEN Least(a[r], Room(e, SumOver(a, Ahead(a, p, r)))) ELSE 0
        BY DEF Loss
    <2>. HIDE DEF d, e
    <2>2. c[r] = IF PoolOf[r] = p THEN a[r] - Least(a[r], Room(e, SumOver(a, Ahead(a, p, r))))
                 ELSE a[r]
        BY <1>4
    <2>3. QED
        BY <1>1, <1>2, <2>1, <2>2 DEF Least, Room
<1>6. c \in Assignments
    <2>1. \A r \in Recipes : c[r] \in Nat
        BY <1>5 DEF Assignments
    <2>2. QED
        BY <1>4, <2>1 DEF Assignments
<1>7. QED
    BY <1>5, <1>6 DEF c

\* The order of the clamp is total: its positions tell recipes apart.
LEMMA AheadOrders ==
    ASSUME NEW a \in Assignments, NEW p, NEW S, S \subseteq RecipesIn(p)
    PROVE  Orders({q \in S \X S : q[1] \in Ahead(a, p, q[2])}, S)
<1>1. \A r \in S : /\ r \in Recipes /\ r \in RecipesIn(p)
                   /\ a[r] \in Nat /\ Authored[r] \in Nat
    BY Content DEF Assignments, RecipesIn
<1>2. \A r, s \in S : r # s => Authored[r] # Authored[s]
    BY <1>1, Content
<1>3. \A r, s \in S : <<s, r>> \in {q \in S \X S : q[1] \in Ahead(a, p, q[2])}
                      <=> \/ a[s] > a[r]
                          \/ a[s] = a[r] /\ Authored[s] < Authored[r]
    BY <1>1 DEF Ahead
<1>4. QED
    BY <1>1, <1>2, <1>3 DEF Orders

\* From the recipes ahead of any point the clamp takes the excess, or all they have.
LEMMA ClampPrefix ==
    ASSUME NEW a \in Assignments, NEW p, NEW pool \in Nat, NEW T, T \subseteq RecipesIn(p),
           \A r \in T : Ahead(a, p, r) \subseteq T
    PROVE  SumOver(Loss(a, p, pool), T) = Least(Excess(a, p, pool), SumOver(a, T))
<1>. DEFINE d == Loss(a, p, pool)
            e == Excess(a, p, pool)
            Open(U) == \A r \in U : Ahead(a, p, r) \subseteq U
            Bad == {U \in SUBSET T : Open(U) /\ SumOver(d, U) # Least(e, SumOver(a, U))}
<1>0. e \in Nat /\ IsFiniteSet(T)
    BY AssignedInSums, FS_Subset DEF Excess, Room
<1>. HIDE DEF d, e
<1>1. SUFFICES ASSUME T \in Bad
               PROVE  FALSE
    BY DEF d, e
<1>2. Bad # {} /\ \A U \in Bad : IsFiniteSet(U) /\ U \subseteq T
    BY <1>0, <1>1, FS_Subset
<1>. HIDE DEF Bad
<1>3. PICK U : Smallest(Bad, U)
    BY <1>2, SmallestSet
<1>4. /\ U \subseteq T /\ IsFiniteSet(U) /\ Open(U)
      /\ SumOver(d, U) # Least(e, SumOver(a, U))
    BY <1>2, <1>3 DEF Bad, Smallest
<1>5. U # {}
    <2>1. U = {} => SumOver(d, U) = 0 /\ SumOver(a, U) = 0
        BY <1>4, SumUnfolds
    <2>2. QED
        BY <1>0, <1>4, <2>1 DEF Least
<1>6. PICK r \in U : \A s \in U \ {r} : s \in Ahead(a, p, r)
    <2>. DEFINE R == {q \in U \X U : q[1] \in Ahead(a, p, q[2])}
    <2>1. Orders(R, U)
        BY <1>4, AheadOrders
    <2>2. \A r, s \in U : <<s, r>> \in R <=> s \in Ahead(a, p, r)
        OBVIOUS
    <2>. HIDE DEF R
    <2>3. QED
        BY <1>4, <1>5, <2>1, <2>2, LastExists
<1>7. r \in Recipes /\ PoolOf[r] = p /\ a[r] \in Nat /\ d[r] \in Nat
    BY <1>4, ClampTakes DEF RecipesIn, Assignments, d
<1>8. r \notin Ahead(a, p, r)
    <2>1. ~(a[r] > a[r]) /\ ~(Authored[r] < Authored[r])
        BY <1>7, Content
    <2>2. QED
        BY <2>1 DEF Ahead
<1>. DEFINE V == U \ {r}
<1>9. Ahead(a, p, r) = V
    BY <1>4, <1>6, <1>8
<1>10. Open(V)
    <2>1. ASSUME NEW s \in V, r \in Ahead(a, p, s) PROVE FALSE
        <3>1. s \in Ahead(a, p, r) /\ a[s] \in Nat /\ Authored[s] \in Nat
            BY <1>4, <1>6, Content DEF RecipesIn, Assignments
        <3>2. Authored[r] \in Nat
            BY <1>7, Content
        <3>3. QED
            BY <1>7, <2>1, <3>1, <3>2 DEF Ahead
    <2>2. QED
        BY <1>4, <2>1
<1>11. SumOver(d, V) = Least(e, SumOver(a, V))
    <2>1. V \notin Bad /\ V \subseteq T
        BY <1>3, <1>4, <1>6 DEF Smallest
    <2>2. QED
        BY <1>10, <2>1 DEF Bad
<1>12. IsFiniteSet(V) /\ \A s \in U : a[s] \in Nat /\ d[s] \in Nat
    BY <1>4, ClampTakes, FS_Subset DEF RecipesIn, Assignments, d
<1>13. SumOver(d, U) = d[r] + SumOver(d, V) /\ SumOver(a, U) = a[r] + SumOver(a, V)
    BY <1>4, <1>12, SumTakes
<1>14. SumOver(a, V) \in Nat
    BY <1>12, SumType
<1>15. d[r] = Least(a[r], Room(e, SumOver(a, V)))
    BY <1>7, <1>9 DEF d, e, Loss
<1>. HIDE DEF V
<1>16. SumOver(d, U) = Least(e, SumOver(a, U))
    BY <1>0, <1>7, <1>11, <1>13, <1>14, <1>15 DEF Least, Room
<1>17. QED
    BY <1>4, <1>16

\* So what it leaves at work is what was, or the pool.
LEMMA ClampFits ==
    ASSUME NEW a \in Assignments, NEW p, NEW pool \in Nat
    PROVE  AssignedIn(ClampAssignments(a, p, pool), p) = Least(AssignedIn(a, p), pool)
<1>. DEFINE c == ClampAssignments(a, p, pool)
            d == Loss(a, p, pool)
            T == RecipesIn(p)
<1>1. /\ IsFiniteSet(T) /\ T \subseteq Recipes /\ c \in Assignments
      /\ AssignedIn(a, p) = SumOver(a, T) /\ AssignedIn(a, p) \in Nat
      /\ AssignedIn(c, p) = SumOver(c, T)
    BY AssignedInSums, ClampTakes
<1>2. SumOver(d, T) = Least(Excess(a, p, pool), SumOver(a, T))
    BY ClampPrefix DEF Ahead
<1>3. \A r \in T : a[r] \in Int /\ d[r] \in Int /\ c[r] = a[r] - d[r]
    BY <1>1, ClampTakes DEF Assignments
<1>. HIDE DEF c, d, T
<1>4. SumOver(c, T) = SumOver(a, T) - SumOver(d, T)
    BY <1>1, <1>3, SumOfDifferences
<1>5. Excess(a, p, pool) = Room(SumOver(a, T), pool)
    BY <1>1 DEF Excess
<1>6. SumOver(c, T) = Least(SumOver(a, T), pool)
    BY <1>1, <1>2, <1>4, <1>5 DEF Least, Room
<1>7. QED
    BY <1>1, <1>6 DEF c

Installed == [Pools -> [Marks -> 0..MaxMachines]]

\* The machines of a pool sum to a natural.
LEMMA PoolSizeSums ==
    ASSUME NEW inst \in Installed, NEW p \in Pools
    PROVE  /\ PoolSize(inst, p) = SumOver(inst[p], Marks)
           /\ PoolSize(inst, p) \in Nat
           /\ IsFiniteSet(Marks)
           /\ \A m \in Marks : inst[p][m] \in Nat
<1>1. /\ DOMAIN inst[p] = Marks /\ \A m \in Marks : inst[p][m] \in Nat
    BY DEF Installed
<1>2. IsFiniteSet(Marks)
    BY Naturals, FS_Interval DEF Marks
<1>3. PoolSize(inst, p) = SumOver(inst[p], Marks)
    BY <1>1, TotalSums DEF PoolSize
<1>4. SumOver(inst[p], Marks) \in Nat
    BY <1>1, <1>2, SumType
<1>5. QED
    BY <1>1, <1>2, <1>3, <1>4

\* Machines bought are added to the pool they are of.
LEMMA InstallAdds ==
    ASSUME NEW inst \in Installed, NEW kept \in Installed, NEW p \in Pools, NEW m \in Marks,
           \A k \in Marks \ {m} : kept[p][k] = inst[p][k]
    PROVE  PoolSize(kept, p) = PoolSize(inst, p) - inst[p][m] + kept[p][m]
<1>1. \A k \in Marks : inst[p][k] \in Int /\ kept[p][k] \in Int
    BY PoolSizeSums
<1>2. IsFiniteSet(Marks)
    BY PoolSizeSums
<1>. DEFINE f == inst[p]
            g == kept[p]
<1>3. /\ \A k \in Marks : f[k] \in Int /\ g[k] \in Int
      /\ \A k \in Marks \ {m} : g[k] = f[k]
    BY <1>1
<1>4. PoolSize(inst, p) = SumOver(f, Marks) /\ PoolSize(kept, p) = SumOver(g, Marks)
    BY PoolSizeSums
<1>. HIDE DEF f, g
<1>5. SumOver(g, Marks) = SumOver(f, Marks) - f[m] + g[m]
    BY <1>2, <1>3, SumChanges
<1>6. QED
    BY <1>4, <1>5 DEF f, g

\* An item's rank is a natural.
LEMMA RankType ==
    ASSUME NEW i, priority \in Seq(Items)
    PROVE  Rank(i) \in Nat
<1>1. Len(priority) \in Nat /\ DOMAIN priority = 1..Len(priority)
    OBVIOUS
<1>2. CASE i \in Range(priority) \ paused
    <2>1. \E k \in DOMAIN priority : priority[k] = i
        BY <1>2 DEF Range
    <2>2. (CHOOSE k \in DOMAIN priority : priority[k] = i) \in DOMAIN priority
        BY <2>1
    <2>3. QED
        BY <1>1, <1>2, <2>2 DEF Rank
<1>3. CASE ~(i \in Range(priority) \ paused)
    BY <1>1, <1>3 DEF Rank
<1>4. QED
    BY <1>2, <1>3

\* The best of some recipes is one of them.
LEMMA BestIn ==
    ASSUME NEW S, S \subseteq Recipes, S # {},
           assigned \in Assignments, priority \in Seq(Items)
    PROVE  Best(S) \in S
<1>1. IsFiniteSet(S)
    BY Finite, FS_Subset
<1>2. \A r \in S : /\ Rank(Output[r]) \in Nat /\ assigned[r] \in Nat
                   /\ Authored[r] \in Nat
    BY RankType, Content DEF Assignments
<1>3. \A r, s \in S : r # s => Authored[r] # Authored[s]
    BY Content
<1>. DEFINE R == {q \in S \X S : Better(q[2], q[1])}
<1>4. \A r, s \in S : <<s, r>> \in R <=> Better(r, s)
    OBVIOUS
<1>. HIDE DEF R
<1>5. \A r, s \in S : r # s => Better(r, s) \/ Better(s, r)
    BY <1>2, <1>3 DEF Better
<1>6. \A r, s, t \in S : Better(r, s) /\ Better(s, t) => Better(r, t)
    BY <1>2 DEF Better
<1>7. Orders(R, S)
    BY <1>4, <1>5, <1>6 DEF Orders
<1>8. \E r \in S : \A s \in S \ {r} : <<s, r>> \in R
    BY <1>1, <1>7, LastExists
<1>9. \E r \in S : \A s \in S \ {r} : Better(r, s)
    BY <1>4, <1>8
<1>10. QED
    BY <1>9 DEF Best

(***************************************************************************)
(* The invariant of the assignments.                                       *)
(***************************************************************************)

PoolInv == assigned \in Assignments /\ AssignedWithinPool

\* A step that changes one pool has that pool to show.
LEMMA OnePoolChanges ==
    ASSUME WorldType, WorldType', PoolInv, NEW p \in Pools, assigned' \in Assignments,
           \A r \in Recipes : PoolOf[r] # p => assigned'[r] = assigned[r],
           \A q \in Pools \ {p} : installed'[q] = installed[q],
           AssignedIn(assigned', p) <= PoolSize(installed', p)
    PROVE  PoolInv'
<1>1. ASSUME NEW q \in Pools, q # p
      PROVE  AssignedIn(assigned', q) <= PoolSize(installed', q)
    <2>1. \A r \in RecipesIn(q) : assigned'[r] = assigned[r]
        BY <1>1 DEF RecipesIn
    <2>2. AssignedIn(assigned', q) = AssignedIn(assigned, q)
        BY <2>1 DEF AssignedIn
    <2>3. PoolSize(installed', q) = PoolSize(installed, q)
        BY <1>1 DEF PoolSize
    <2>4. QED
        BY <2>2, <2>3 DEF PoolInv, AssignedWithinPool
<1>2. \A q \in Pools : AssignedIn(assigned', q) <= PoolSize(installed', q)
    BY <1>1
<1>3. QED
    BY <1>2 DEF PoolInv, AssignedWithinPool

\* BUY_MACHINE puts what it installs to work on one recipe of the pool at most.
LEMMA BuyMachineFits ==
    ASSUME WorldType, WorldType', PoolInv,
           NEW p \in Pools, NEW m \in Marks, NEW n \in 1..MaxCount,
           NEW named, NEW fast, named = {} \/ \E r \in RecipesIn(p) : named = {r},
           BuyMachine(p, m, n, named, fast)
    PROVE  PoolInv'
<1>. DEFINE owned == installed[p][m]
            paid == SpendForBuild(stock, MachineCostRange(p, m, owned, n), QuantumCaps)
            live == Live \cap RecipesIn(p)
            target == AutoAssignTarget(p, paid, fast)
            to == IF named # {} THEN named ELSE IF live = {} THEN {} ELSE {target}
<1>1. /\ installed' = Install(p, m, owned + n)
      /\ assigned' = [r \in Recipes |-> IF r \in to THEN assigned[r] + n ELSE assigned[r]]
    BY DEF BuyMachine
<1>2. /\ assigned \in Assignments /\ installed \in Installed /\ installed' \in Installed
      /\ priority \in Seq(Items) /\ n \in Nat /\ n >= 1
    BY Naturals DEF WorldType, PoolInv, Installed
<1>3. live # {} => target \in live
    <2>. DEFINE room == {r \in live : /\ ~Full(paid, Output[r])
                                      /\ assigned[r] = 0 \/ r \in fast}
    <2>1. room \subseteq live /\ live \subseteq Recipes
        BY DEF Live
    <2>2. target = IF room = {} THEN Best(live) ELSE Best(room)
        BY DEF AutoAssignTarget
    <2>. HIDE DEF room, live, target
    <2>3. room # {} => Best(room) \in room
        BY <1>2, <2>1, BestIn
    <2>4. live # {} => Best(live) \in live
        BY <1>2, <2>1, BestIn
    <2>5. QED
        BY <2>1, <2>2, <2>3, <2>4
<1>4. to = {} \/ \E x \in RecipesIn(p) : to = {x}
    <2>. HIDE DEF target
    <2>1. QED
        BY <1>3
<1>. HIDE DEF to, live, target, paid
<1>5. RecipesIn(p) \subseteq Recipes /\ \A r \in RecipesIn(p) : PoolOf[r] = p
    BY DEF RecipesIn
<1>6. /\ assigned' \in Assignments
      /\ \A r \in Recipes : PoolOf[r] # p => assigned'[r] = assigned[r]
    <2>1. \A r \in Recipes : assigned[r] \in Nat /\ assigned[r] + n \in Nat
        BY <1>2 DEF Assignments
    <2>2. \A r \in Recipes : assigned'[r] \in Nat
        BY <1>1, <2>1
    <2>3. assigned' \in Assignments
        BY <1>1, <2>2 DEF Assignments
    <2>4. QED
        BY <1>1, <1>4, <1>5, <2>3
<1>7. PICK was : was = AssignedIn(assigned, p)
    OBVIOUS
<1>8. was \in Nat /\ AssignedIn(assigned', p) <= was + n
    <2>0. was \in Nat
        BY <1>2, <1>7, AssignedInSums
    <2>1. CASE to = {}
        <3>1. \A r \in RecipesIn(p) : assigned'[r] = assigned[r]
            BY <1>1, <1>5, <2>1
        <3>2. AssignedIn(assigned', p) = was
            BY <1>7, <3>1 DEF AssignedIn
        <3>3. QED
            BY <1>2, <2>0, <3>2
    <2>2. CASE \E x \in RecipesIn(p) : to = {x}
        <3>1. PICK x \in RecipesIn(p) : to = {x}
            BY <2>2
        <3>2. /\ \A r \in RecipesIn(p) : assigned[r] \in Int /\ assigned'[r] \in Int
              /\ \A r \in RecipesIn(p) \ {x} : assigned'[r] = assigned[r]
              /\ assigned'[x] = assigned[x] + n
            BY <1>1, <1>2, <1>5, <1>6, <3>1 DEF Assignments
        <3>3. /\ IsFiniteSet(RecipesIn(p)) /\ was = SumOver(assigned, RecipesIn(p))
              /\ AssignedIn(assigned', p) = SumOver(assigned', RecipesIn(p))
            BY <1>2, <1>6, <1>7, AssignedInSums
        <3>4. SumOver(assigned', RecipesIn(p))
                = SumOver(assigned, RecipesIn(p)) - assigned[x] + assigned'[x]
            BY <3>2, <3>3, SumChanges
        <3>5. assigned[x] \in Int /\ assigned'[x] \in Int
            BY <3>2
        <3>6. QED
            BY <1>2, <2>0, <3>2, <3>3, <3>4, <3>5
    <2>3. QED
        BY <1>4, <2>1, <2>2
<1>9. /\ \A k \in Marks \ {m} : installed'[p][k] = installed[p][k]
      /\ installed'[p][m] = owned + n
      /\ \A q \in Pools \ {p} : installed'[q] = installed[q]
    BY <1>1, <1>2 DEF Install, Installed
<1>10. owned \in Nat
    BY <1>2, PoolSizeSums
<1>11. PICK size : size = PoolSize(installed, p)
    OBVIOUS
<1>12. PoolSize(installed', p) = size + n /\ size \in Nat
    <2>1. PoolSize(installed', p) = size - installed[p][m] + installed'[p][m]
        BY <1>2, <1>9, <1>11, InstallAdds
    <2>2. size \in Nat
        BY <1>2, <1>11, PoolSizeSums
    <2>3. QED
        BY <1>2, <1>9, <1>10, <2>1, <2>2
<1>13. was <= size
    BY <1>7, <1>11 DEF PoolInv, AssignedWithinPool
<1>14. AssignedIn(assigned', p) \in Nat
    BY <1>6, AssignedInSums
<1>15. AssignedIn(assigned', p) <= PoolSize(installed', p)
    BY <1>2, <1>8, <1>12, <1>13, <1>14
<1>16. QED
    BY <1>6, <1>9, <1>15, OnePoolChanges

\* What a clamp to the pool's new size leaves fits it.
LEMMA ClampedFits ==
    ASSUME WorldType, WorldType', PoolInv, NEW p \in Pools,
           \A q \in Pools \ {p} : installed'[q] = installed[q],
           assigned' = ClampAssignments(assigned, p, PoolSize(installed', p))
    PROVE  PoolInv'
<1>1. PICK pool : pool = PoolSize(installed', p)
    OBVIOUS
<1>2. pool \in Nat
    <2>1. installed' \in Installed
        BY DEF WorldType, Installed
    <2>2. QED
        BY <1>1, <2>1, PoolSizeSums
<1>3. PICK a : a = assigned
    OBVIOUS
<1>4. a \in Assignments
    BY <1>3 DEF PoolInv
<1>5. assigned' = ClampAssignments(a, p, pool)
    BY <1>1, <1>3
<1>6. assigned' \in Assignments /\ \A r \in Recipes : PoolOf[r] # p => assigned'[r] = assigned[r]
    BY <1>2, <1>3, <1>4, <1>5, ClampTakes
<1>7. AssignedIn(assigned', p) <= pool
    <2>1. AssignedIn(assigned', p) = Least(AssignedIn(a, p), pool) /\ AssignedIn(a, p) \in Nat
        BY <1>2, <1>4, <1>5, ClampFits, AssignedInSums
    <2>2. QED
        BY <1>2, <2>1 DEF Least
<1>8. QED
    BY <1>1, <1>6, <1>7, OnePoolChanges

\* DISMANTLE clamps to what it leaves installed.
LEMMA DismantleFits ==
    ASSUME WorldType, WorldType', PoolInv,
           NEW p \in Pools, NEW m \in Marks, NEW n \in 1..MaxCount, Dismantle(p, m, n)
    PROVE  PoolInv'
<1>1. /\ installed' = Install(p, m, installed[p][m] - n)
      /\ assigned' = ClampAssignments(assigned, p, PoolSize(installed', p))
    BY DEF Dismantle
<1>2. \A q \in Pools \ {p} : installed'[q] = installed[q]
    BY <1>1 DEF Install, WorldType
<1>3. QED
    BY <1>1, <1>2, ClampedFits

\* So does UPGRADE_MARK.
LEMMA UpgradeMarkFits ==
    ASSUME WorldType, WorldType', PoolInv,
           NEW p \in Pools, NEW m \in 1..MaxMark - 1, UpgradeMark(p, m)
    PROVE  PoolInv'
<1>1. assigned' = ClampAssignments(assigned, p, PoolSize(installed', p))
    BY DEF UpgradeMark
<1>2. \A q \in Pools \ {p} : installed'[q] = installed[q]
    <2>1. \E row : installed' = [installed EXCEPT ![p] = row]
        BY DEF UpgradeMark
    <2>2. QED
        BY <2>1 DEF WorldType
<1>3. QED
    BY <1>1, <1>2, ClampedFits

\* ASSIGN_MACHINES.
LEMMA AssignMachinesFits ==
    ASSUME WorldType, WorldType', PoolInv,
           NEW r \in Recipes, NEW n \in 0..MaxCount, AssignMachines(r, n)
    PROVE  PoolInv'
<1>1. PICK p \in Pools : p = PoolOf[r]
    BY Content
<1>2. /\ AssignedIn(assigned, p) - assigned[r] + n <= PoolSize(installed, p)
      /\ assigned' = [assigned EXCEPT ![r] = n]
      /\ installed' = installed
      /\ n \in Nat
    BY <1>1, Naturals DEF AssignMachines
<1>3. assigned \in Assignments
    BY DEF PoolInv
<1>4. /\ assigned' \in Assignments /\ assigned'[r] = n
      /\ \A s \in Recipes \ {r} : assigned'[s] = assigned[s]
    BY <1>2, <1>3 DEF Assignments
<1>5. AssignedIn(assigned', p) = AssignedIn(assigned, p) - assigned[r] + n
    <2>1. /\ IsFiniteSet(RecipesIn(p)) /\ RecipesIn(p) \subseteq Recipes
          /\ AssignedIn(assigned, p) = SumOver(assigned, RecipesIn(p))
          /\ AssignedIn(assigned', p) = SumOver(assigned', RecipesIn(p))
        BY <1>3, <1>4, AssignedInSums
    <2>2. r \in RecipesIn(p)
        BY <1>1 DEF RecipesIn
    <2>3. \A s \in RecipesIn(p) : assigned[s] \in Int /\ assigned'[s] \in Int
        BY <1>3, <1>4, <2>1 DEF Assignments
    <2>4. \A s \in RecipesIn(p) \ {r} : assigned'[s] = assigned[s]
        BY <1>4, <2>1
    <2>5. SumOver(assigned', RecipesIn(p))
            = SumOver(assigned, RecipesIn(p)) - assigned[r] + assigned'[r]
        BY <2>1, <2>2, <2>3, <2>4, SumChanges
    <2>6. QED
        BY <1>4, <2>1, <2>5
<1>6. AssignedIn(assigned', p) <= PoolSize(installed', p)
    BY <1>2, <1>5
<1>7. \A s \in Recipes : PoolOf[s] # p => assigned'[s] = assigned[s]
    BY <1>1, <1>4
<1>8. \A q \in Pools \ {p} : installed'[q] = installed[q]
    BY <1>2
<1>9. QED
    BY <1>4, <1>6, <1>7, <1>8, OnePoolChanges

\* The world a bundle starts with.
LEMMA PoolInvInit == Init => PoolInv
    BY Start, StartFits DEF Init, PoolInv, Assignments, AssignedWithinPool

\* Every step keeps the assignments within their pools.
LEMMA PoolInvStep ==
    ASSUME WorldType, WorldType', PoolInv, [Next]_vars
    PROVE  PoolInv'
<1>1. ASSUME UNCHANGED <<installed, assigned>> PROVE PoolInv'
    BY <1>1 DEF PoolInv, AssignedWithinPool
<1>2. ASSUME NEW p \in Pools, NEW m \in Marks, NEW n \in 1..MaxCount,
             NEW fast, BuyMachine(p, m, n, {}, fast)
      PROVE  PoolInv'
    BY <1>2, BuyMachineFits
<1>3. ASSUME NEW p \in Pools, NEW m \in Marks, NEW n \in 1..MaxCount,
             NEW r \in RecipesIn(p), BuyMachine(p, m, n, {r}, {})
      PROVE  PoolInv'
    BY <1>3, BuyMachineFits
<1>4. CASE Reduce
    <2>1. ASSUME NEW r, SelectRecipe(r) PROVE UNCHANGED <<installed, assigned>>
        BY <2>1 DEF SelectRecipe
    <2>2. ASSUME NEW q, ReorderPriority(q) PROVE UNCHANGED <<installed, assigned>>
        BY <2>2 DEF ReorderPriority, world
    <2>3. ASSUME NEW i, SetPaused(i) PROVE UNCHANGED <<installed, assigned>>
        BY <2>3 DEF SetPaused, world
    <2>4. ASSUME NEW k, NEW i, BuyStorage(i, k) PROVE UNCHANGED <<installed, assigned>>
        BY <2>4 DEF BuyStorage, BuyLevels
    <2>5. ASSUME NEW k, NEW l, BuyQs(l, k) PROVE UNCHANGED <<installed, assigned>>
        BY <2>5 DEF BuyQs, BuyLevels
    <2>6. ASSUME NEW n, Tap(n) PROVE UNCHANGED <<installed, assigned>>
        BY <2>6 DEF Tap, world
    <2>7. QED
        BY <1>1, <1>2, <1>3, <1>4, <2>1, <2>2, <2>3, <2>4, <2>5, <2>6,
           DismantleFits, UpgradeMarkFits, AssignMachinesFits DEF Reduce
<1>5. CASE Resolve
    <2>1. UNCHANGED world
        BY <1>5 DEF Resolve, StartResolve, Settle, Deliver, Integrate, EndResolve
    <2>2. QED
        BY <1>1, <2>1 DEF world
<1>6. CASE UNCHANGED vars
    BY <1>1, <1>6 DEF vars, world
<1>7. QED
    BY <1>4, <1>5, <1>6 DEF Next

\* The invariants together.
LEMMA FactoryInvariant == Spec => [](EconomyInv /\ PoolInv)
<1>1. Init => EconomyInv /\ PoolInv
    BY StockInvInit, LoopInvInit, PoolInvInit DEF EconomyInv
<1>2. EconomyInv /\ PoolInv /\ [Next]_vars => EconomyInv' /\ PoolInv'
    <2>1. EconomyInv /\ [Next]_vars => EconomyInv'
        BY StockInvStep, LoopInvStep DEF EconomyInv, LoopInv
    <2>2. EconomyInv => WorldType
        BY DEF EconomyInv, StockInv
    <2>3. EconomyInv' => WorldType'
        BY DEF EconomyInv, StockInv
    <2>4. QED
        BY <2>1, <2>2, <2>3, PoolInvStep
<1>3. QED
    BY <1>1, <1>2, PTL DEF Spec

(***************************************************************************)
(* Material.                                                               *)
(***************************************************************************)

\* All that is in stock of an item, wherever it is kept.
Held(s, i) == Liquid(s, i) + s.bound[i]

\* Settling moves stock and neither makes nor loses any.
LEMMA SettleConserves ==
    ASSUME NEW s \in Stocks, NEW caps \in Amounts, NEW i \in Items
    PROVE  Held(SettleBound(s, caps), i) = Held(s, i)
<1>. DEFINE move == [j \in Items |-> Least(s.bound[j], Room(caps[j], s.quantum[j]))]
            q == Plus(s.quantum, move)
            b == Minus(s.bound, move)
<1>1. /\ s.stored[i] \in Nat /\ s.quantum[i] \in Nat /\ s.bound[i] \in Nat
      /\ caps[i] \in Nat
    BY DEF Stocks, Amounts
<1>2. move[i] \in Nat
    BY <1>1 DEF Least, Room
<1>3. SettleBound(s, caps) = [s EXCEPT !.quantum = q, !.bound = b]
    BY DEF SettleBound
<1>4. q[i] = s.quantum[i] + move[i] /\ b[i] = s.bound[i] - move[i]
    BY DEF Plus, Minus
<1>. HIDE DEF q, b, move
<1>5. SettleBound(s, caps) = [stored |-> s.stored, quantum |-> q, bound |-> b]
    BY <1>3 DEF Stocks
<1>6. QED
    BY <1>1, <1>2, <1>4, <1>5 DEF Held, Liquid

\* A refund arrives whole.
LEMMA RefundConserves ==
    ASSUME NEW s \in Stocks, NEW caps \in Amounts, NEW amount \in Amounts, NEW i \in Items
    PROVE  Held(DepositRefund(s, amount, caps), i) = Held(s, i) + amount[i]
<1>. DEFINE take == [j \in Items |-> Least(amount[j], Room(caps[j], s.quantum[j]))]
            q == Plus(s.quantum, take)
            b == Plus(s.bound, Minus(amount, take))
<1>1. /\ s.stored[i] \in Nat /\ s.quantum[i] \in Nat /\ s.bound[i] \in Nat
      /\ caps[i] \in Nat /\ amount[i] \in Nat
    BY DEF Stocks, Amounts
<1>2. take[i] \in Nat
    BY <1>1 DEF Least, Room
<1>3. DepositRefund(s, amount, caps) = [s EXCEPT !.quantum = q, !.bound = b]
    BY DEF DepositRefund
<1>4. q[i] = s.quantum[i] + take[i] /\ b[i] = s.bound[i] + (amount[i] - take[i])
    BY DEF Plus, Minus
<1>. HIDE DEF q, b, take
<1>5. DepositRefund(s, amount, caps) = [stored |-> s.stored, quantum |-> q, bound |-> b]
    BY <1>3 DEF Stocks
<1>6. QED
    BY <1>1, <1>2, <1>4, <1>5 DEF Held, Liquid

\* A build takes its cost and nothing else.
LEMMA BuildConserves ==
    ASSUME NEW s \in Stocks, NEW caps \in Amounts, NEW cost \in Amounts,
           CanAffordBuild(s, cost), NEW i \in Items
    PROVE  Held(SpendForBuild(s, cost, caps), i) = Held(s, i) - cost[i]
<1>. DEFINE b == LeastOf(cost, s.bound)
            q == LeastOf(Minus(cost, b), s.quantum)
            u == [stored |-> Minus(s.stored, Minus(Minus(cost, b), q)),
                  quantum |-> Minus(s.quantum, q), bound |-> Minus(s.bound, b)]
<1>1. ASSUME NEW j \in Items
      PROVE  /\ s.stored[j] \in Nat /\ s.quantum[j] \in Nat /\ s.bound[j] \in Nat
             /\ cost[j] \in Nat
             /\ cost[j] <= s.stored[j] + s.quantum[j] + s.bound[j]
    BY DEF Stocks, Amounts, CanAffordBuild, Liquid
<1>2. ASSUME NEW j \in Items
      PROVE  /\ u.stored[j] \in Nat /\ u.quantum[j] \in Nat /\ u.bound[j] \in Nat
             /\ u.stored[j] + u.quantum[j] + u.bound[j]
                  = s.stored[j] + s.quantum[j] + s.bound[j] - cost[j]
    <2>1. /\ b[j] = Least(cost[j], s.bound[j])
          /\ q[j] = Least(cost[j] - b[j], s.quantum[j])
          /\ u.stored[j] = s.stored[j] - (cost[j] - b[j] - q[j])
          /\ u.quantum[j] = s.quantum[j] - q[j]
          /\ u.bound[j] = s.bound[j] - b[j]
        BY DEF LeastOf, Minus
    <2>. HIDE DEF b, q, u
    <2>2. QED
        BY <1>1, <2>1 DEF Least
<1>3. u \in Stocks
    <2>1. u.stored \in Amounts /\ u.quantum \in Amounts /\ u.bound \in Amounts
        BY <1>2 DEF Amounts, Minus
    <2>2. QED
        BY <2>1 DEF Stocks
<1>4. SpendForBuild(s, cost, caps) = SettleBound(u, caps)
    BY DEF SpendForBuild
<1>. HIDE DEF u
<1>5. Held(SpendForBuild(s, cost, caps), i) = Held(u, i)
    BY <1>3, <1>4, SettleConserves
<1>6. QED
    BY <1>1, <1>2, <1>5 DEF Held, Liquid

\* So does a delivery.
LEMMA DeliveryConserves ==
    ASSUME NEW s \in Stocks, NEW caps \in Amounts, NEW cost \in Amounts,
           CanAffordLiquid(s, cost), NEW i \in Items
    PROVE  Held(SpendFromLiquid(s, cost, caps), i) = Held(s, i) - cost[i]
<1>. DEFINE d == LeastOf(cost, s.stored)
            u == [stored |-> Minus(s.stored, d),
                  quantum |-> Minus(s.quantum, Minus(cost, d)), bound |-> s.bound]
<1>1. ASSUME NEW j \in Items
      PROVE  /\ s.stored[j] \in Nat /\ s.quantum[j] \in Nat /\ s.bound[j] \in Nat
             /\ cost[j] \in Nat
             /\ cost[j] <= s.stored[j] + s.quantum[j]
    BY DEF Stocks, Amounts, CanAffordLiquid, Liquid
<1>2. ASSUME NEW j \in Items
      PROVE  /\ u.stored[j] \in Nat /\ u.quantum[j] \in Nat /\ u.bound[j] \in Nat
             /\ u.stored[j] + u.quantum[j] + u.bound[j]
                  = s.stored[j] + s.quantum[j] + s.bound[j] - cost[j]
    BY <1>1 DEF LeastOf, Minus, Least
<1>3. u \in Stocks
    <2>1. u.stored \in Amounts /\ u.quantum \in Amounts /\ u.bound \in Amounts
        BY <1>2 DEF Amounts, Minus, Stocks
    <2>2. QED
        BY <2>1 DEF Stocks
<1>4. SpendFromLiquid(s, cost, caps) = SettleBound(u, caps)
    BY DEF SpendFromLiquid
<1>. HIDE DEF u
<1>5. Held(SpendFromLiquid(s, cost, caps), i) = Held(u, i)
    BY <1>3, <1>4, SettleConserves
<1>6. QED
    BY <1>1, <1>2, <1>5 DEF Held, Liquid

\* A total follows a change of one of its terms.
LEMMA TotalChanges ==
    ASSUME NEW T, IsFiniteSet(T), NEW f \in [T -> Int], NEW g \in [T -> Int], NEW a \in T,
           \A x \in T \ {a} : g[x] = f[x]
    PROVE  Total(f) \in Int /\ Total(g) = Total(f) - f[a] + g[a]
<1>1. Total(f) = SumOver(f, T) /\ Total(g) = SumOver(g, T)
    BY TotalSums
<1>2. QED
    BY <1>1, SumChanges

\* A total of integers is one.
LEMMA TotalType ==
    ASSUME NEW T, IsFiniteSet(T), NEW f \in [T -> Int]
    PROVE  Total(f) \in Int
<1>1. Total(f) = SumOver(f, T)
    BY TotalSums
<1>2. \A x \in T : f[x] \in Int
    OBVIOUS
<1>3. SumOver(f, T) \in Int
    BY <1>2, SumType
<1>4. QED
    BY <1>1, <1>3

Row == [Marks -> 0..MaxMachines]

\* What the first machines of a mark have cost of an item.
LEMMA SpentType ==
    ASSUME NEW i \in Items, NEW p \in Pools, NEW m \in Marks, NEW n \in 0..MaxMachines
    PROVE  MachineSpent(p, m, n)[i] \in Nat
<1>1. MachineSpent(p, m, n) \in Amounts
    BY Costs
<1>2. QED
    BY <1>1 DEF Amounts

\* What one pool has cost is an integer.
LEMMA PoolSunkType ==
    ASSUME NEW i \in Items, NEW p \in Pools, NEW row \in Row
    PROVE  /\ [k \in Marks |-> MachineSpent(p, k, row[k])[i]] \in [Marks -> Int]
           /\ SunkInPool(i, p, row) \in Int
<1>1. [k \in Marks |-> MachineSpent(p, k, row[k])[i]] \in [Marks -> Int]
    BY SpentType DEF Row
<1>2. IsFiniteSet(Marks)
    BY Naturals, FS_Interval DEF Marks
<1>3. PICK f : f = [k \in Marks |-> MachineSpent(p, k, row[k])[i]]
    OBVIOUS
<1>4. f \in [Marks -> Int]
    BY <1>1, <1>3
<1>5. Total(f) \in Int
    BY <1>2, <1>4, TotalType
<1>6. QED
    BY <1>1, <1>3, <1>5 DEF SunkInPool

\* It follows a change of one mark.
LEMMA PoolSunkChanges ==
    ASSUME NEW i \in Items, NEW p \in Pools, NEW row \in Row, NEW new \in Row,
           NEW m \in Marks, \A k \in Marks \ {m} : new[k] = row[k]
    PROVE  SunkInPool(i, p, new) = SunkInPool(i, p, row)
                - MachineSpent(p, m, row[m])[i] + MachineSpent(p, m, new[m])[i]
<1>. DEFINE f == [k \in Marks |-> MachineSpent(p, k, row[k])[i]]
            g == [k \in Marks |-> MachineSpent(p, k, new[k])[i]]
<1>1. f \in [Marks -> Int] /\ g \in [Marks -> Int]
    BY PoolSunkType
<1>2. /\ \A k \in Marks \ {m} : g[k] = f[k]
      /\ f[m] = MachineSpent(p, m, row[m])[i] /\ g[m] = MachineSpent(p, m, new[m])[i]
    OBVIOUS
<1>3. IsFiniteSet(Marks)
    BY Naturals, FS_Interval DEF Marks
<1>4. SunkInPool(i, p, row) = Total(f) /\ SunkInPool(i, p, new) = Total(g)
    BY DEF SunkInPool
<1>. HIDE DEF f, g
<1>5. Total(g) = Total(f) - f[m] + g[m]
    BY <1>1, <1>2, <1>3, TotalChanges
<1>6. QED
    BY <1>2, <1>4, <1>5

\* What all pools have cost is an integer too.
LEMMA MachinesSunkType ==
    ASSUME NEW i \in Items, NEW inst \in Installed
    PROVE  /\ [q \in Pools |-> SunkInPool(i, q, inst[q])] \in [Pools -> Int]
           /\ SunkInMachines(i, inst) \in Int
<1>1. \A q \in Pools : inst[q] \in Row
    BY DEF Installed, Row
<1>2. \A q \in Pools : SunkInPool(i, q, inst[q]) \in Int
    BY <1>1, PoolSunkType
<1>3. [q \in Pools |-> SunkInPool(i, q, inst[q])] \in [Pools -> Int]
    BY <1>2
<1>4. PICK f : f = [q \in Pools |-> SunkInPool(i, q, inst[q])]
    OBVIOUS
<1>5. f \in [Pools -> Int]
    BY <1>3, <1>4
<1>6. Total(f) \in Int
    BY <1>5, Finite, TotalType
<1>7. QED
    BY <1>3, <1>4, <1>6 DEF SunkInMachines

\* It follows a change of one pool.
LEMMA MachinesSunkChange ==
    ASSUME NEW i \in Items, NEW p \in Pools, NEW inst \in Installed, NEW kept \in Installed,
           \A q \in Pools \ {p} : kept[q] = inst[q]
    PROVE  SunkInMachines(i, kept) = SunkInMachines(i, inst)
                - SunkInPool(i, p, inst[p]) + SunkInPool(i, p, kept[p])
<1>. DEFINE f == [q \in Pools |-> SunkInPool(i, q, inst[q])]
            g == [q \in Pools |-> SunkInPool(i, q, kept[q])]
<1>1. f \in [Pools -> Int] /\ g \in [Pools -> Int]
    BY MachinesSunkType
<1>2. /\ \A q \in Pools \ {p} : g[q] = f[q]
      /\ f[p] = SunkInPool(i, p, inst[p]) /\ g[p] = SunkInPool(i, p, kept[p])
    OBVIOUS
<1>3. SunkInMachines(i, inst) = Total(f) /\ SunkInMachines(i, kept) = Total(g)
    BY DEF SunkInMachines
<1>. HIDE DEF f, g
<1>4. Total(g) = Total(f) - f[p] + g[p]
    BY <1>1, <1>2, Finite, TotalChanges
<1>5. QED
    BY <1>2, <1>3, <1>4

\* Both together: one mark of one pool changes.
LEMMA MarkSunkChange ==
    ASSUME NEW i \in Items, NEW p \in Pools, NEW inst \in Installed, NEW kept \in Installed,
           NEW m \in Marks,
           \A q \in Pools \ {p} : kept[q] = inst[q],
           \A k \in Marks \ {m} : kept[p][k] = inst[p][k]
    PROVE  SunkInMachines(i, kept) = SunkInMachines(i, inst)
                - MachineSpent(p, m, inst[p][m])[i] + MachineSpent(p, m, kept[p][m])[i]
<1>1. /\ inst[p] \in Row /\ kept[p] \in Row
      /\ inst[p][m] \in 0..MaxMachines /\ kept[p][m] \in 0..MaxMachines
    BY DEF Installed, Row
<1>2. SunkInMachines(i, kept) = SunkInMachines(i, inst)
          - SunkInPool(i, p, inst[p]) + SunkInPool(i, p, kept[p])
    BY MachinesSunkChange
<1>3. SunkInPool(i, p, kept[p]) = SunkInPool(i, p, inst[p])
          - MachineSpent(p, m, inst[p][m])[i] + MachineSpent(p, m, kept[p][m])[i]
    BY <1>1, PoolSunkChanges
<1>4. /\ SunkInMachines(i, inst) \in Int /\ SunkInPool(i, p, inst[p]) \in Int
      /\ MachineSpent(p, m, inst[p][m])[i] \in Int /\ MachineSpent(p, m, kept[p][m])[i] \in Int
    BY <1>1, MachinesSunkType, PoolSunkType, SpentType
<1>5. QED
    BY <1>2, <1>3, <1>4

\* What the first levels have cost of an item.
LEMMA LevelSpentType ==
    ASSUME NEW i \in Items, NEW n \in 0..MaxLevel
    PROVE  StorageSpent(n)[i] \in Nat /\ QuantumSpent(n)[i] \in Nat
<1>1. StorageSpent(n) \in Amounts /\ QuantumSpent(n) \in Amounts
    BY Costs
<1>2. QED
    BY <1>1 DEF Amounts

\* What the levels of Storage have cost is an integer, and follows a change of one.
LEMMA StorageSunkChange ==
    ASSUME NEW i \in Items, NEW levels \in [Items -> 0..MaxLevel], NEW j \in Items,
           NEW n \in 0..MaxLevel
    PROVE  /\ SunkInStorage(i, levels) \in Int
           /\ SunkInStorage(i, [levels EXCEPT ![j] = n])
                = SunkInStorage(i, levels) - StorageSpent(levels[j])[i] + StorageSpent(n)[i]
<1>. DEFINE new == [levels EXCEPT ![j] = n]
            f == [k \in Items |-> StorageSpent(levels[k])[i]]
            g == [k \in Items |-> StorageSpent(new[k])[i]]
<1>1. /\ \A k \in Items : levels[k] \in 0..MaxLevel /\ new[k] \in 0..MaxLevel
      /\ \A k \in Items \ {j} : new[k] = levels[k]
      /\ new[j] = n
    OBVIOUS
<1>. HIDE DEF new
<1>2. f \in [Items -> Int] /\ g \in [Items -> Int]
    BY <1>1, LevelSpentType
<1>3. /\ \A k \in Items \ {j} : g[k] = f[k]
      /\ f[j] = StorageSpent(levels[j])[i] /\ g[j] = StorageSpent(n)[i]
    BY <1>1
<1>4. SunkInStorage(i, levels) = Total(f) /\ SunkInStorage(i, new) = Total(g)
    BY DEF SunkInStorage
<1>. HIDE DEF f, g
<1>5. Total(f) \in Int /\ Total(g) = Total(f) - f[j] + g[j]
    BY <1>2, <1>3, Finite, TotalChanges
<1>6. QED
    BY <1>3, <1>4, <1>5 DEF new

\* The same of the levels of Quantum Storage.
LEMMA QuantumSunkChange ==
    ASSUME NEW i \in Items, NEW levels \in [Lanes -> 0..MaxLevel], NEW l \in Lanes,
           NEW n \in 0..MaxLevel
    PROVE  /\ SunkInQuantum(i, levels) \in Int
           /\ SunkInQuantum(i, [levels EXCEPT ![l] = n])
                = SunkInQuantum(i, levels) - QuantumSpent(levels[l])[i] + QuantumSpent(n)[i]
<1>. DEFINE new == [levels EXCEPT ![l] = n]
            f == [k \in Lanes |-> QuantumSpent(levels[k])[i]]
            g == [k \in Lanes |-> QuantumSpent(new[k])[i]]
<1>1. /\ \A k \in Lanes : levels[k] \in 0..MaxLevel /\ new[k] \in 0..MaxLevel
      /\ \A k \in Lanes \ {l} : new[k] = levels[k]
      /\ new[l] = n
    OBVIOUS
<1>. HIDE DEF new
<1>2. f \in [Lanes -> Int] /\ g \in [Lanes -> Int]
    BY <1>1, LevelSpentType
<1>3. /\ \A k \in Lanes \ {l} : g[k] = f[k]
      /\ f[l] = QuantumSpent(levels[l])[i] /\ g[l] = QuantumSpent(n)[i]
    BY <1>1
<1>4. SunkInQuantum(i, levels) = Total(f) /\ SunkInQuantum(i, new) = Total(g)
    BY DEF SunkInQuantum
<1>. HIDE DEF f, g
<1>5. Total(f) \in Int /\ Total(g) = Total(f) - f[l] + g[l]
    BY <1>2, <1>3, Finite, TotalChanges
<1>6. QED
    BY <1>3, <1>4, <1>5 DEF new

\* What they have cost is an integer where there is no lane to change, too.
LEMMA QuantumSunkType ==
    ASSUME NEW i \in Items, NEW levels \in [Lanes -> 0..MaxLevel]
    PROVE  SunkInQuantum(i, levels) \in Int
<1>1. PICK f : f = [k \in Lanes |-> QuantumSpent(levels[k])[i]]
    OBVIOUS
<1>2. f \in [Lanes -> Int]
    BY <1>1, LevelSpentType
<1>3. Total(f) \in Int
    BY <1>2, Finite, TotalType
<1>4. QED
    BY <1>1, <1>3 DEF SunkInQuantum

\* What the milestones have cost is an integer, and grows by the next one's cost.
LEMMA MilestonesSunk ==
    ASSUME NEW i \in Items, NEW t \in StartTier..MaxTier
    PROVE  /\ SunkInMilestones(i, t) \in Int
           /\ t < MaxTier => /\ Milestone[t + 1][i] \in Nat
                             /\ SunkInMilestones(i, t + 1)
                                  = SunkInMilestones(i, t) + Milestone[t + 1][i]
<1>1. StartTier \in Nat /\ t \in Nat /\ MaxTier \in Nat /\ StartTier <= t /\ t <= MaxTier
    BY Naturals, Start
<1>2. \A u \in StartTier + 1..MaxTier : Milestone[u][i] \in Nat
    BY <1>1, Content DEF Amounts
<1>3. ASSUME NEW s \in StartTier..MaxTier
      PROVE  \E f : /\ f = [u \in StartTier + 1..s |-> Milestone[u][i]]
                    /\ SunkInMilestones(i, s) = SumOver(f, StartTier + 1..s)
                    /\ \A u \in StartTier + 1..s : f[u] = Milestone[u][i] /\ f[u] \in Nat
                    /\ IsFiniteSet(StartTier + 1..s)
    <2>1. PICK f : f = [u \in StartTier + 1..s |-> Milestone[u][i]]
        OBVIOUS
    <2>2. SunkInMilestones(i, s) = SumOver(f, StartTier + 1..s)
        BY <2>1, TotalSums DEF SunkInMilestones
    <2>3. IsFiniteSet(StartTier + 1..s)
        BY <1>1, FS_Interval
    <2>4. \A u \in StartTier + 1..s : f[u] = Milestone[u][i] /\ f[u] \in Nat
        BY <1>1, <1>2, <2>1
    <2>5. QED
        BY <2>1, <2>2, <2>3, <2>4
<1>4. PICK f : /\ SunkInMilestones(i, t) = SumOver(f, StartTier + 1..t)
               /\ \A u \in StartTier + 1..t : f[u] = Milestone[u][i] /\ f[u] \in Nat
               /\ IsFiniteSet(StartTier + 1..t)
    BY <1>3
<1>5. SumOver(f, StartTier + 1..t) \in Int
    <2>1. \A u \in StartTier + 1..t : f[u] \in Int
        BY <1>4
    <2>2. QED
        BY <1>4, <2>1, SumType
<1>6. ASSUME t < MaxTier
      PROVE  /\ Milestone[t + 1][i] \in Nat
             /\ SunkInMilestones(i, t + 1) = SunkInMilestones(i, t) + Milestone[t + 1][i]
    <2>. DEFINE T == StartTier + 1..t + 1
    <2>1. t + 1 \in StartTier..MaxTier /\ t + 1 \in T /\ T \ {t + 1} = StartTier + 1..t
        BY <1>1, <1>6
    <2>2. PICK g : /\ SunkInMilestones(i, t + 1) = SumOver(g, T)
                   /\ \A u \in T : g[u] = Milestone[u][i] /\ g[u] \in Nat
                   /\ IsFiniteSet(T)
        BY <1>3, <2>1
    <2>. HIDE DEF T
    <2>3. SumOver(g, T) = g[t + 1] + SumOver(g, T \ {t + 1})
        BY <2>1, <2>2, SumTakes
    <2>4. SumOver(g, T \ {t + 1}) = SumOver(f, StartTier + 1..t)
        <3>1. \A u \in StartTier + 1..t : g[u] = f[u]
            BY <1>4, <2>1, <2>2
        <3>2. PICK R : R = StartTier + 1..t
            OBVIOUS
        <3>3. SumOver(g, R) = SumOver(f, R)
            BY <3>1, <3>2, SumAgrees
        <3>4. QED
            BY <2>1, <3>2, <3>3
    <2>5. QED
        BY <1>4, <1>5, <2>1, <2>2, <2>3, <2>4
<1>7. QED
    BY <1>4, <1>5, <1>6

(***************************************************************************)
(* The invariant of the material.                                          *)
(***************************************************************************)

MaterialInv == StartTier <= tier /\ NothingFromNothing

\* What the factory has cost is an integer.
LEMMA SunkType ==
    ASSUME NEW i \in Items, NEW inst \in Installed, NEW sl \in [Items -> 0..MaxLevel],
           NEW ql \in [Lanes -> 0..MaxLevel], NEW t \in StartTier..MaxTier
    PROVE  /\ SunkInMachines(i, inst) \in Int /\ SunkInStorage(i, sl) \in Int
           /\ SunkInQuantum(i, ql) \in Int /\ SunkInMilestones(i, t) \in Int
           /\ Sunk(i, inst, sl, ql, t) \in Int
<1>1. SunkInMachines(i, inst) \in Int /\ SunkInStorage(i, sl) \in Int
      /\ SunkInQuantum(i, ql) \in Int /\ SunkInMilestones(i, t) \in Int
    BY MachinesSunkType, StorageSunkChange, QuantumSunkType, MilestonesSunk
<1>2. QED
    BY <1>1 DEF Sunk

\* A step that sinks `d` of item i into the factory and banks `b` of it leaves
\* that much less, and more, in stock.
Balanced(i) ==
    \E d, b \in Int :
       /\ Held(stock', i) = Held(stock, i) - d + b
       /\ Sunk(i, installed', storageLevel', qsLevel', tier')
            = Sunk(i, installed, storageLevel, qsLevel, tier) + d
       /\ banked'[i] = banked[i] + b

\* What a balanced step keeps.
LEMMA BalancedKeeps ==
    ASSUME WorldType, MaterialInv, StartTier <= tier', \A i \in Items : Balanced(i)
    PROVE  MaterialInv'
<1>1. ASSUME NEW i \in Items
      PROVE  Held(stock', i) + Sunk(i, installed', storageLevel', qsLevel', tier')
               = banked'[i] + SunkAtStart(i)
    <2>1. PICK d \in Int, b \in Int :
             /\ Held(stock', i) = Held(stock, i) - d + b
             /\ Sunk(i, installed', storageLevel', qsLevel', tier')
                  = Sunk(i, installed, storageLevel, qsLevel, tier) + d
             /\ banked'[i] = banked[i] + b
        BY DEF Balanced
    <2>2. Sunk(i, installed, storageLevel, qsLevel, tier) \in Int
        <3>1. tier \in StartTier..MaxTier
            BY Naturals, Start DEF MaterialInv, WorldType
        <3>2. QED
            BY <3>1, SunkType DEF WorldType, Installed
    <2>3. SunkAtStart(i) \in Int
        <3>1. 0 \in 0..MaxLevel /\ StartTier \in StartTier..MaxTier
            BY Naturals, Start
        <3>2. /\ StartMachines \in Installed
              /\ [j \in Items |-> 0] \in [Items -> 0..MaxLevel]
              /\ [l \in Lanes |-> 0] \in [Lanes -> 0..MaxLevel]
            BY <3>1, Start DEF Installed
        <3>3. QED
            BY <3>1, <3>2, SunkType DEF SunkAtStart
    <2>4. Held(stock, i) \in Int /\ banked[i] \in Int
        BY DEF Held, Liquid, WorldType, Stocks, Amounts
    <2>5. Held(stock, i) + Sunk(i, installed, storageLevel, qsLevel, tier)
            = banked[i] + SunkAtStart(i)
        BY DEF MaterialInv, NothingFromNothing, Held
    <2>6. QED
        BY <2>1, <2>2, <2>3, <2>4, <2>5
<1>2. QED
    BY <1>1 DEF MaterialInv, NothingFromNothing, Held

\* A step that leaves stock, factory and tier alone is balanced.
LEMMA NothingMoves ==
    ASSUME WorldType, NEW i \in Items,
           UNCHANGED <<stock, installed, storageLevel, qsLevel, tier, banked>>,
           StartTier <= tier
    PROVE  Balanced(i)
<1>1. tier \in StartTier..MaxTier
    BY Naturals, Start DEF WorldType
<1>2. Sunk(i, installed, storageLevel, qsLevel, tier) \in Int
    BY <1>1, SunkType DEF WorldType, Installed
<1>3. Held(stock, i) \in Int /\ banked[i] \in Int
    BY DEF Held, Liquid, WorldType, Stocks, Amounts
<1>4. /\ Held(stock', i) = Held(stock, i) - 0 + 0
      /\ Sunk(i, installed', storageLevel', qsLevel', tier')
           = Sunk(i, installed, storageLevel, qsLevel, tier) + 0
      /\ banked'[i] = banked[i] + 0
    BY <1>2, <1>3
<1>5. QED
    BY <1>4 DEF Balanced

\* A range of machines costs what its two ends have cost, one less the other.
LEMMA MachineCostIs ==
    ASSUME NEW p, NEW m, NEW k, NEW n, NEW i \in Items
    PROVE  MachineCostRange(p, m, k, n)[i] = MachineSpent(p, m, k + n)[i] - MachineSpent(p, m, k)[i]
BY DEF MachineCostRange, Minus

\* What sinks into one mark of one pool sinks into the factory.
LEMMA InstallSinks ==
    ASSUME WorldType, StartTier <= tier, NEW i \in Items,
           NEW p \in Pools, NEW m \in Marks, NEW n \in 0..MaxMachines,
           installed' = Install(p, m, n),
           UNCHANGED <<storageLevel, qsLevel, tier>>
    PROVE  /\ Sunk(i, installed, storageLevel, qsLevel, tier) \in Int
           /\ MachineSpent(p, m, installed[p][m])[i] \in Nat /\ MachineSpent(p, m, n)[i] \in Nat
           /\ Sunk(i, installed', storageLevel', qsLevel', tier')
                = Sunk(i, installed, storageLevel, qsLevel, tier)
                    + (MachineSpent(p, m, n)[i] - MachineSpent(p, m, installed[p][m])[i])
<1>1. tier \in StartTier..MaxTier /\ installed \in Installed
    BY Naturals, Start DEF WorldType, Installed
<1>2. /\ SunkInMachines(i, installed) \in Int /\ SunkInStorage(i, storageLevel) \in Int
      /\ SunkInQuantum(i, qsLevel) \in Int /\ SunkInMilestones(i, tier) \in Int
      /\ Sunk(i, installed, storageLevel, qsLevel, tier) \in Int
    BY <1>1, SunkType DEF WorldType
<1>3. MachineSpent(p, m, installed[p][m])[i] \in Nat /\ MachineSpent(p, m, n)[i] \in Nat
    BY <1>1, SpentType DEF Installed
<1>4. /\ installed' \in Installed /\ installed'[p][m] = n
      /\ \A q \in Pools \ {p} : installed'[q] = installed[q]
      /\ \A k \in Marks \ {m} : installed'[p][k] = installed[p][k]
    BY <1>1 DEF Install, Installed
<1>5. SunkInMachines(i, installed') = SunkInMachines(i, installed)
          - MachineSpent(p, m, installed[p][m])[i] + MachineSpent(p, m, n)[i]
    BY <1>1, <1>4, MarkSunkChange
<1>6. PICK d : d = MachineSpent(p, m, n)[i] - MachineSpent(p, m, installed[p][m])[i]
    OBVIOUS
<1>7. d \in Int /\ SunkInMachines(i, installed') = SunkInMachines(i, installed) + d
    BY <1>2, <1>3, <1>5, <1>6
<1>8. Sunk(i, installed', storageLevel', qsLevel', tier')
        = Sunk(i, installed, storageLevel, qsLevel, tier) + d
    BY <1>2, <1>7 DEF Sunk
<1>9. QED
    BY <1>2, <1>3, <1>6, <1>8

\* BUY_MACHINE.
LEMMA BuyMachineBalances ==
    ASSUME StockInv, StartTier <= tier, NEW p \in Pools, NEW m \in Marks, NEW n \in 1..MaxCount,
           NEW named, NEW fast, BuyMachine(p, m, n, named, fast), NEW i \in Items
    PROVE  Balanced(i)
<1>1. PICK owned : owned = installed[p][m]
    OBVIOUS
<1>2. PICK cost : cost = MachineCostRange(p, m, owned, n)
    OBVIOUS
<1>3. /\ CanAffordBuild(stock, cost) /\ stock' = SpendForBuild(stock, cost, QuantumCaps)
      /\ installed' = Install(p, m, owned + n) /\ owned + n <= MaxMachines
      /\ UNCHANGED <<storageLevel, qsLevel, tier, banked>>
    BY <1>1, <1>2 DEF BuyMachine, Player
<1>4. owned \in Nat /\ n \in Nat /\ owned + n \in 0..MaxMachines
    BY <1>1, <1>3, Naturals DEF StockInv, WorldType
<1>5. cost \in Amounts
    BY <1>2, <1>3, <1>4, MachineCostType
<1>6. Held(stock', i) = Held(stock, i) - cost[i]
    BY <1>3, <1>5, StockInvFacts, BuildConserves
<1>7. /\ Sunk(i, installed, storageLevel, qsLevel, tier) \in Int
      /\ Sunk(i, installed', storageLevel', qsLevel', tier')
           = Sunk(i, installed, storageLevel, qsLevel, tier)
               + (MachineSpent(p, m, owned + n)[i] - MachineSpent(p, m, owned)[i])
    BY <1>1, <1>3, <1>4, InstallSinks DEF StockInv
<1>8. cost[i] = MachineSpent(p, m, owned + n)[i] - MachineSpent(p, m, owned)[i]
    BY <1>2, MachineCostIs
<1>9. cost[i] \in Int /\ Held(stock, i) \in Int /\ banked[i] \in Int
    BY <1>5 DEF Held, Liquid, StockInv, WorldType, Stocks, Amounts
<1>10. /\ Held(stock', i) = Held(stock, i) - cost[i] + 0
       /\ Sunk(i, installed', storageLevel', qsLevel', tier')
            = Sunk(i, installed, storageLevel, qsLevel, tier) + cost[i]
       /\ banked'[i] = banked[i] + 0
    BY <1>3, <1>6, <1>7, <1>8, <1>9
<1>11. QED
    BY <1>9, <1>10 DEF Balanced

\* DISMANTLE.
LEMMA DismantleBalances ==
    ASSUME StockInv, StartTier <= tier, NEW p \in Pools, NEW m \in Marks, NEW n \in 1..MaxCount,
           Dismantle(p, m, n), NEW i \in Items
    PROVE  Balanced(i)
<1>1. PICK owned : owned = installed[p][m]
    OBVIOUS
<1>2. PICK refund : refund = MachineCostRange(p, m, owned - n, n)
    OBVIOUS
<1>3. /\ stock' = DepositRefund(stock, refund, QuantumCaps)
      /\ installed' = Install(p, m, owned - n) /\ n <= owned
      /\ UNCHANGED <<storageLevel, qsLevel, tier, banked>>
    BY <1>1, <1>2 DEF Dismantle, Player
<1>4. /\ owned \in Nat /\ n \in Nat /\ owned - n \in Nat /\ owned - n \in 0..MaxMachines
      /\ owned - n + n = owned /\ owned <= MaxMachines
    BY <1>1, <1>3, Naturals DEF StockInv, WorldType
<1>5. refund \in Amounts
    BY <1>2, <1>4, MachineCostType
<1>6. Held(stock', i) = Held(stock, i) + refund[i]
    BY <1>3, <1>5, StockInvFacts, RefundConserves
<1>7. /\ Sunk(i, installed, storageLevel, qsLevel, tier) \in Int
      /\ MachineSpent(p, m, owned)[i] \in Nat /\ MachineSpent(p, m, owned - n)[i] \in Nat
      /\ Sunk(i, installed', storageLevel', qsLevel', tier')
           = Sunk(i, installed, storageLevel, qsLevel, tier)
               + (MachineSpent(p, m, owned - n)[i] - MachineSpent(p, m, owned)[i])
    BY <1>1, <1>3, <1>4, InstallSinks DEF StockInv
<1>8. refund[i] = MachineSpent(p, m, owned)[i] - MachineSpent(p, m, owned - n)[i]
    BY <1>2, <1>4, MachineCostIs
<1>9. refund[i] \in Int /\ -refund[i] \in Int /\ Held(stock, i) \in Int /\ banked[i] \in Int
    BY <1>5 DEF Held, Liquid, StockInv, WorldType, Stocks, Amounts
<1>10. /\ Held(stock', i) = Held(stock, i) - (-refund[i]) + 0
       /\ Sunk(i, installed', storageLevel', qsLevel', tier')
            = Sunk(i, installed, storageLevel, qsLevel, tier) + (-refund[i])
       /\ banked'[i] = banked[i] + 0
    BY <1>3, <1>6, <1>7, <1>8, <1>9
<1>11. PICK d \in Int : d = -refund[i]
    BY <1>9
<1>12. QED
    BY <1>10, <1>11 DEF Balanced

\* UPGRADE_MARK: the whole of one mark back, its equivalent in the next paid.
LEMMA UpgradeMarkBalances ==
    ASSUME StockInv, StartTier <= tier, NEW p \in Pools, NEW m \in 1..MaxMark - 1,
           UpgradeMark(p, m), NEW i \in Items
    PROVE  Balanced(i)
<1>1. PICK owned, higher : owned = installed[p][m] /\ higher = installed[p][m + 1]
    OBVIOUS
<1>2. PICK equivalent : equivalent = (owned * RateOf[m]) \div RateOf[m + 1]
    OBVIOUS
<1>3. PICK refund, cost, refunded :
         /\ refund = MachineCostRange(p, m, 0, owned)
         /\ cost = MachineCostRange(p, m + 1, higher, equivalent)
         /\ refunded = DepositRefund(stock, refund, QuantumCaps)
    OBVIOUS
<1>4. /\ equivalent >= 1 /\ higher + equivalent <= MaxMachines
      /\ CanAffordBuild(refunded, cost)
      /\ stock' = SpendForBuild(refunded, cost, QuantumCaps)
      /\ installed' = [installed EXCEPT ![p] = [@ EXCEPT ![m] = 0,
                                                         ![m + 1] = higher + equivalent]]
      /\ UNCHANGED <<storageLevel, qsLevel, tier, banked>>
    BY <1>1, <1>2, <1>3 DEF UpgradeMark, Player
<1>5. /\ m \in Marks /\ m + 1 \in Marks /\ m # m + 1
      /\ owned \in 0..MaxMachines /\ owned \in Nat /\ higher \in Nat /\ 0 + owned = owned
      /\ 0 \in 0..MaxMachines
    BY <1>1, Naturals DEF Marks, StockInv, WorldType
<1>6. equivalent \in Nat
    <2>1. RateOf[m] \in Nat /\ RateOf[m + 1] \in Nat \ {0}
        BY <1>5, Content
    <2>2. owned * RateOf[m] \in Nat
        BY <1>5, <2>1, ProductIsNat
    <2>3. equivalent \in Int
        BY <1>2, <2>1, <2>2
    <2>4. QED
        BY <1>4, <2>3
<1>7. higher + equivalent \in 0..MaxMachines
    BY <1>4, <1>5, <1>6, Naturals
<1>8. refund \in Amounts /\ cost \in Amounts
    BY <1>3, <1>4, <1>5, <1>6, Naturals, MachineCostType
<1>9. refunded \in Stocks
    BY <1>3, <1>8, StockInvFacts, DepositRefundFacts
<1>10. Held(stock', i) = Held(stock, i) + refund[i] - cost[i]
    <2>1. Held(refunded, i) = Held(stock, i) + refund[i]
        BY <1>3, <1>8, StockInvFacts, RefundConserves
    <2>2. Held(stock', i) = Held(refunded, i) - cost[i]
        BY <1>4, <1>8, <1>9, StockInvFacts, BuildConserves
    <2>3. Held(stock, i) \in Int /\ refund[i] \in Int /\ cost[i] \in Int
        BY <1>8 DEF Held, Liquid, StockInv, WorldType, Stocks, Amounts
    <2>4. QED
        BY <2>1, <2>2, <2>3
<1>11. /\ refund[i] = MachineSpent(p, m, owned)[i] - MachineSpent(p, m, 0)[i]
       /\ cost[i] = MachineSpent(p, m + 1, higher + equivalent)[i]
                      - MachineSpent(p, m + 1, higher)[i]
    BY <1>3, <1>5, MachineCostIs
<1>12. PICK inst : inst = installed
    OBVIOUS
<1>13. PICK mid : mid = [inst EXCEPT ![p][m] = 0]
    OBVIOUS
<1>14. inst \in Installed
    BY <1>12 DEF StockInv, WorldType, Installed
<1>15. /\ mid \in Installed
       /\ SunkInMachines(i, mid) = SunkInMachines(i, inst)
            - MachineSpent(p, m, owned)[i] + MachineSpent(p, m, 0)[i]
    <2>1. /\ mid \in Installed /\ mid[p][m] = 0
          /\ \A q \in Pools \ {p} : mid[q] = inst[q]
          /\ \A k \in Marks \ {m} : mid[p][k] = inst[p][k]
        BY <1>5, <1>13, <1>14 DEF Installed
    <2>2. QED
        BY <1>1, <1>5, <1>12, <1>14, <2>1, MarkSunkChange
<1>16. mid[p][m + 1] = higher
    BY <1>1, <1>5, <1>12, <1>13, <1>14 DEF Installed
<1>17. /\ installed' \in Installed /\ installed'[p][m + 1] = higher + equivalent
       /\ \A q \in Pools \ {p} : installed'[q] = mid[q]
       /\ \A k \in Marks \ {m + 1} : installed'[p][k] = mid[p][k]
    <2>1. PICK row : row = [inst[p] EXCEPT ![m] = 0, ![m + 1] = higher + equivalent]
        OBVIOUS
    <2>2. /\ row \in [Marks -> 0..MaxMachines] /\ row[m] = 0
          /\ row[m + 1] = higher + equivalent
          /\ \A k \in Marks \ {m, m + 1} : row[k] = inst[p][k]
        BY <1>5, <1>7, <1>14, <2>1 DEF Installed
    <2>3. installed' = [inst EXCEPT ![p] = row]
        BY <1>4, <1>12, <2>1
    <2>4. /\ installed' \in Installed /\ installed'[p] = row
          /\ \A q \in Pools \ {p} : installed'[q] = inst[q]
        BY <1>14, <2>2, <2>3 DEF Installed
    <2>5. /\ \A q \in Pools \ {p} : mid[q] = inst[q]
          /\ mid[p][m] = 0 /\ \A k \in Marks \ {m} : mid[p][k] = inst[p][k]
        BY <1>5, <1>13, <1>14 DEF Installed
    <2>6. QED
        BY <2>2, <2>4, <2>5
<1>18. SunkInMachines(i, installed') = SunkInMachines(i, mid)
         - MachineSpent(p, m + 1, higher)[i] + MachineSpent(p, m + 1, higher + equivalent)[i]
    BY <1>5, <1>7, <1>15, <1>16, <1>17, MarkSunkChange
<1>19. /\ SunkInMachines(i, installed) \in Int /\ SunkInMachines(i, mid) \in Int
       /\ SunkInStorage(i, storageLevel) \in Int
       /\ SunkInQuantum(i, qsLevel) \in Int /\ SunkInMilestones(i, tier) \in Int
    <2>1. tier \in StartTier..MaxTier
        BY Naturals, Start DEF StockInv, WorldType
    <2>2. QED
        BY <1>12, <1>14, <1>15, <2>1, SunkType DEF StockInv, WorldType
<1>20. /\ MachineSpent(p, m, owned)[i] \in Int /\ MachineSpent(p, m, 0)[i] \in Int
       /\ MachineSpent(p, m + 1, higher)[i] \in Int
       /\ MachineSpent(p, m + 1, higher + equivalent)[i] \in Int
    <2>1. higher \in 0..MaxMachines
        BY <1>1, <1>5 DEF StockInv, WorldType
    <2>2. QED
        BY <1>5, <1>7, <2>1, SpentType
<1>21. SunkInMachines(i, installed') = SunkInMachines(i, installed) + (cost[i] - refund[i])
    BY <1>11, <1>12, <1>15, <1>18, <1>19, <1>20
<1>22. PICK d : d = cost[i] - refund[i]
    OBVIOUS
<1>23. d \in Int /\ cost[i] \in Int /\ refund[i] \in Int
       /\ Held(stock, i) \in Int /\ banked[i] \in Int
    BY <1>8, <1>22 DEF Held, Liquid, StockInv, WorldType, Stocks, Amounts
<1>24. /\ Held(stock', i) = Held(stock, i) - d + 0
       /\ Sunk(i, installed', storageLevel', qsLevel', tier')
            = Sunk(i, installed, storageLevel, qsLevel, tier) + d
       /\ banked'[i] = banked[i] + 0
    <2>1. SunkInMachines(i, installed') = SunkInMachines(i, installed) + d
        BY <1>21, <1>22
    <2>2. Sunk(i, installed', storageLevel', qsLevel', tier')
            = Sunk(i, installed, storageLevel, qsLevel, tier) + d
        BY <1>4, <1>19, <1>23, <2>1 DEF Sunk
    <2>3. QED
        BY <1>4, <1>10, <1>22, <1>23, <2>2
<1>25. QED
    BY <1>23, <1>24 DEF Balanced

\* A step that spends or settles as `cost` says, banks nothing and sinks as much.
LEMMA SpendingBalances ==
    ASSUME StockInv, NEW i \in Items, NEW cost \in Amounts,
           Held(stock', i) = Held(stock, i) - cost[i], banked' = banked,
           Sunk(i, installed', storageLevel', qsLevel', tier')
             = Sunk(i, installed, storageLevel, qsLevel, tier) + cost[i]
    PROVE  Balanced(i)
<1>1. cost[i] \in Int /\ Held(stock, i) \in Int /\ banked[i] \in Int
    BY DEF Held, Liquid, StockInv, WorldType, Stocks, Amounts
<1>2. /\ Held(stock', i) = Held(stock, i) - cost[i] + 0
      /\ banked'[i] = banked[i] + 0
    BY <1>1
<1>3. QED
    BY <1>1, <1>2 DEF Balanced

\* What the factory has cost, part by part, in a state of the invariant.
LEMMA SunkNow ==
    ASSUME WorldType, StartTier <= tier, NEW i \in Items
    PROVE  /\ tier \in StartTier..MaxTier
           /\ SunkInMachines(i, installed) \in Int /\ SunkInStorage(i, storageLevel) \in Int
           /\ SunkInQuantum(i, qsLevel) \in Int /\ SunkInMilestones(i, tier) \in Int
           /\ Sunk(i, installed, storageLevel, qsLevel, tier) \in Int
<1>1. tier \in StartTier..MaxTier
    BY Naturals, Start DEF WorldType
<1>2. QED
    BY <1>1, SunkType DEF WorldType, Installed

\* BUY_STORAGE.
LEMMA BuyStorageBalances ==
    ASSUME StockInv, StartTier <= tier, NEW j \in Items, NEW k \in 1..MaxLevel,
           BuyStorage(j, k), NEW i \in Items
    PROVE  Balanced(i)
<1>1. PICK l : l = storageLevel[j]
    OBVIOUS
<1>2. PICK cost : cost = Minus(StorageSpent(l + k), StorageSpent(l))
    OBVIOUS
<1>3. /\ CanAffordBuild(stock, cost) /\ stock' = SpendForBuild(stock, cost, QuantumCaps)
      /\ storageLevel' = [storageLevel EXCEPT ![j] = l + k] /\ l + k <= MaxLevel
      /\ UNCHANGED <<installed, qsLevel, tier, banked>>
    BY <1>1, <1>2 DEF BuyStorage, BuyLevels, Player
<1>4. l \in Nat /\ k \in Nat /\ l + k \in 0..MaxLevel /\ l \in 0..MaxLevel
    BY <1>1, <1>3, Naturals DEF StockInv, WorldType
<1>5. cost \in Amounts
    BY <1>2, <1>3, <1>4, LevelCostType
<1>6. Held(stock', i) = Held(stock, i) - cost[i]
    BY <1>3, <1>5, StockInvFacts, BuildConserves
<1>7. SunkInStorage(i, storageLevel')
        = SunkInStorage(i, storageLevel) - StorageSpent(l)[i] + StorageSpent(l + k)[i]
    BY <1>1, <1>3, <1>4, StorageSunkChange DEF StockInv, WorldType
<1>8. cost[i] = StorageSpent(l + k)[i] - StorageSpent(l)[i]
      /\ StorageSpent(l + k)[i] \in Int /\ StorageSpent(l)[i] \in Int
    BY <1>2, <1>4, LevelSpentType DEF Minus
<1>9. PICK d \in Int : d = cost[i]
    BY <1>8
<1>10. SunkInStorage(i, storageLevel') = SunkInStorage(i, storageLevel) + d
    BY <1>7, <1>8, <1>9, SunkNow DEF StockInv
<1>11. Sunk(i, installed', storageLevel', qsLevel', tier')
         = Sunk(i, installed, storageLevel, qsLevel, tier) + d
    BY <1>3, <1>10, SunkNow DEF Sunk, StockInv
<1>12. QED
    BY <1>3, <1>5, <1>6, <1>9, <1>11, SpendingBalances

\* BUY_QS.
LEMMA BuyQsBalances ==
    ASSUME StockInv, StartTier <= tier, NEW lane \in Lanes, NEW k \in 1..MaxLevel,
           BuyQs(lane, k), NEW i \in Items
    PROVE  Balanced(i)
<1>1. PICK l : l = qsLevel[lane]
    OBVIOUS
<1>2. PICK cost : cost = Minus(QuantumSpent(l + k), QuantumSpent(l))
    OBVIOUS
<1>3. /\ CanAffordBuild(stock, cost) /\ stock' = SpendForBuild(stock, cost, QuantumCaps)
      /\ qsLevel' = [qsLevel EXCEPT ![lane] = l + k] /\ l + k <= MaxLevel
      /\ UNCHANGED <<installed, storageLevel, tier, banked>>
    BY <1>1, <1>2 DEF BuyQs, BuyLevels, Player
<1>4. l \in Nat /\ k \in Nat /\ l + k \in 0..MaxLevel /\ l \in 0..MaxLevel
    BY <1>1, <1>3, Naturals DEF StockInv, WorldType
<1>5. cost \in Amounts
    BY <1>2, <1>3, <1>4, LevelCostType
<1>6. Held(stock', i) = Held(stock, i) - cost[i]
    BY <1>3, <1>5, StockInvFacts, BuildConserves
<1>7. SunkInQuantum(i, qsLevel')
        = SunkInQuantum(i, qsLevel) - QuantumSpent(l)[i] + QuantumSpent(l + k)[i]
    BY <1>1, <1>3, <1>4, QuantumSunkChange DEF StockInv, WorldType
<1>8. cost[i] = QuantumSpent(l + k)[i] - QuantumSpent(l)[i]
      /\ QuantumSpent(l + k)[i] \in Int /\ QuantumSpent(l)[i] \in Int
    BY <1>2, <1>4, LevelSpentType DEF Minus
<1>9. PICK d \in Int : d = cost[i]
    BY <1>8
<1>10. SunkInQuantum(i, qsLevel') = SunkInQuantum(i, qsLevel) + d
    BY <1>7, <1>8, <1>9, SunkNow DEF StockInv
<1>11. Sunk(i, installed', storageLevel', qsLevel', tier')
         = Sunk(i, installed, storageLevel, qsLevel, tier) + d
    BY <1>3, <1>10, SunkNow DEF Sunk, StockInv
<1>12. QED
    BY <1>3, <1>5, <1>6, <1>9, <1>11, SpendingBalances

\* Settling.
LEMMA SettleBalances ==
    ASSUME StockInv, StartTier <= tier, Settle, NEW i \in Items
    PROVE  Balanced(i)
<1>1. /\ stock' = SettleBound(stock, QuantumCaps)
      /\ UNCHANGED <<installed, storageLevel, qsLevel, tier, banked>>
    BY DEF Settle, world
<1>2. PICK none : none = [j \in Items |-> 0]
    OBVIOUS
<1>3. none \in Amounts /\ none[i] = 0
    BY <1>2 DEF Amounts
<1>4. Held(stock', i) = Held(stock, i)
    BY <1>1, StockInvFacts, SettleConserves
<1>5. Held(stock, i) \in Int
    BY DEF Held, Liquid, StockInv, WorldType, Stocks, Amounts
<1>6. Held(stock', i) = Held(stock, i) - none[i]
    BY <1>3, <1>4, <1>5
<1>7. Sunk(i, installed', storageLevel', qsLevel', tier')
        = Sunk(i, installed, storageLevel, qsLevel, tier) + none[i]
    BY <1>1, <1>3, SunkNow DEF StockInv
<1>8. QED
    BY <1>1, <1>3, <1>6, <1>7, SpendingBalances

\* Delivering a milestone.
LEMMA DeliverBalances ==
    ASSUME StockInv, StartTier <= tier, Deliver, NEW i \in Items
    PROVE  Balanced(i)
<1>1. PICK cost : cost = Milestone[tier + 1]
    OBVIOUS
<1>2. /\ tier < MaxTier /\ CanAffordLiquid(stock, cost)
      /\ stock' = SpendFromLiquid(stock, cost, QuantumCaps)
      /\ tier' = tier + 1
      /\ UNCHANGED <<installed, storageLevel, qsLevel, banked>>
    BY <1>1 DEF Deliver, Deliverable, world
<1>3. tier \in 0..MaxTier
    BY DEF StockInv, WorldType
<1>4. cost \in Amounts
    BY <1>1, <1>2, <1>3, Naturals, Content
<1>5. Held(stock', i) = Held(stock, i) - cost[i]
    BY <1>2, <1>4, StockInvFacts, DeliveryConserves
<1>6. PICK t \in StartTier..MaxTier : t = tier
    BY SunkNow DEF StockInv
<1>7. SunkInMilestones(i, t + 1) = SunkInMilestones(i, t) + Milestone[t + 1][i]
      /\ Milestone[t + 1][i] \in Nat
    BY <1>2, <1>6, MilestonesSunk
<1>8. PICK d \in Int : d = cost[i]
    BY <1>4 DEF Amounts
<1>9. SunkInMilestones(i, tier') = SunkInMilestones(i, tier) + d
    BY <1>1, <1>2, <1>6, <1>7, <1>8
<1>10. Sunk(i, installed', storageLevel', qsLevel', tier')
         = Sunk(i, installed, storageLevel, qsLevel, tier) + d
    BY <1>2, <1>9, SunkNow DEF Sunk, StockInv
<1>11. QED
    BY <1>2, <1>4, <1>5, <1>8, <1>10, SpendingBalances

\* A segment banks what it leaves in stock.
LEMMA IntegrateBalances ==
    ASSUME StockInv, LoopType, StartTier <= tier,
           NEW net \in [Items -> -MaxRate..MaxRate], NEW dt, Integrate(net, dt), NEW i \in Items
    PROVE  Balanced(i)
<1>1. PICK flow : flow = [j \in Items |-> Flow(stock, j, net[j], dt)]
    OBVIOUS
<1>2. PICK stored, quantum : /\ stored = [j \in Items |-> stock.stored[j] + flow[j].stored]
                             /\ quantum = [j \in Items |-> stock.quantum[j] + flow[j].quantum]
    OBVIOUS
<1>3. /\ stock' = [stock EXCEPT !.stored = stored, !.quantum = quantum]
      /\ banked' = [j \in Items |-> banked[j] + flow[j].stored + flow[j].quantum]
      /\ UNCHANGED <<installed, storageLevel, qsLevel, tier>>
      /\ dt \in Nat
    <2>1. stock' = [stock EXCEPT !.stored = [j \in Items |-> @[j] + flow[j].stored],
                                 !.quantum = [j \in Items |-> @[j] + flow[j].quantum]]
          /\ banked' = [j \in Items |-> banked[j] + flow[j].stored + flow[j].quantum]
          /\ UNCHANGED <<world, tier>> /\ dt \in 1..left
        BY <1>1 DEF Integrate
    <2>2. dt \in Nat
        BY <2>1 DEF LoopType
    <2>3. QED
        BY <1>2, <2>1, <2>2 DEF world
<1>4. flow[i].stored \in Int /\ flow[i].quantum \in Int
    <2>1. net[i] \in Int
        BY Naturals
    <2>2. flow[i] = Flow(stock, i, net[i], dt)
        BY <1>1
    <2>3. QED
        BY <1>3, <2>1, <2>2, FlowFacts DEF StockInv
<1>5. /\ stock'.stored[i] = stock.stored[i] + flow[i].stored
      /\ stock'.quantum[i] = stock.quantum[i] + flow[i].quantum
      /\ stock'.bound[i] = stock.bound[i]
      /\ banked'[i] = banked[i] + flow[i].stored + flow[i].quantum
    BY <1>2, <1>3 DEF StockInv, WorldType, Stocks
<1>6. /\ stock.stored[i] \in Int /\ stock.quantum[i] \in Int /\ stock.bound[i] \in Int
      /\ banked[i] \in Int
    BY DEF StockInv, WorldType, Stocks, Amounts
<1>7. PICK b \in Int : b = flow[i].stored + flow[i].quantum
    BY <1>4
<1>8. /\ Held(stock', i) = Held(stock, i) - 0 + b
      /\ banked'[i] = banked[i] + b
    BY <1>4, <1>5, <1>6, <1>7 DEF Held, Liquid
<1>9. Sunk(i, installed', storageLevel', qsLevel', tier')
        = Sunk(i, installed, storageLevel, qsLevel, tier) + 0
    BY <1>3, SunkNow DEF StockInv
<1>10. QED
    BY <1>8, <1>9 DEF Balanced

\* The world a bundle starts with has sunk what it starts with and holds nothing.
LEMMA MaterialInvInit == Init => MaterialInv
<1>. SUFFICES ASSUME Init PROVE MaterialInv
    OBVIOUS
<1>1. /\ stock.stored = [i \in Items |-> 0] /\ stock.quantum = [i \in Items |-> 0]
      /\ stock.bound = [i \in Items |-> 0] /\ banked = [i \in Items |-> 0]
      /\ installed = StartMachines /\ tier = StartTier
      /\ storageLevel = [i \in Items |-> 0] /\ qsLevel = [l \in Lanes |-> 0]
    BY DEF Init
<1>2. WorldType /\ StartTier <= tier
    BY <1>1, StockInvInit, Start, Naturals DEF StockInv
<1>3. ASSUME NEW i \in Items
      PROVE  Liquid(stock, i) + stock.bound[i]
               + Sunk(i, installed, storageLevel, qsLevel, tier) = banked[i] + SunkAtStart(i)
    <2>1. SunkAtStart(i) = Sunk(i, installed, storageLevel, qsLevel, tier)
        BY <1>1 DEF SunkAtStart
    <2>2. Liquid(stock, i) = 0 /\ stock.bound[i] = 0 /\ banked[i] = 0
        BY <1>1 DEF Liquid
    <2>3. QED
        BY <1>2, <2>1, <2>2, SunkNow
<1>4. QED
    BY <1>2, <1>3 DEF MaterialInv, NothingFromNothing

\* Every step is balanced.
LEMMA EveryStepBalances ==
    ASSUME EconomyInv, StartTier <= tier, [Next]_vars, NEW i \in Items
    PROVE  Balanced(i)
<1>1. StockInv /\ WorldType /\ LoopType
    BY DEF EconomyInv, StockInv, LoopInv
<1>2. ASSUME UNCHANGED <<stock, installed, storageLevel, qsLevel, tier, banked>>
      PROVE  Balanced(i)
    BY <1>1, <1>2, NothingMoves
<1>3. CASE Reduce
    <2>1. UNCHANGED <<tier, banked>>
        BY <1>3, ReducerFrame DEF Player
    <2>2. ASSUME NEW r, SelectRecipe(r) PROVE UNCHANGED <<stock, installed, storageLevel, qsLevel>>
        BY <2>2 DEF SelectRecipe
    <2>3. ASSUME NEW r, NEW n, AssignMachines(r, n)
          PROVE  UNCHANGED <<stock, installed, storageLevel, qsLevel>>
        BY <2>3 DEF AssignMachines
    <2>4. ASSUME NEW q, ReorderPriority(q)
          PROVE  UNCHANGED <<stock, installed, storageLevel, qsLevel>>
        BY <2>4 DEF ReorderPriority, world
    <2>5. ASSUME NEW j, SetPaused(j) PROVE UNCHANGED <<stock, installed, storageLevel, qsLevel>>
        BY <2>5 DEF SetPaused, world
    <2>6. ASSUME NEW n, Tap(n) PROVE UNCHANGED <<stock, installed, storageLevel, qsLevel>>
        BY <2>6 DEF Tap, world
    <2>7. QED
        BY <1>1, <1>2, <1>3, <2>1, <2>2, <2>3, <2>4, <2>5, <2>6, BuyMachineBalances,
           DismantleBalances, UpgradeMarkBalances, BuyStorageBalances, BuyQsBalances DEF Reduce
<1>4. CASE Resolve
    <2>1. ASSUME NEW elapsed, StartResolve(elapsed) PROVE Balanced(i)
        BY <1>2, <2>1 DEF StartResolve, world
    <2>2. ASSUME EndResolve PROVE Balanced(i)
        BY <1>2, <2>2 DEF EndResolve, world
    <2>3. QED
        BY <1>1, <1>4, <2>1, <2>2, SettleBalances, DeliverBalances, IntegrateBalances DEF Resolve
<1>5. CASE UNCHANGED vars
    BY <1>2, <1>5 DEF vars, world
<1>6. QED
    BY <1>3, <1>4, <1>5 DEF Next

(***************************************************************************)
(* The theorems.                                                           *)
(***************************************************************************)

\* Every variable but the assignments keeps its type (theirs is with their fit),
\* and the resolve loop's time adds up to the clock it leaves.
THEOREM TypesHold == Spec => [](WorldType /\ LoopType)
<1>1. EconomyInv => WorldType /\ LoopType
    BY DEF EconomyInv, StockInv, LoopInv
<1>2. QED
    BY <1>1, EconomyInvariant, PTL

\* Stored and quantum stock never exceed their caps, at any costs, any caps
\* that do not fall with a level or a tier, and any rates a solver may give.
THEOREM StockStaysWithinCaps == Spec => []StockWithinCaps
<1>1. EconomyInv => StockWithinCaps
    BY DEF EconomyInv, StockInv
<1>2. QED
    BY <1>1, EconomyInvariant, PTL

\* Tap stacks live exactly as long as their timer, which no resolve outlives.
THEOREM TapStacksHaveTimer == Spec => []StacksHaveTimer
<1>1. EconomyInv => StacksHaveTimer
    BY DEF EconomyInv, LoopInv, TapsInv, StacksHaveTimer
<1>2. QED
    BY <1>1, EconomyInvariant, PTL

\* The two together, as the runs check them.
THEOREM StockLegalAlways == Spec => []StockLegal
<1>1. QED
    BY StockStaysWithinCaps, TapStacksHaveTimer, PTL DEF StockLegal

\* Bound stock grows only in a step that takes machines away.
THEOREM BoundStockIsRefund == Spec => BoundIsRefund
<1>1. EconomyInv /\ [Next]_vars => BoundFromMachines
    BY StockInvStep DEF EconomyInv, LoopInv
<1>2. EconomyInv /\ [Next]_vars
        => [(\E i \in Items : stock'.bound[i] > stock.bound[i])
              => \E p \in Pools, m \in Marks : installed'[p][m] < installed[p][m]]_vars
    BY <1>1 DEF BoundFromMachines
<1>3. QED
    BY <1>2, EconomyInvariant, PTL DEF Spec, BoundIsRefund

\* A tier is delivered only while the caps can hold what it costs.
THEOREM CapsGateTiers == Spec => CapsGateMilestones
<1>1. ASSUME EconomyInv, Deliver
      PROVE  \A i \in Items : Milestone[tier'][i] <= StorageCap(i) + QuantumCap(i)
    <2>1. /\ tier \in 0..MaxTier /\ tier < MaxTier /\ tier' = tier + 1
          /\ CanAffordLiquid(stock, Milestone[tier + 1])
        BY <1>1 DEF EconomyInv, StockInv, WorldType, Deliver, Deliverable
    <2>2. Milestone[tier + 1] \in Amounts
        BY <2>1, Naturals, Content
    <2>3. ASSUME NEW i \in Items
          PROVE  Milestone[tier + 1][i] <= StorageCap(i) + QuantumCap(i)
        <3>1. /\ stock.stored[i] \in Nat /\ stock.quantum[i] \in Nat
              /\ StorageCap(i) \in Nat /\ QuantumCap(i) \in Nat
              /\ stock.stored[i] <= StorageCap(i) /\ stock.quantum[i] <= QuantumCap(i)
            BY <1>1, CapsType
            DEF EconomyInv, StockInv, WorldType, Stocks, Amounts, StockWithinCaps
        <3>2. Milestone[tier + 1][i] \in Nat
              /\ Milestone[tier + 1][i] <= stock.stored[i] + stock.quantum[i]
            BY <2>1, <2>2 DEF CanAffordLiquid, Liquid, Amounts
        <3>3. QED
            BY <3>1, <3>2
    <2>4. QED
        BY <2>1, <2>3
<1>2. ASSUME EconomyInv, [Next]_vars, tier' # tier PROVE Deliver
    BY <1>2, TierRises DEF EconomyInv, StockInv
<1>3. EconomyInv /\ [Next]_vars
        => [tier' # tier => \A i \in Items :
              Milestone[tier'][i] <= StorageCap(i) + QuantumCap(i)]_vars
    BY <1>1, <1>2
<1>4. QED
    BY <1>3, EconomyInvariant, PTL DEF Spec, CapsGateMilestones

\* Every variable keeps its type, and the recipes of a pool never hold more machines
\* than it has, whatever the recipes, the costs and the order of the actions.
THEOREM PoolsAlwaysFit == Spec => []PoolsFit
<1>1. EconomyInv /\ PoolInv => PoolsFit
    BY DEF EconomyInv, StockInv, LoopInv, PoolInv, Assignments, PoolsFit, TypeOK
<1>2. QED
    BY <1>1, FactoryInvariant, PTL

\* Only recipes make or use up material: no order of purchases, upgrades, refunds,
\* deliveries and segments gains or loses any, at any costs, caps and rates.
THEOREM MaterialIsConserved == Spec => []NothingFromNothing
<1>1. Init => EconomyInv /\ MaterialInv
    BY StockInvInit, LoopInvInit, MaterialInvInit DEF EconomyInv
<1>2. EconomyInv /\ MaterialInv /\ [Next]_vars => EconomyInv' /\ MaterialInv'
    <2>. SUFFICES ASSUME EconomyInv, MaterialInv, [Next]_vars
                  PROVE  EconomyInv' /\ MaterialInv'
        OBVIOUS
    <2>1. EconomyInv'
        BY StockInvStep, LoopInvStep DEF EconomyInv, LoopInv
    <2>2. WorldType /\ StartTier <= tier
        BY DEF EconomyInv, StockInv, MaterialInv
    <2>3. \A i \in Items : Balanced(i)
        BY <2>2, EveryStepBalances
    <2>4. StartTier <= tier'
        <3>1. tier <= tier' /\ tier \in Nat /\ StartTier \in Nat /\ tier' \in Nat
            BY <2>1, <2>2, TierRises, Naturals, Start DEF EconomyInv, StockInv, WorldType
        <3>2. QED
            BY <2>2, <3>1
    <2>5. QED
        BY <2>1, <2>2, <2>3, <2>4, BalancedKeeps
<1>3. MaterialInv => NothingFromNothing
    BY DEF MaterialInv
<1>4. QED
    BY <1>1, <1>2, <1>3, PTL DEF Spec
=============================================================================
