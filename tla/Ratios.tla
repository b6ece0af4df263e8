------------------------------- MODULE Ratios -------------------------------
(***************************************************************************)
(* Exact rational numbers, as packages/rational keeps them: <<n, d>> fully *)
(* reduced, d positive, zero as <<0, 1>>. Inf is the engine's Infinity, a  *)
(* bound that never binds: it is compared, never added or multiplied.      *)
(***************************************************************************)
EXTENDS Integers

RECURSIVE Gcd(_, _)
Gcd(a, b) == IF b = 0 THEN a ELSE Gcd(b, a % b)

Magnitude(n) == IF n < 0 THEN -n ELSE n

Reduced(n, d, g) == IF d < 0 THEN <<(-n) \div g, (-d) \div g>> ELSE <<n \div g, d \div g>>
MakeRational(n, d) == Reduced(n, d, Gcd(Magnitude(n), Magnitude(d)))

Zero == <<0, 1>>
One == <<1, 1>>
Inf == <<1, 0>>

\* Dividing by the common factors first keeps the products small.
Over(a, b, g) == MakeRational(a[1] * (b[2] \div g) + b[1] * (a[2] \div g), (a[2] \div g) * b[2])
Add(a, b) == IF a[1] = 0 THEN b ELSE IF b[1] = 0 THEN a ELSE Over(a, b, Gcd(a[2], b[2]))

Negate(a) == <<-a[1], a[2]>>
Subtract(a, b) == Add(a, Negate(b))

Product(x, y) == <<x[1] * y[1], x[2] * y[2]>>
Multiply(a, b) == IF a[1] = 0 \/ b[1] = 0 THEN Zero ELSE IF a = One THEN b ELSE IF b = One THEN a
                  ELSE Product(MakeRational(a[1], b[2]), MakeRational(b[1], a[2]))

Divide(a, b) == Multiply(a, MakeRational(b[2], b[1]))

AtMost(a, b) == a[1] * b[2] <= b[1] * a[2]
Below(a, b) == a[1] * b[2] < b[1] * a[2]

Lesser(a, b) == IF AtMost(a, b) THEN a ELSE b
Least(S) == CHOOSE x \in S : \A y \in S : AtMost(x, y)
=============================================================================
