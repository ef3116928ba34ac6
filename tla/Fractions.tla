------------------------------ MODULE Fractions ------------------------------
(* Exact fractions [n, d] in lowest terms, for what the code has in floats. *)
EXTENDS Integers

Abs(i) == IF i < 0 THEN -i ELSE i
Gcd[a \in Nat, b \in Nat] == IF b = 0 THEN a ELSE Gcd[b, a % b]
Fraction(n, d) ==
  LET Lowest(sign, g) == [n |-> sign * (n \div g), d |-> sign * (d \div g)]
  IN Lowest(IF d < 0 THEN -1 ELSE 1, Gcd[Abs(n), Abs(d)])
Whole(i) == [n |-> i, d |-> 1]
Plus(x, y) == Fraction(x.n * y.d + y.n * x.d, x.d * y.d)
Minus(x, y) == Fraction(x.n * y.d - y.n * x.d, x.d * y.d)
Times(x, y) == Fraction(x.n * y.n, x.d * y.d)
Over(x, y) == Fraction(x.n * y.d, x.d * y.n)
Less(x, y) == x.n * y.d < y.n * x.d
AtMost(x, y) == ~Less(y, x)
=============================================================================
