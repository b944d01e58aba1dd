----------------------------- MODULE Fractions -----------------------------
(***************************************************************************)
(* Exact fractions, <<numerator, denominator>> in lowest terms.  They      *)
(* stand for the doubles that hold averages, gains and returns; rounding   *)
(* is left out.                                                            *)
(***************************************************************************)
EXTENDS Integers

Fraction == Int \X (Nat \ {0})

Magnitude(n) == IF n < 0 THEN -n ELSE n

\* Greatest common divisor, by Euclid.
Gcd[p \in Nat \X Nat] == IF p[2] = 0 THEN p[1] ELSE Gcd[<<p[2], p[1] % p[2]>>]

\* n / d for d # 0.
Ratio(n, d) ==
    LET g == Gcd[<<Magnitude(n), Magnitude(d)>>]
        sign == IF d < 0 THEN -1 ELSE 1
    IN  <<(sign * n) \div g, Magnitude(d) \div g>>

Whole(n) == <<n, 1>>
Plus(x, y) == Ratio(x[1] * y[2] + y[1] * x[2], x[2] * y[2])
Minus(x, y) == Plus(x, <<-y[1], y[2]>>)
Times(x, y) == Ratio(x[1] * y[1], x[2] * y[2])
Over(x, y) == Ratio(x[1] * y[2], x[2] * y[1])
LessThan(x, y) == x[1] * y[2] < y[1] * x[2]
Larger(x, y) == IF LessThan(x, y) THEN y ELSE x
=============================================================================
