--------------------------- MODULE AccountsProofs ---------------------------
(***************************************************************************)
(* Proofs about Accounts: what every fill was paid, whatever it did to the *)
(* position it met, is in the cash, the average prices and the gains of    *)
(* PositionManager; the equity of PnLTracker follows the marks, and the    *)
(* drawdown it reports is theirs; and MarkoutAnalyzer evaluates every fill *)
(* once per horizon.  Prices are exact fractions, so the module starts     *)
(* with their arithmetic.                                                  *)
(***************************************************************************)
EXTENDS Accounts, Fractions, SumTheorems

-----------------------------------------------------------------------------
(* Division                                                                *)

\* g divides n.
Divides(g, n) == \E k \in Int : n = g * k

\* Division of natural numbers with the rest.
LEMMA Remainder ==
    ASSUME NEW a \in Nat, NEW b \in Nat \ {0}
    PROVE  /\ a \div b \in Nat /\ a % b \in Nat /\ a % b < b
           /\ a = b * (a \div b) + (a % b)
  OBVIOUS

\* A product of integers is an integer.
LEMMA ProductIn == \A x, y \in Int : x * y \in Int
  OBVIOUS

\* A common factor taken out.
LEMMA TimesMinus ==
    ASSUME NEW g \in Int, NEW x \in Int, NEW y \in Int, NEW q \in Int
    PROVE  g * x - (g * y) * q = g * (x - y * q) /\ g * x + (g * y) * q = g * (x + y * q)
           /\ x - y * q \in Int /\ x + y * q \in Int
  OBVIOUS

\* Euclid's step keeps the common divisors.
LEMMA StepKeepsDivisors ==
    ASSUME NEW a \in Nat, NEW b \in Nat \ {0}, NEW g \in Nat
    PROVE  Divides(g, b) => (Divides(g, a) <=> Divides(g, a % b))
<1> SUFFICES ASSUME Divides(g, b)
             PROVE  Divides(g, a) <=> Divides(g, a % b)
  OBVIOUS
<1>1. PICK y \in Int : b = g * y
  BY DEF Divides
<1> DEFINE q == a \div b
           r == a % b
<1>2. q \in Int /\ r \in Int /\ a = b * q + r
  BY Remainder
<1> HIDE DEF q, r
<1>3. b * q \in Int
  BY <1>2
<1>4. ASSUME Divides(g, a)
      PROVE  Divides(g, r)
  <2>1. PICK x \in Int : a = g * x
    BY <1>4 DEF Divides
  <2>2. r = a - b * q
    BY <1>2, <1>3
  <2>3. r = g * (x - y * q) /\ x - y * q \in Int
    BY <1>1, <1>2, <2>1, <2>2, TimesMinus
  <2> QED
    BY <2>3 DEF Divides
<1>5. ASSUME Divides(g, r)
      PROVE  Divides(g, a)
  <2>1. PICK x \in Int : r = g * x
    BY <1>5 DEF Divides
  <2>2. a = g * x + (g * y) * q
    BY <1>1, <1>2, <1>3, <2>1
  <2>3. a = g * (x + y * q) /\ x + y * q \in Int
    BY <1>2, <2>1, <2>2, TimesMinus
  <2> QED
    BY <2>3 DEF Divides
<1>6. Divides(g, a) <=> Divides(g, r)
  BY <1>4, <1>5
<1> QED
  BY <1>6 DEF r

\* The common divisors of a pair.
Common(p) == { g \in Nat : Divides(g, p[1]) /\ Divides(g, p[2]) }

\* A number is known by its divisors.
LEMMA DivisorsTell ==
    ASSUME NEW a \in Nat, NEW b \in Nat, Common(<<a, 0>>) = Common(<<b, 0>>)
    PROVE  a = b
<1>1. \A g \in Nat : Divides(g, 0)
  BY DEF Divides
<1>2. \A g \in Nat : Divides(g, g)
  BY DEF Divides
<1>3. a \in Common(<<a, 0>>) /\ b \in Common(<<b, 0>>)
  BY <1>1, <1>2 DEF Common
<1>4. Divides(a, b) /\ Divides(b, a)
  BY <1>3 DEF Common
<1>5. PICK x \in Int : b = a * x
  BY <1>4 DEF Divides
<1>6. PICK y \in Int : a = b * y
  BY <1>4 DEF Divides
<1>7. CASE a = 0 \/ b = 0
  BY <1>5, <1>6, <1>7
<1>8. CASE a > 0 /\ b > 0
  <2>1. x >= 1 /\ y >= 1
    BY <1>5, <1>6, <1>8
  <2>2. b >= a /\ a >= b
    BY <1>5, <1>6, <1>8, <2>1
  <2> QED
    BY <2>2
<1> QED
  BY <1>7, <1>8

\* One round of Euclid's algorithm, and the function that Gcd is chosen to be.
GcdRound(g, p) == IF p[2] = 0 THEN p[1] ELSE g[<<p[2], p[1] % p[2]>>]
IsGcd(g) == g = [p \in Nat \X Nat |-> GcdRound(g, p)]

\* Euclid's recursion defines a function, by induction on the second number.
LEMMA GcdExists == \E g : IsGcd(g)
<1> DEFINE Of(S) == CHOOSE a \in Nat : Common(<<a, 0>>) = S
           g == [p \in Nat \X Nat |-> Of(Common(p))]
<1>1. ASSUME NEW p \in Nat \X Nat
      PROVE  Of(Common(p)) = GcdRound(g, p)
  <2>1. p[1] \in Nat /\ p[2] \in Nat /\ p = <<p[1], p[2]>>
    OBVIOUS
  <2>2. CASE p[2] = 0
    <3>1. p[1] \in Nat /\ Common(<<p[1], 0>>) = Common(p)
      BY <2>1, <2>2
    <3>2. \A a \in Nat : Common(<<a, 0>>) = Common(p) => a = p[1]
      BY <3>1, DivisorsTell
    <3>3. Of(Common(p)) = p[1]
      BY <3>1, <3>2
    <3> HIDE DEF Of
    <3> QED
      BY <2>2, <3>3 DEF GcdRound
  <2>3. CASE p[2] # 0
    <3> DEFINE r == <<p[2], p[1] % p[2]>>
    <3>1. r \in Nat \X Nat
      BY <2>1, <2>3, Remainder
    <3>2. Common(r) = Common(p)
      <4>1. \A k \in Nat : Divides(k, p[2]) => (Divides(k, p[1]) <=> Divides(k, p[1] % p[2]))
        BY <2>1, <2>3, StepKeepsDivisors
      <4>2. r[1] = p[2] /\ r[2] = p[1] % p[2]
        OBVIOUS
      <4> HIDE DEF r
      <4> QED
        BY <4>1, <4>2 DEF Common
    <3>3. g[r] = Of(Common(r))
      BY <3>1
    <3> HIDE DEF Of, g
    <3> QED
      BY <2>3, <3>2, <3>3 DEF GcdRound
  <2> QED
    BY <2>2, <2>3
<1>2. IsGcd(g)
  BY <1>1 DEF IsGcd
<1> QED
  BY <1>2

\* Gcd satisfies its recursion (the model's exact arithmetic for the double prices).
LEMMA GcdAt ==
    ASSUME NEW a \in Nat, NEW b \in Nat
    PROVE  Gcd[<<a, b>>] = IF b = 0 THEN a ELSE Gcd[<<b, a % b>>]
<1>1. Gcd = CHOOSE g : g = [p \in Nat \X Nat |-> GcdRound(g, p)]
  BY DEF Gcd, GcdRound
<1>2. Gcd = [p \in Nat \X Nat |-> GcdRound(Gcd, p)]
  BY <1>1, GcdExists DEF IsGcd
<1>3. <<a, b>> \in Nat \X Nat
  OBVIOUS
<1>4. Gcd[<<a, b>>] = GcdRound(Gcd, <<a, b>>)
  BY <1>2, <1>3
<1> QED
  BY <1>4 DEF GcdRound

-----------------------------------------------------------------------------
(* The greatest common divisor divides                                     *)

\* Gcd divides both numbers, and is 0 only for two zeros.
LEMMA GcdFacts ==
    ASSUME NEW a \in Nat, NEW b \in Nat
    PROVE  /\ Gcd[<<a, b>>] \in Nat
           /\ Divides(Gcd[<<a, b>>], a) /\ Divides(Gcd[<<a, b>>], b)
           /\ b # 0 => Gcd[<<a, b>>] # 0
<1> DEFINE Fine(x, y) == /\ Gcd[<<x, y>>] \in Nat
                         /\ Divides(Gcd[<<x, y>>], x) /\ Divides(Gcd[<<x, y>>], y)
                         /\ (x # 0 \/ y # 0) => Gcd[<<x, y>>] # 0
           Good == { n \in Nat : \A y \in 0 .. n : \A x \in Nat : Fine(x, y) }
<1>1. ASSUME NEW x \in Nat
      PROVE  Fine(x, 0)
  <2>1. Gcd[<<x, 0>>] = x
    BY GcdAt
  <2>2. Divides(x, x) /\ Divides(x, 0)
    BY DEF Divides
  <2> QED
    BY <2>1, <2>2
<1>2. ASSUME NEW x \in Nat, NEW y \in Nat \ {0}, Fine(y, x % y)
      PROVE  Fine(x, y)
  <2>1. Gcd[<<x, y>>] = Gcd[<<y, x % y>>]
    BY GcdAt
  <2>2. Divides(Gcd[<<x, y>>], x)
    BY <1>2, <2>1, StepKeepsDivisors
  <2> QED
    BY <1>2, <2>1, <2>2
<1> HIDE DEF Fine
<1>3. 0 \in Good
  BY <1>1
<1>4. ASSUME NEW n \in Nat, n \in Good
      PROVE  n + 1 \in Good
  <2>1. ASSUME NEW x \in Nat
        PROVE  Fine(x, n + 1)
    <3>1. x % (n + 1) \in 0 .. n
      BY Remainder
    <3>2. Fine(n + 1, x % (n + 1))
      BY <1>4, <3>1
    <3> QED
      BY <1>2, <3>2
  <2>2. \A y \in 0 .. n + 1 : y \in 0 .. n \/ y = n + 1
    OBVIOUS
  <2> QED
    BY <1>4, <2>1, <2>2
<1>5. b \in Good
  <2> HIDE DEF Good
  <2> QED
    BY <1>3, <1>4, NatSetInduction
<1>6. Fine(a, b)
  BY <1>5
<1> QED
  BY <1>6 DEF Fine

-----------------------------------------------------------------------------
(* Fractions                                                               *)

\* The fraction x is n / d.
Is(x, n, d) ==
    /\ x \in Fraction /\ n \in Int /\ d \in Nat \ {0}
    /\ x[1] * d = n * x[2]

\* A division without a rest.
LEMMA DivExact ==
    ASSUME NEW g \in Nat \ {0}, NEW k \in Int
    PROVE  (g * k) \div g = k
  OBVIOUS

\* The magnitude of a number and its sign.
LEMMA MagnitudeFacts ==
    ASSUME NEW n \in Int
    PROVE  Magnitude(n) \in Nat /\ (n >= 0 => Magnitude(n) = n) /\ (n < 0 => Magnitude(n) = -n)
  BY DEF Magnitude

\* What divides the magnitude divides the number.
LEMMA DivisorOfMagnitude ==
    ASSUME NEW g \in Nat, NEW n \in Int, Divides(g, Magnitude(n))
    PROVE  Divides(g, n)
<1>1. PICK k \in Int : Magnitude(n) = g * k
  BY DEF Divides
<1>2. n = g * k \/ n = g * (-k)
  BY <1>1, MagnitudeFacts
<1>3. -k \in Int
  OBVIOUS
<1> QED
  BY <1>2, <1>3 DEF Divides

\* A factor moved from one number to the other.
LEMMA CrossProduct ==
    ASSUME NEW g \in Int, NEW k \in Int, NEW m \in Int
    PROVE  k * (g * m) = (g * k) * m
  OBVIOUS

\* Reduced to lowest terms, a fraction is the same fraction.
LEMMA RatioIs ==
    ASSUME NEW n \in Int, NEW d \in Nat \ {0}
    PROVE  Is(Ratio(n, d), n, d)
<1> DEFINE g == Gcd[<<Magnitude(n), d>>]
<1>1. Magnitude(n) \in Nat /\ Magnitude(d) = d
  BY MagnitudeFacts
<1>2. g \in Nat /\ Divides(g, n) /\ Divides(g, d) /\ g # 0
  BY <1>1, GcdFacts, DivisorOfMagnitude
<1>3. Ratio(n, d) = <<n \div g, d \div g>>
  <2>1. Ratio(n, d) = <<(1 * n) \div g, d \div g>>
    BY <1>1 DEF Ratio
  <2> HIDE DEF g
  <2> QED
    BY <2>1
<1> HIDE DEF g
<1>4. PICK k \in Int : n = g * k
  BY <1>2 DEF Divides
<1>5. PICK m \in Int : d = g * m
  BY <1>2 DEF Divides
<1>6. m > 0
  BY <1>2, <1>5
<1>7. Ratio(n, d) = <<k, m>>
  BY <1>2, <1>3, <1>4, <1>5, DivExact
<1>8. k * d = n * m
  BY <1>2, <1>4, <1>5, CrossProduct
<1> QED
  BY <1>6, <1>7, <1>8 DEF Is, Fraction

\* A common factor cancels.
LEMMA Cancel ==
    ASSUME NEW m \in Nat \ {0}, NEW u \in Int, NEW v \in Int, m * u = m * v
    PROVE  u = v
  OBVIOUS

\* The same fraction in other terms.
LEMMA IsOther ==
    ASSUME NEW x, NEW n, NEW m, Is(x, n, m), NEW c \in Int, NEW d \in Nat \ {0}, n * d = c * m
    PROVE  Is(x, c, d)
<1>1. /\ x \in Fraction /\ x[1] \in Int /\ x[2] \in Nat \ {0}
      /\ n \in Int /\ m \in Nat \ {0} /\ x[1] * m = n * x[2]
  BY DEF Is, Fraction
<1> DEFINE p == x[1]
           q == x[2]
<1>2. p \in Int /\ q \in Int
  BY <1>1
<1>3. p * m = n * q
  BY <1>1
<1> HIDE DEF p, q
<1>4. m * (p * d) = (p * m) * d
  BY <1>1, <1>2
<1>5. (n * q) * d = (n * d) * q
  BY <1>1, <1>2
<1>6. (c * m) * q = m * (c * q)
  BY <1>1, <1>2
<1>7. m * (p * d) = m * (c * q)
  BY <1>3, <1>4, <1>5, <1>6
<1>8. p * d \in Int /\ c * q \in Int
  BY <1>2
<1>9. p * d = c * q
  BY <1>1, <1>7, <1>8, Cancel
<1> QED
  BY <1>1, <1>9 DEF Is, p, q

\* Ratio gives the fraction in any terms.
LEMMA RatioIsOther ==
    ASSUME NEW n \in Int, NEW m \in Nat \ {0}, NEW c \in Int, NEW d \in Nat \ {0}, n * d = c * m
    PROVE  Is(Ratio(n, m), c, d)
  BY RatioIs, IsOther

\* A fraction scaled up.
LEMMA IsScaled ==
    ASSUME NEW x, NEW n, NEW d, Is(x, n, d), NEW k \in Nat \ {0}
    PROVE  Is(x, n * k, d * k)
<1>1. n \in Int /\ d \in Nat \ {0}
  BY DEF Is
<1>2. n * k \in Int /\ d * k \in Nat \ {0} /\ n * (d * k) = (n * k) * d
  BY <1>1
<1> QED
  BY <1>2, IsOther

-----------------------------------------------------------------------------
(* The operations of fractions                                             *)

\* A product of positive numbers is positive.
LEMMA PositiveProduct == \A m, n \in Nat \ {0} : m * n \in Nat \ {0}
  OBVIOUS

\* The types of a fraction's terms.
LEMMA IsParts ==
    ASSUME NEW x, NEW n, NEW d, Is(x, n, d)
    PROVE  /\ x \in Fraction /\ x[1] \in Int /\ x[2] \in Int /\ x[2] \in Nat \ {0}
           /\ n \in Int /\ d \in Int /\ d \in Nat \ {0} /\ x[1] * d = n * x[2]
  BY DEF Is, Fraction

\* A whole number over any denominator.
LEMMA WholeIs ==
    ASSUME NEW k \in Int, NEW d \in Nat \ {0}
    PROVE  Is(Whole(k), k * d, d)
<1>1. Whole(k)[1] = k /\ Whole(k)[2] = 1 /\ Whole(k) \in Fraction
  BY DEF Whole, Fraction
<1>2. k * d \in Int /\ (k * d) * 1 = k * d
  OBVIOUS
<1> QED
  BY <1>1, <1>2 DEF Is

\* Cross multiplication of a sum.
LEMMA PlusArithmetic ==
    ASSUME NEW p \in Int, NEW q \in Int, NEW r \in Int, NEW s \in Int,
           NEW a \in Int, NEW b \in Int, NEW d \in Int,
           p * d = a * q, r * d = b * s
    PROVE  (p * s + r * q) * d = (a + b) * (q * s)
<1>1. (p * s + r * q) * d = (p * d) * s + (r * d) * q
  OBVIOUS
<1>2. (a * q) * s + (b * s) * q = (a + b) * (q * s)
  OBVIOUS
<1> QED
  BY <1>1, <1>2

\* The sum of two fractions over one denominator.
LEMMA PlusIs ==
    ASSUME NEW x, NEW y, NEW a, NEW b, NEW d, Is(x, a, d), Is(y, b, d)
    PROVE  Is(Plus(x, y), a + b, d)
<1> DEFINE p == x[1]
           q == x[2]
           r == y[1]
           s == y[2]
<1>1. /\ p \in Int /\ q \in Int /\ q \in Nat \ {0} /\ r \in Int /\ s \in Int /\ s \in Nat \ {0}
      /\ a \in Int /\ b \in Int /\ d \in Int /\ d \in Nat \ {0}
      /\ p * d = a * q /\ r * d = b * s
  BY IsParts
<1>2. Plus(x, y) = Ratio(p * s + r * q, q * s)
  BY DEF Plus
<1> HIDE DEF p, q, r, s
<1>3. (p * s + r * q) * d = (a + b) * (q * s)
  BY <1>1, PlusArithmetic
<1>4. p * s + r * q \in Int /\ q * s \in Nat \ {0} /\ a + b \in Int
  BY <1>1, ProductIn, PositiveProduct
<1> QED
  BY <1>1, <1>2, <1>3, <1>4, RatioIsOther

\* Their difference.
LEMMA MinusIs ==
    ASSUME NEW x, NEW y, NEW a, NEW b, NEW d, Is(x, a, d), Is(y, b, d)
    PROVE  Is(Minus(x, y), a - b, d)
<1> DEFINE z == <<-y[1], y[2]>>
<1>1. /\ y[1] \in Int /\ y[2] \in Nat \ {0} /\ y[2] \in Int
      /\ a \in Int /\ b \in Int /\ d \in Int /\ d \in Nat \ {0} /\ y[1] * d = b * y[2]
  BY IsParts
<1>2. z \in Fraction /\ z[1] = -y[1] /\ z[2] = y[2]
  BY <1>1 DEF Fraction
<1>3. (-y[1]) * d = (-b) * y[2] /\ -b \in Int
  <2> DEFINE p == y[1]
             q == y[2]
  <2>1. p \in Int /\ q \in Int /\ p * d = b * q
    BY <1>1
  <2> HIDE DEF p, q
  <2>2. (-p) * d = -(p * d) /\ (-b) * q = -(b * q) /\ -b \in Int
    BY <1>1, <2>1
  <2>3. (-p) * d = (-b) * q
    BY <2>1, <2>2
  <2> QED
    BY <2>2, <2>3 DEF p, q
<1>4. Is(z, -b, d)
  BY <1>1, <1>2, <1>3 DEF Is
<1>5. Minus(x, y) = Plus(x, z)
  BY DEF Minus
<1> HIDE DEF z
<1>6. Is(Plus(x, z), a + (-b), d)
  BY <1>4, PlusIs
<1>7. a + (-b) = a - b
  BY <1>1
<1> QED
  BY <1>5, <1>6, <1>7

\* A whole multiple of a fraction.
LEMMA TimesIs ==
    ASSUME NEW x, NEW a, NEW d, Is(x, a, d), NEW k \in Int
    PROVE  Is(Times(x, Whole(k)), a * k, d)
<1> DEFINE p == x[1]
           q == x[2]
<1>1. /\ p \in Int /\ q \in Int /\ q \in Nat \ {0}
      /\ a \in Int /\ d \in Int /\ d \in Nat \ {0} /\ p * d = a * q
  BY IsParts
<1>2. Times(x, Whole(k)) = Ratio(p * k, q * 1)
  BY DEF Times, Whole
<1> HIDE DEF p, q
<1>3. q * 1 = q /\ p * k \in Int /\ a * k \in Int
  BY <1>1
<1>4. (p * k) * d = (a * k) * q
  <2>1. (p * k) * d = (p * d) * k /\ (a * q) * k = (a * k) * q
    BY <1>1
  <2> QED
    BY <1>1, <2>1
<1> QED
  BY <1>1, <1>2, <1>3, <1>4, RatioIsOther

\* A fraction divided by a whole number.
LEMMA OverIs ==
    ASSUME NEW x, NEW a, NEW d, Is(x, a, d), NEW k \in Nat \ {0}
    PROVE  Is(Over(x, Whole(k)), a, d * k)
<1> DEFINE p == x[1]
           q == x[2]
<1>1. /\ p \in Int /\ q \in Int /\ q \in Nat \ {0}
      /\ a \in Int /\ d \in Int /\ d \in Nat \ {0} /\ p * d = a * q
  BY IsParts
<1>2. Over(x, Whole(k)) = Ratio(p * 1, q * k)
  BY DEF Over, Whole
<1> HIDE DEF p, q
<1>3. p * 1 = p /\ q * k \in Nat \ {0} /\ d * k \in Nat \ {0}
  BY <1>1, PositiveProduct
<1>4. p * (d * k) = a * (q * k)
  <2>1. p * (d * k) = (p * d) * k /\ (a * q) * k = a * (q * k)
    BY <1>1
  <2> QED
    BY <1>1, <2>1
<1> QED
  BY <1>1, <1>2, <1>3, <1>4, RatioIsOther

\* A sum that comes out whole.
LEMMA RatioWhole ==
    ASSUME NEW k \in Int, NEW m \in Nat \ {0}
    PROVE  Ratio(k * m, m) = Whole(k)
<1>1. k * m \in Int
  OBVIOUS
<1> DEFINE n == Magnitude(k * m)
           g == Gcd[<<n, m>>]
<1>2. n \in Nat /\ Magnitude(m) = m /\ Magnitude(k) \in Nat
  BY <1>1, MagnitudeFacts
<1>3. n = m * Magnitude(k)
  BY DEF Magnitude
<1> HIDE DEF n
<1>4. n % m = 0
  <2>1. n = m * (n \div m) + (n % m) /\ n % m \in Nat
    BY <1>2, Remainder
  <2>2. n \div m = Magnitude(k)
    BY <1>2, <1>3, DivExact
  <2>3. n = n + (n % m)
    BY <1>3, <2>1, <2>2
  <2> QED
    BY <1>2, <2>1, <2>3
<1>5. g = m
  <2>1. Gcd[<<n, m>>] = Gcd[<<m, n % m>>]
    BY <1>2, GcdAt
  <2>2. Gcd[<<m, 0>>] = m
    BY GcdAt
  <2> QED
    BY <1>4, <2>1, <2>2
<1>6. Ratio(k * m, m) = <<(1 * (k * m)) \div m, m \div m>>
  BY <1>2, <1>5 DEF Ratio, n
<1>7. 1 * (k * m) = m * k /\ m = m * 1
  OBVIOUS
<1>8. (m * k) \div m = k /\ m \div m = 1
  BY <1>7, DivExact
<1> QED
  BY <1>6, <1>7, <1>8 DEF Whole

\* Two fractions whose numerators add up to a multiple of the denominator have a whole sum.
LEMMA WholeSum ==
    ASSUME NEW x, NEW y, NEW a, NEW b, NEW d, Is(x, a, d), Is(y, b, d),
           NEW k \in Int, a + b = k * d
    PROVE  Plus(x, y) = Whole(k)
<1> DEFINE p == x[1]
           q == x[2]
           r == y[1]
           s == y[2]
<1>1. /\ p \in Int /\ q \in Int /\ q \in Nat \ {0} /\ r \in Int /\ s \in Int /\ s \in Nat \ {0}
      /\ a \in Int /\ b \in Int /\ d \in Int /\ d \in Nat \ {0}
      /\ p * d = a * q /\ r * d = b * s
  BY IsParts
<1>2. Plus(x, y) = Ratio(p * s + r * q, q * s)
  BY DEF Plus
<1> HIDE DEF p, q, r, s
<1>3. (p * s + r * q) * d = (a + b) * (q * s)
  BY <1>1, PlusArithmetic
<1>4. p * s + r * q \in Int /\ q * s \in Nat \ {0}
  BY <1>1, ProductIn, PositiveProduct
<1> DEFINE m == q * s
           n == p * s + r * q
<1>5. n \in Int /\ m \in Int /\ m \in Nat \ {0} /\ n * d = (k * d) * m
  BY <1>3, <1>4
<1>6. Plus(x, y) = Ratio(n, m)
  BY <1>2
<1> HIDE DEF m, n
<1>7. d * n = d * (k * m) /\ k * m \in Int
  <2>1. n * d = d * n /\ (k * d) * m = d * (k * m) /\ k * m \in Int
    BY <1>1, <1>5
  <2> QED
    BY <1>5, <2>1
<1>8. n = k * m
  BY <1>1, <1>5, <1>7, Cancel
<1> QED
  BY <1>5, <1>6, <1>8, RatioWhole

-----------------------------------------------------------------------------
(* The fractions of the positions                                          *)

\* The fractions of PositionManager's instance are those of Fractions: Gcd,
LEMMA HoldingsGcd == Holdings!Gcd = Gcd
  BY DEF Holdings!Gcd, Gcd

\* Ratio,
LEMMA HoldingsRatio == \A n, d : Holdings!Ratio(n, d) = Ratio(n, d)
  BY HoldingsGcd DEF Holdings!Ratio, Holdings!Magnitude, Ratio, Magnitude

\* and the operations.
LEMMA HoldingsFractions ==
    /\ Holdings!Fraction = Fraction
    /\ \A n : Holdings!Whole(n) = Whole(n) /\ Holdings!Magnitude(n) = Magnitude(n)
    /\ \A x, y : /\ Holdings!Plus(x, y) = Plus(x, y)
                 /\ Holdings!Minus(x, y) = Minus(x, y)
                 /\ Holdings!Times(x, y) = Times(x, y)
                 /\ Holdings!Over(x, y) = Over(x, y)
  BY HoldingsRatio DEF Holdings!Fraction, Fraction, Holdings!Whole, Whole, Holdings!Magnitude, Magnitude,
     Holdings!Plus, Plus, Holdings!Minus, Minus, Holdings!Times, Times, Holdings!Over, Over

-----------------------------------------------------------------------------
(* One position                                                            *)

\* The average a / d and the realized gain r / d of what was bought for S.
Split(p, S, a, r, d) ==
    /\ Is(p.avg_entry_price, a, d) /\ Is(p.realized_pnl, r, d)
    /\ r = a * p.quantity - S * d

Carried(p, S) == \E d \in Nat \ {0} : \E a, r \in Int : Split(p, S, a, r, d)

\* The market value and the unrealized gain at the last price.
WellValued(p) ==
    /\ p.market_value = p.last_price * p.quantity
    /\ \A a, d : Is(p.avg_entry_price, a, d)
                 => Is(p.unrealized_pnl, p.market_value * d - a * p.quantity, d)

\* A position that accounts for the S paid for it and is valued at its last price.
Kept(p, S) == p \in Holdings!Position /\ Carried(p, S) /\ WellValued(p)

\* The types of a position's fields.
LEMMA PositionParts ==
    ASSUME NEW p \in Holdings!Position
    PROVE  /\ p.quantity \in Int /\ p.last_price \in Nat /\ p.market_value \in Int
           /\ p.avg_entry_price \in Fraction /\ p.realized_pnl \in Fraction
           /\ p.unrealized_pnl \in Fraction
  BY HoldingsFractions DEF Holdings!Position

\* A whole number is a fraction.
LEMMA WholeFraction == \A n \in Int : Whole(n) \in Fraction
  BY DEF Whole, Fraction

\* A fraction in its own terms.
LEMMA FractionIs ==
    ASSUME NEW x \in Fraction
    PROVE  Is(x, x[1], x[2])
<1>1. x[1] \in Int /\ x[2] \in Nat \ {0}
  BY DEF Fraction
<1> QED
  BY <1>1 DEF Is

\* Is speaks of fractions only.
LEMMA IsFraction ==
    ASSUME NEW x, NEW n, NEW d, Is(x, n, d)
    PROVE  x \in Fraction
  BY DEF Is

\* Nothing over any denominator.
LEMMA ZeroIs ==
    ASSUME NEW d \in Nat \ {0}
    PROVE  Is(Whole(0), 0, d)
<1>1. 0 * d = 0
  OBVIOUS
<1> QED
  BY <1>1, WholeIs

\* A position created by get_or_create_position has cost nothing.
LEMMA NewPositionKept == Kept(Holdings!NewPosition, 0)
<1> DEFINE p == Holdings!NewPosition
<1>1. /\ p.quantity = 0 /\ p.avg_entry_price = Whole(0) /\ p.realized_pnl = Whole(0)
      /\ p.unrealized_pnl = Whole(0) /\ p.market_value = 0 /\ p.last_price = 0
  BY HoldingsFractions DEF Holdings!NewPosition
<1>2. p \in Holdings!Position
  BY WholeFraction, HoldingsFractions DEF Holdings!NewPosition, Holdings!Position
<1> HIDE DEF p
<1>3. Split(p, 0, 0, 0, 1)
  BY <1>1, ZeroIs DEF Split
<1>4. Carried(p, 0)
  BY <1>3 DEF Carried
<1>5. WellValued(p)
  <2> SUFFICES ASSUME NEW a, NEW d, Is(p.avg_entry_price, a, d)
               PROVE  Is(p.unrealized_pnl, p.market_value * d - a * p.quantity, d)
    BY <1>1 DEF WellValued
  <2>1. a \in Int /\ d \in Nat \ {0}
    BY IsParts
  <2>2. p.market_value * d - a * p.quantity = 0
    BY <1>1, <2>1
  <2> QED
    BY <1>1, <2>1, <2>2, ZeroIs
<1> QED
  BY <1>2, <1>4, <1>5 DEF Kept, p

\* A position without its valuation.
Traded(p, S) == p \in Holdings!Position /\ Carried(p, S)

\* update_unrealized values a position at the new price and keeps what was paid.
LEMMA UpdateKept ==
    ASSUME NEW p, NEW S \in Int, Traded(p, S), NEW price \in Nat
    PROVE  /\ Kept(Holdings!UpdateUnrealized(p, price), S)
           /\ Holdings!UpdateUnrealized(p, price).quantity = p.quantity
           /\ Holdings!UpdateUnrealized(p, price).last_price = price
<1> DEFINE u == Holdings!UpdateUnrealized(p, price)
           value == price * p.quantity
           open == Minus(Whole(value), Times(p.avg_entry_price, Whole(p.quantity)))
<1>1. /\ p \in Holdings!Position /\ Carried(p, S)
      /\ p.quantity \in Int /\ p.avg_entry_price \in Fraction /\ value \in Int
  BY PositionParts, ProductIn DEF Traded
<1>2. /\ u.quantity = p.quantity /\ u.last_price = price /\ u.market_value = value
      /\ u.avg_entry_price = p.avg_entry_price /\ u.realized_pnl = p.realized_pnl
      /\ u.unrealized_pnl = IF p.quantity = 0 THEN Whole(0) ELSE open
  BY <1>1, HoldingsFractions DEF Holdings!UpdateUnrealized, Holdings!IsFlat, Holdings!Position
<1>3. ASSUME NEW a, NEW d, Is(p.avg_entry_price, a, d)
      PROVE  Is(u.unrealized_pnl, value * d - a * p.quantity, d)
  <2>1. a \in Int /\ d \in Nat \ {0}
    BY <1>3, IsParts
  <2>2. CASE p.quantity = 0
    <3>1. value * d - a * p.quantity = 0
      BY <2>1, <2>2
    <3> QED
      BY <1>2, <2>1, <2>2, <3>1, ZeroIs
  <2>3. CASE p.quantity # 0
    <3>1. Is(Whole(value), value * d, d)
      BY <1>1, <2>1, WholeIs
    <3>2. Is(Times(p.avg_entry_price, Whole(p.quantity)), a * p.quantity, d)
      BY <1>1, <1>3, TimesIs
    <3>3. Is(open, value * d - a * p.quantity, d)
      BY <3>1, <3>2, MinusIs
    <3> QED
      BY <1>2, <2>3, <3>3
  <2> QED
    BY <2>2, <2>3
<1>4. u \in Holdings!Position
  <2>1. u.unrealized_pnl \in Fraction
    BY <1>1, <1>3, FractionIs, IsFraction
  <2>2. u = [p EXCEPT !.last_price = price, !.market_value = value, !.unrealized_pnl = u.unrealized_pnl]
    BY <1>1, HoldingsFractions DEF Holdings!UpdateUnrealized, Holdings!Position
  <2> HIDE DEF u, value
  <2> QED
    BY <1>1, <2>1, <2>2, HoldingsFractions DEF Holdings!Position
<1> HIDE DEF u, value
<1>5. Carried(u, S)
  BY <1>1, <1>2 DEF Carried, Split
<1>6. WellValued(u)
  BY <1>1, <1>2, <1>3 DEF WellValued, value
<1> QED
  BY <1>2, <1>4, <1>5, <1>6 DEF Kept, u

-----------------------------------------------------------------------------
(* Closing                                                                 *)

\* A fill's signed quantity.
LEMMA SignedFacts ==
    ASSUME NEW side \in {"Buy", "Sell"}, NEW qty \in Nat \ {0}
    PROVE  /\ Holdings!Signed(side, qty) \in Int
           /\ side = "Buy" => Holdings!Signed(side, qty) = qty
           /\ side = "Sell" => Holdings!Signed(side, qty) = -qty
  BY DEF Holdings!Signed

\* What closing c of the position earns at the price.
LEMMA GainIs ==
    ASSUME NEW p, NEW a, NEW d, Is(p.avg_entry_price, a, d), p.quantity \in Int,
           NEW qty \in Nat \ {0}, NEW price \in Nat,
           NEW c \in Int,
           c = (LET m == IF qty < Magnitude(p.quantity) THEN qty ELSE Magnitude(p.quantity)
                IN  IF p.quantity > 0 THEN m ELSE -m)
    PROVE  Is(Holdings!Gain(p, qty, price), (price * d - a) * c, d)
<1>1. Holdings!Gain(p, qty, price) = Times(Minus(Whole(price), p.avg_entry_price), Whole(c))
  BY HoldingsFractions DEF Holdings!Gain, Holdings!IsLong
<1>2. d \in Nat \ {0}
  BY IsParts
<1>3. Is(Whole(price), price * d, d)
  BY <1>2, WholeIs
<1>4. Is(Minus(Whole(price), p.avg_entry_price), price * d - a, d)
  BY <1>3, MinusIs
<1> QED
  BY <1>1, <1>4, TimesIs

\* The fields reduce_position leaves: what is closed earns its gain, what is left keeps the
\* average, or starts again at the price when the fill crossed zero.
LEMMA ReduceParts ==
    ASSUME NEW p \in Holdings!Position, NEW side \in {"Buy", "Sell"}, NEW qty \in Nat \ {0},
           NEW price \in Nat, Holdings!IsReducing(p, side)
    PROVE  LET left == p.quantity + Holdings!Signed(side, qty)
               u == Holdings!Reduce(p, side, qty, price)
               gain == Holdings!Gain(p, qty, price)
           IN  /\ u.quantity = left
               /\ u.realized_pnl = Plus(p.realized_pnl, gain)
               /\ \E c \in Int :
                     /\ c = LET m == IF qty < Magnitude(p.quantity) THEN qty ELSE Magnitude(p.quantity)
                            IN  IF p.quantity > 0 THEN m ELSE -m
                     /\ \/ /\ u.avg_entry_price = p.avg_entry_price
                           /\ c = -Holdings!Signed(side, qty)
                        \/ /\ u.avg_entry_price = IF left # 0 THEN Whole(price) ELSE Whole(0)
                           /\ c = p.quantity
<1> DEFINE q == p.quantity
           s == Holdings!Signed(side, qty)
           left == q + s
           u == Holdings!Reduce(p, side, qty, price)
           crossed == (q > 0 /\ left <= 0) \/ (q < 0 /\ left >= 0)
           m == IF qty < Magnitude(q) THEN qty ELSE Magnitude(q)
           c == IF q > 0 THEN m ELSE -m
<1>1. q \in Int /\ s \in Int
  BY PositionParts, SignedFacts
<1>2. /\ u.quantity = left
      /\ u.realized_pnl = Plus(p.realized_pnl, Holdings!Gain(p, qty, price))
      /\ u.avg_entry_price = IF ~crossed THEN p.avg_entry_price
                             ELSE IF left # 0 THEN Whole(price) ELSE Whole(0)
  BY <1>1, HoldingsFractions DEF Holdings!Reduce, Holdings!Position, Holdings!IsLong, Holdings!IsShort
<1>3. (q > 0 /\ s = -qty) \/ (q < 0 /\ s = qty)
  BY SignedFacts DEF Holdings!IsReducing, Holdings!IsLong, Holdings!IsShort
<1>4. c \in Int /\ (crossed => c = q) /\ (~crossed => c = -s)
  <2>1. /\ Magnitude(q) \in Nat /\ (q >= 0 => Magnitude(q) = q) /\ (q < 0 => Magnitude(q) = -q)
    BY <1>1, MagnitudeFacts
  <2> HIDE DEF q, s
  <2> QED
    BY <1>1, <1>3, <2>1
<1> HIDE DEF u, crossed, left
<1>5. \/ u.avg_entry_price = p.avg_entry_price /\ c = -s
      \/ u.avg_entry_price = (IF left # 0 THEN Whole(price) ELSE Whole(0)) /\ c = q
  BY <1>2, <1>4
<1> QED
  BY <1>2, <1>4, <1>5 DEF u, left

\* r + (v - a) c = a (q - c) - (S - P c) d for v = P d.
LEMMA ReduceArithmetic ==
    ASSUME NEW a \in Int, NEW r \in Int, NEW d \in Int, NEW q \in Int, NEW S \in Int,
           NEW c \in Int, NEW P \in Int, r = a * q - S * d
    PROVE  r + (P * d - a) * c = a * (q - c) - (S - P * c) * d
<1>1. (P * d - a) * c = (P * c) * d - a * c
  OBVIOUS
<1>2. a * (q - c) = a * q - a * c /\ (S - P * c) * d = S * d - (P * c) * d
  OBVIOUS
<1>3. a * c \in Int /\ a * q \in Int /\ S * d \in Int /\ (P * c) * d \in Int
  OBVIOUS
<1> QED
  BY <1>1, <1>2, <1>3

\* What is left of a position closed at a is carried at P.
LEMMA CrossArithmetic ==
    ASSUME NEW a \in Int, NEW r \in Int, NEW d \in Int, NEW q \in Int, NEW S \in Int,
           NEW s \in Int, NEW P \in Int, r = a * q - S * d
    PROVE  r + (P * d - a) * q = (P * d) * (q + s) - (S + P * s) * d
<1>1. (P * d - a) * q = (P * q) * d - a * q
  OBVIOUS
<1>2. (P * d) * (q + s) = (P * q) * d + (P * s) * d /\ (S + P * s) * d = S * d + (P * s) * d
  OBVIOUS
<1>3. a * q \in Int /\ S * d \in Int /\ (P * q) * d \in Int /\ (P * s) * d \in Int
  OBVIOUS
<1> QED
  BY <1>1, <1>2, <1>3

\* reduce_position keeps what was paid, whether it closes a part, all or crosses zero.
LEMMA ReduceKept ==
    ASSUME NEW p, NEW S \in Int, Traded(p, S), NEW side \in {"Buy", "Sell"},
           NEW qty \in Nat \ {0}, NEW price \in Nat, Holdings!IsReducing(p, side)
    PROVE  LET u == Holdings!Reduce(p, side, qty, price)
               s == Holdings!Signed(side, qty)
           IN  Traded(u, S + price * s) /\ u.quantity = p.quantity + s
<1> DEFINE q == p.quantity
           s == Holdings!Signed(side, qty)
           left == q + s
           u == Holdings!Reduce(p, side, qty, price)
           gain == Holdings!Gain(p, qty, price)
<1>1. p \in Holdings!Position /\ Carried(p, S)
  BY DEF Traded
<1>2. q \in Int /\ s \in Int /\ left \in Int /\ price \in Int
  BY <1>1, PositionParts, SignedFacts
<1>3. PICK d \in Nat \ {0} : \E a, r \in Int : Split(p, S, a, r, d)
  BY <1>1 DEF Carried
<1>4. PICK a \in Int, r \in Int : Split(p, S, a, r, d)
  BY <1>3
<1>5. Is(p.avg_entry_price, a, d) /\ Is(p.realized_pnl, r, d) /\ r = a * q - S * d
  BY <1>4 DEF Split
<1>6. PICK c \in Int :
         /\ c = LET m == IF qty < Magnitude(q) THEN qty ELSE Magnitude(q)
                IN  IF q > 0 THEN m ELSE -m
         /\ \/ u.avg_entry_price = p.avg_entry_price /\ c = -s
            \/ u.avg_entry_price = (IF left # 0 THEN Whole(price) ELSE Whole(0)) /\ c = q
  BY <1>1, ReduceParts
<1>7. u.quantity = left /\ u.realized_pnl = Plus(p.realized_pnl, gain)
  BY <1>1, ReduceParts
<1>8. Is(gain, (price * d - a) * c, d)
  BY <1>2, <1>5, <1>6, GainIs
<1> DEFINE r2 == r + (price * d - a) * c
<1>9. Is(u.realized_pnl, r2, d) /\ r2 \in Int
  <2>1. Is(u.realized_pnl, r2, d)
    BY <1>5, <1>7, <1>8, PlusIs
  <2> QED
    BY <2>1, IsParts
<1>10. \E b \in Int : Is(u.avg_entry_price, b, d) /\ r2 = b * left - (S + price * s) * d
  <2>1. CASE u.avg_entry_price = p.avg_entry_price /\ c = -s
    <3>1. r2 = a * (q - c) - (S - price * c) * d
      BY <1>2, <1>5, ReduceArithmetic
    <3>2. q - c = left /\ S - price * c = S + price * s
      <4>1. price * (-s) = -(price * s) /\ price * s \in Int
        BY <1>2
      <4> QED
        BY <1>2, <2>1, <4>1
    <3> QED
      BY <1>5, <2>1, <3>1, <3>2
  <2>2. CASE u.avg_entry_price = (IF left # 0 THEN Whole(price) ELSE Whole(0)) /\ c = q
    <3>1. r2 = (price * d) * left - (S + price * s) * d
      <4>1. r2 = r + (price * d - a) * q
        BY <2>2
      <4>2. r + (price * d - a) * q = (price * d) * (q + s) - (S + price * s) * d
        BY <1>2, <1>5, CrossArithmetic
      <4> QED
        BY <4>1, <4>2
    <3>2. price * d \in Int /\ Is(Whole(price), price * d, d) /\ Is(Whole(0), 0, d)
      <4>1. price * d \in Int
        BY <1>2, ProductIn
      <4>2. Is(Whole(price), price * d, d)
        BY <1>2, WholeIs
      <4>3. Is(Whole(0), 0, d)
        BY ZeroIs
      <4> QED
        BY <4>1, <4>2, <4>3
    <3>3. CASE left = 0
      <4>1. (price * d) * left = 0 * left
        BY <3>2, <3>3
      <4> QED
        BY <2>2, <3>1, <3>2, <3>3, <4>1
    <3>4. CASE left # 0
      BY <2>2, <3>1, <3>2, <3>4
    <3> QED
      BY <3>3, <3>4
  <2> QED
    BY <1>6, <2>1, <2>2
<1> HIDE DEF r2
<1>11. PICK b \in Int : Is(u.avg_entry_price, b, d) /\ r2 = b * left - (S + price * s) * d
  BY <1>10
<1>12. Split(u, S + price * s, b, r2, d)
  BY <1>7, <1>9, <1>11 DEF Split
<1>13. Carried(u, S + price * s)
  BY <1>9, <1>12 DEF Carried
<1>14. u \in Holdings!Position
  <2>1. u.avg_entry_price \in Fraction /\ u.realized_pnl \in Fraction
    BY <1>9, <1>11, IsFraction
  <2>2. u = [p EXCEPT !.quantity = u.quantity, !.realized_pnl = u.realized_pnl,
                      !.avg_entry_price = u.avg_entry_price]
    BY <1>1, HoldingsFractions DEF Holdings!Reduce, Holdings!Position
  <2> HIDE DEF u, left
  <2> QED
    BY <1>1, <1>2, <1>7, <2>1, <2>2, HoldingsFractions DEF Holdings!Position
<1> QED
  BY <1>7, <1>13, <1>14 DEF Traded

-----------------------------------------------------------------------------
(* Adding                                                                  *)

\* u holds m = h + n, in the direction k, at the average of h at x and n at P.
Averaged(u, q, s, x, n, P) ==
    \E h \in Nat, m \in Nat \ {0}, k \in Int :
        /\ q = k * h /\ s = k * n /\ u.quantity = k * m /\ m = h + n
        /\ u.avg_entry_price = Over(Plus(Times(x, Whole(h)), Whole(P * n)), Whole(m))

\* The fields add_to_position leaves: the average of the held and the new shares.
LEMMA AddParts ==
    ASSUME NEW p \in Holdings!Position, NEW side \in {"Buy", "Sell"}, NEW qty \in Nat \ {0},
           NEW price \in Nat, ~Holdings!IsReducing(p, side)
    PROVE  LET u == Holdings!Add(p, side, qty, price)
               s == Holdings!Signed(side, qty)
           IN  /\ u.quantity = p.quantity + s
               /\ u.realized_pnl = p.realized_pnl
               /\ Averaged(u, p.quantity, s, p.avg_entry_price, qty, price)
<1> DEFINE q == p.quantity
           s == Holdings!Signed(side, qty)
           held == q + s
           u == Holdings!Add(p, side, qty, price)
           h == Magnitude(q)
           m == Magnitude(held)
           x == p.avg_entry_price
           k == IF side = "Buy" THEN 1 ELSE -1
<1>1. q \in Int /\ s \in Int /\ held \in Int
  BY PositionParts, SignedFacts
<1>2. /\ u.quantity = held /\ u.realized_pnl = p.realized_pnl
      /\ u.avg_entry_price = IF held # 0
                             THEN Over(Plus(Times(x, Whole(h)), Whole(price * qty)), Whole(m)) ELSE x
  BY <1>1, HoldingsFractions DEF Holdings!Add, Holdings!Position
<1>3. (k = 1 /\ q >= 0 /\ s = qty) \/ (k = -1 /\ q <= 0 /\ s = -qty)
  BY <1>1, SignedFacts DEF Holdings!IsReducing, Holdings!IsLong, Holdings!IsShort
<1>4. h \in Nat /\ m \in Nat /\ (q >= 0 => h = q) /\ (q <= 0 => h = -q)
      /\ (held >= 0 => m = held) /\ (held < 0 => m = -held)
  BY <1>1, MagnitudeFacts
<1>5. k \in Int
  OBVIOUS
<1> HIDE DEF k, q, s, h, m
<1>6. held # 0 /\ m = h + qty /\ m \in Nat \ {0} /\ q = k * h /\ s = k * qty /\ held = k * m
  <2>1. CASE k = 1 /\ q >= 0 /\ s = qty
    BY <1>1, <1>4, <2>1
  <2>2. CASE k = -1 /\ q <= 0 /\ s = -qty
    BY <1>1, <1>4, <2>2
  <2> QED
    BY <1>3, <2>1, <2>2
<1>7. u.quantity = held /\ u.avg_entry_price = Over(Plus(Times(x, Whole(h)), Whole(price * qty)), Whole(m))
  BY <1>2, <1>6
<1> HIDE DEF u, held, x
<1>8. u.quantity = q + s
  BY <1>7 DEF held
<1>9. Averaged(u, q, s, x, qty, price)
  BY <1>4, <1>5, <1>6, <1>7 DEF Averaged
<1> QED
  BY <1>2, <1>8, <1>9 DEF u, q, s, x

\* The weighted average carries both costs.
LEMMA AddArithmetic ==
    ASSUME NEW a \in Int, NEW r \in Int, NEW d \in Int, NEW h \in Int, NEW S \in Int,
           NEW k \in Int, NEW m \in Int, NEW P \in Int, NEW n \in Int,
           r = a * (k * h) - S * d
    PROVE  r * m = (a * h + (P * n) * d) * (k * m) - (S + P * (k * n)) * (d * m)
<1>1. r * m = (a * (k * h)) * m - (S * d) * m
  <2>1. a * (k * h) \in Int /\ S * d \in Int
    OBVIOUS
  <2> QED
    BY <2>1
<1>2. (a * h + (P * n) * d) * (k * m) = (a * (k * h)) * m + (P * (k * n)) * (d * m)
  <2>1. (a * h) * (k * m) = (a * (k * h)) * m
    OBVIOUS
  <2>2. ((P * n) * d) * (k * m) = (P * (k * n)) * (d * m)
    OBVIOUS
  <2>3. a * h \in Int /\ (P * n) * d \in Int /\ k * m \in Int
    OBVIOUS
  <2> QED
    BY <2>1, <2>2, <2>3
<1>3. (S + P * (k * n)) * (d * m) = (S * d) * m + (P * (k * n)) * (d * m)
  <2>1. S * (d * m) = (S * d) * m /\ P * (k * n) \in Int /\ d * m \in Int
    OBVIOUS
  <2> QED
    BY <2>1
<1>4. (a * (k * h)) * m \in Int /\ (S * d) * m \in Int /\ (P * (k * n)) * (d * m) \in Int
  OBVIOUS
<1> QED
  BY <1>1, <1>2, <1>3, <1>4

\* add_to_position keeps what was paid.
LEMMA AddKept ==
    ASSUME NEW p, NEW S \in Int, Traded(p, S), NEW side \in {"Buy", "Sell"},
           NEW qty \in Nat \ {0}, NEW price \in Nat, ~Holdings!IsReducing(p, side)
    PROVE  LET u == Holdings!Add(p, side, qty, price)
               s == Holdings!Signed(side, qty)
           IN  Traded(u, S + price * s) /\ u.quantity = p.quantity + s
<1> DEFINE q == p.quantity
           s == Holdings!Signed(side, qty)
           u == Holdings!Add(p, side, qty, price)
           x == p.avg_entry_price
<1>1. p \in Holdings!Position /\ Carried(p, S)
  BY DEF Traded
<1>2. q \in Int /\ s \in Int /\ price \in Int /\ qty \in Int /\ price * qty \in Int
  BY <1>1, PositionParts, SignedFacts, ProductIn
<1>3. PICK d \in Nat \ {0} : \E a, r \in Int : Split(p, S, a, r, d)
  BY <1>1 DEF Carried
<1>4. PICK a \in Int, r \in Int : Split(p, S, a, r, d)
  BY <1>3
<1>5. Is(x, a, d) /\ Is(p.realized_pnl, r, d) /\ r = a * q - S * d
  BY <1>4 DEF Split
<1>6. /\ u.quantity = q + s /\ u.realized_pnl = p.realized_pnl
      /\ Averaged(u, q, s, x, qty, price)
  BY <1>1, AddParts
<1>7. PICK h \in Nat, m \in Nat \ {0}, k \in Int :
            /\ q = k * h /\ s = k * qty /\ u.quantity = k * m /\ m = h + qty
            /\ u.avg_entry_price = Over(Plus(Times(x, Whole(h)), Whole(price * qty)), Whole(m))
  BY <1>6 DEF Averaged
<1> DEFINE b == a * h + (price * qty) * d
<1>8. Is(u.avg_entry_price, b, d * m)
  <2>1. Is(Times(x, Whole(h)), a * h, d)
    BY <1>5, TimesIs
  <2>2. Is(Whole(price * qty), (price * qty) * d, d)
    BY <1>2, WholeIs
  <2>3. Is(Plus(Times(x, Whole(h)), Whole(price * qty)), b, d)
    BY <2>1, <2>2, PlusIs
  <2> HIDE DEF b
  <2>4. Is(Over(Plus(Times(x, Whole(h)), Whole(price * qty)), Whole(m)), b, d * m)
    BY <2>3, OverIs
  <2> QED
    BY <1>7, <2>4
<1>9. Is(u.realized_pnl, r * m, d * m)
  BY <1>5, <1>6, IsScaled
<1>10. b \in Int /\ r * m \in Int /\ d * m \in Nat \ {0}
  BY <1>8, <1>9, IsParts
<1>11. r * m = b * (k * m) - (S + price * (k * qty)) * (d * m)
  <2>1. r = a * (k * h) - S * d
    BY <1>5, <1>7
  <2>2. d \in Int /\ h \in Int /\ m \in Int
    OBVIOUS
  <2> QED
    BY <1>2, <2>1, <2>2, AddArithmetic
<1> HIDE DEF b, u
<1>12. r * m = b * u.quantity - (S + price * s) * (d * m)
  BY <1>7, <1>11
<1>13. Split(u, S + price * s, b, r * m, d * m)
  BY <1>8, <1>9, <1>12 DEF Split
<1>14. Carried(u, S + price * s)
  BY <1>10, <1>13 DEF Carried
<1>15. u \in Holdings!Position
  <2>1. u.avg_entry_price \in Fraction
    BY <1>8, IsFraction
  <2>2. u = [p EXCEPT !.quantity = u.quantity, !.avg_entry_price = u.avg_entry_price]
    BY <1>1, HoldingsFractions DEF Holdings!Add, Holdings!Position, u
  <2>3. u.quantity \in Int
    BY <1>2, <1>6
  <2> QED
    BY <1>1, <2>1, <2>2, <2>3, HoldingsFractions DEF Holdings!Position
<1> QED
  BY <1>6, <1>14, <1>15 DEF Traded, u

\* What a fill makes of a position.
Filled(p, side, qty, price) ==
    Holdings!UpdateUnrealized(IF Holdings!IsReducing(p, side) THEN Holdings!Reduce(p, side, qty, price)
                              ELSE Holdings!Add(p, side, qty, price), price)

\* A fill adds what it paid and values the position at its price.
LEMMA FilledKept ==
    ASSUME NEW p, NEW S \in Int, Traded(p, S), NEW side \in {"Buy", "Sell"},
           NEW qty \in Nat \ {0}, NEW price \in Nat
    PROVE  LET u == Filled(p, side, qty, price)
               s == Holdings!Signed(side, qty)
           IN  Kept(u, S + price * s) /\ u.quantity = p.quantity + s /\ u.last_price = price
<1> DEFINE t == IF Holdings!IsReducing(p, side) THEN Holdings!Reduce(p, side, qty, price)
                ELSE Holdings!Add(p, side, qty, price)
           s == Holdings!Signed(side, qty)
<1>1. Traded(t, S + price * s) /\ t.quantity = p.quantity + s
  BY ReduceKept, AddKept
<1>2. S + price * s \in Int
  BY SignedFacts, ProductIn
<1>3. Filled(p, side, qty, price) = Holdings!UpdateUnrealized(t, price)
  BY DEF Filled
<1> HIDE DEF t, s
<1>4. /\ Kept(Holdings!UpdateUnrealized(t, price), S + price * s)
      /\ Holdings!UpdateUnrealized(t, price).quantity = t.quantity
      /\ Holdings!UpdateUnrealized(t, price).last_price = price
  BY <1>1, <1>2, UpdateKept
<1> QED
  BY <1>1, <1>3, <1>4 DEF s

-----------------------------------------------------------------------------
(* What the fills add up to                                                *)

\* A fill as the history has it.
FillRecord == [symbol : Symbols, side : {"Buy", "Sell"}, qty : Nat \ {0}, price : Nat,
               ts : Nat, mids : Nat, marks : Nat]

\* The signed quantities of the fills, what was paid at each,
SignedIn(F) == [i \in DOMAIN F |-> Holdings!Signed(F[i].side, F[i].qty)]
PaidIn(F) == [i \in DOMAIN F |-> F[i].price * Holdings!Signed(F[i].side, F[i].qty)]

\* the fills of a symbol, and their sums: bought, paid for it, paid in all.
FillsIn(F, s) == { i \in DOMAIN F : F[i].symbol = s }

Bought(F, s) == SumFunctionOnSet(SignedIn(F), FillsIn(F, s))
PaidFor(F, s) == SumFunctionOnSet(PaidIn(F), FillsIn(F, s))
Paid(F) == SumFunctionOnSet(PaidIn(F), DOMAIN F)

\* The types of a fill's fields.
LEMMA RecordParts ==
    ASSUME NEW F \in Seq(FillRecord), NEW i \in DOMAIN F
    PROVE  /\ F[i] \in FillRecord /\ F[i].symbol \in Symbols /\ F[i].side \in {"Buy", "Sell"}
           /\ F[i].qty \in Nat \ {0} /\ F[i].price \in Nat
           /\ F[i].ts \in Nat /\ F[i].mids \in Nat /\ F[i].marks \in Nat
<1>1. F[i] \in FillRecord
  OBVIOUS
<1> QED
  BY <1>1 DEF FillRecord

\* The indices of a sequence.
LEMMA DomainFinite ==
    ASSUME NEW R, NEW F \in Seq(R)
    PROVE  DOMAIN F = 1 .. Len(F) /\ Len(F) \in Nat /\ IsFiniteSet(DOMAIN F)
  BY FS_Interval

\* The terms of the sums over the fills are integers.
LEMMA FillTerms ==
    ASSUME NEW F \in Seq(FillRecord)
    PROVE  /\ \A i \in DOMAIN F : SignedIn(F)[i] \in Int /\ PaidIn(F)[i] \in Int
           /\ \A s : IsFiniteSet(FillsIn(F, s)) /\ FillsIn(F, s) \in SUBSET DOMAIN F
<1>1. ASSUME NEW i \in DOMAIN F
      PROVE  SignedIn(F)[i] \in Int /\ PaidIn(F)[i] \in Int
  <2>1. Holdings!Signed(F[i].side, F[i].qty) \in Int /\ F[i].price \in Int
    BY RecordParts, SignedFacts
  <2> QED
    BY <2>1, ProductIn DEF SignedIn, PaidIn
<1>2. ASSUME NEW s
      PROVE  IsFiniteSet(FillsIn(F, s)) /\ FillsIn(F, s) \in SUBSET DOMAIN F
  BY DomainFinite, FS_Subset DEF FillsIn
<1> QED
  BY <1>1, <1>2

\* So are the sums.
LEMMA BoughtType ==
    ASSUME NEW F \in Seq(FillRecord), NEW s
    PROVE  Bought(F, s) \in Int /\ PaidFor(F, s) \in Int /\ Paid(F) \in Int
<1>1. /\ \A i \in DOMAIN F : SignedIn(F)[i] \in Int /\ PaidIn(F)[i] \in Int
      /\ IsFiniteSet(FillsIn(F, s)) /\ FillsIn(F, s) \in SUBSET DOMAIN F /\ IsFiniteSet(DOMAIN F)
  BY FillTerms, DomainFinite
<1>2. \A i \in FillsIn(F, s) : SignedIn(F)[i] \in Int /\ PaidIn(F)[i] \in Int
  BY <1>1
<1>3. Bought(F, s) \in Int
  BY <1>1, <1>2, SumType DEF Bought
<1>4. PaidFor(F, s) \in Int
  BY <1>1, <1>2, SumType DEF PaidFor
<1>5. Paid(F) \in Int
  BY <1>1, SumType DEF Paid
<1> QED
  BY <1>3, <1>4, <1>5

\* A sequence with one more element.
LEMMA AppendFacts ==
    ASSUME NEW R, NEW F \in Seq(R), NEW r \in R
    PROVE  LET G == Append(F, r)
               n == Len(F) + 1
           IN  /\ G \in Seq(R) /\ Len(G) = n /\ G[n] = r
               /\ DOMAIN G = DOMAIN F \cup {n} /\ n \notin DOMAIN F /\ n \in Nat \ {0}
               /\ \A i \in DOMAIN F : G[i] = F[i]
<1> DEFINE G == Append(F, r)
           n == Len(F) + 1
<1>1. G \in Seq(R) /\ Len(G) = n /\ G[n] = r /\ Len(F) \in Nat
  OBVIOUS
<1>2. DOMAIN G = 1 .. n /\ DOMAIN F = 1 .. Len(F)
  BY <1>1
<1>3. \A i \in DOMAIN F : G[i] = F[i]
  BY <1>1, <1>2
<1>4. 1 .. n = (1 .. Len(F)) \cup {n}
  BY <1>1
<1> QED
  BY <1>1, <1>2, <1>3, <1>4

\* What one more fill adds.
LEMMA FillAdds ==
    ASSUME NEW F \in Seq(FillRecord), NEW r \in FillRecord
    PROVE  LET G == Append(F, r)
               v == Holdings!Signed(r.side, r.qty)
           IN  /\ Bought(G, r.symbol) = Bought(F, r.symbol) + v
               /\ PaidFor(G, r.symbol) = PaidFor(F, r.symbol) + r.price * v
               /\ \A s : s # r.symbol => Bought(G, s) = Bought(F, s) /\ PaidFor(G, s) = PaidFor(F, s)
               /\ Paid(G) = Paid(F) + r.price * v
<1> DEFINE G == Append(F, r)
           n == Len(F) + 1
           v == Holdings!Signed(r.side, r.qty)
           f == SignedIn(F)
           g == SignedIn(G)
           e == PaidIn(F)
           h == PaidIn(G)
<1>1. /\ G \in Seq(FillRecord) /\ G[n] = r /\ DOMAIN G = DOMAIN F \cup {n} /\ n \notin DOMAIN F
      /\ \A i \in DOMAIN F : G[i] = F[i]
  BY AppendFacts
<1>2. /\ \A i \in DOMAIN F : f[i] \in Int /\ e[i] \in Int
      /\ \A i \in DOMAIN G : g[i] \in Int /\ h[i] \in Int
      /\ IsFiniteSet(DOMAIN F)
      /\ \A s : IsFiniteSet(FillsIn(F, s)) /\ FillsIn(F, s) \in SUBSET DOMAIN F
  BY <1>1, FillTerms, DomainFinite
<1> HIDE DEF G, n
<1>3. /\ \A i \in DOMAIN F : g[i] = f[i] /\ h[i] = e[i]
      /\ g[n] = v /\ h[n] = r.price * v
  BY <1>1 DEF SignedIn, PaidIn
<1>4. FillsIn(G, r.symbol) = FillsIn(F, r.symbol) \cup {n} /\ n \notin FillsIn(F, r.symbol)
  BY <1>1 DEF FillsIn
<1>5. \A s : s # r.symbol => FillsIn(G, s) = FillsIn(F, s)
  BY <1>1 DEF FillsIn
<1> HIDE DEF f, g, e, h
<1>6. ASSUME NEW T, IsFiniteSet(T), T \in SUBSET DOMAIN F
      PROVE  /\ SumFunctionOnSet(g, T) = SumFunctionOnSet(f, T)
             /\ SumFunctionOnSet(h, T) = SumFunctionOnSet(e, T)
             /\ SumFunctionOnSet(g, T) \in Int /\ SumFunctionOnSet(h, T) \in Int
  <2>1. \A i \in T : f[i] \in Int /\ e[i] \in Int /\ g[i] = f[i] /\ h[i] = e[i]
    BY <1>2, <1>3, <1>6
  <2>2. \A i \in T : f[i] \in Int /\ g[i] = f[i] /\ g[i] \in Int
    BY <2>1
  <2>3. \A i \in T : e[i] \in Int /\ h[i] = e[i] /\ h[i] \in Int
    BY <2>1
  <2>4. SumFunctionOnSet(g, T) = SumFunctionOnSet(f, T) /\ SumFunctionOnSet(g, T) \in Int
    BY <1>6, <2>2, SumEqual, SumType
  <2>5. SumFunctionOnSet(h, T) = SumFunctionOnSet(e, T) /\ SumFunctionOnSet(h, T) \in Int
    BY <1>6, <2>3, SumEqual, SumType
  <2> QED
    BY <2>4, <2>5
<1>7. ASSUME NEW T, IsFiniteSet(T), T \in SUBSET DOMAIN F
      PROVE  /\ SumFunctionOnSet(g, T \cup {n}) = SumFunctionOnSet(f, T) + v
             /\ SumFunctionOnSet(h, T \cup {n}) = SumFunctionOnSet(e, T) + r.price * v
  <2>1. n \notin T
    BY <1>1, <1>7
  <2>2. \A i \in T \cup {n} : g[i] \in Int
    BY <1>1, <1>2, <1>7
  <2>3. \A i \in T \cup {n} : h[i] \in Int
    BY <1>1, <1>2, <1>7
  <2>4. SumFunctionOnSet(g, T \cup {n}) = g[n] + SumFunctionOnSet(g, T)
    BY <1>7, <2>1, <2>2, SumAdd
  <2>5. SumFunctionOnSet(h, T \cup {n}) = h[n] + SumFunctionOnSet(h, T)
    BY <1>7, <2>1, <2>3, SumAdd
  <2>6. g[n] \in Int /\ h[n] \in Int
    BY <2>2, <2>3
  <2> HIDE DEF v
  <2>7. \A x, y \in Int : x + y = y + x
    OBVIOUS
  <2> QED
    BY <1>3, <1>6, <1>7, <2>4, <2>5, <2>6, <2>7
<1>8. Bought(G, r.symbol) = Bought(F, r.symbol) + v
  BY <1>2, <1>4, <1>7 DEF Bought, f, g
<1>9. PaidFor(G, r.symbol) = PaidFor(F, r.symbol) + r.price * v
  BY <1>2, <1>4, <1>7 DEF PaidFor, e, h
<1>10. \A s : s # r.symbol => Bought(G, s) = Bought(F, s) /\ PaidFor(G, s) = PaidFor(F, s)
  BY <1>2, <1>5, <1>6 DEF Bought, PaidFor, f, g, e, h
<1>11. Paid(G) = Paid(F) + r.price * v
  BY <1>1, <1>2, <1>7 DEF Paid, e, h
<1> QED
  BY <1>8, <1>9, <1>10, <1>11 DEF G

\* Without fills nothing was bought or paid.
LEMMA NothingPaid ==
    /\ \A s : Bought(<< >>, s) = 0 /\ PaidFor(<< >>, s) = 0
    /\ Paid(<< >>) = 0
<1>1. DOMAIN << >> = {} /\ \A s : FillsIn(<< >>, s) = {}
  BY DEF FillsIn
<1> QED
  BY <1>1, SumEmpty DEF Bought, PaidFor, Paid

\* Nor for a symbol without fills.
LEMMA NoneBought ==
    ASSUME NEW F \in Seq(FillRecord), NEW s, \A i \in DOMAIN F : F[i].symbol # s
    PROVE  Bought(F, s) = 0 /\ PaidFor(F, s) = 0
<1>1. FillsIn(F, s) = {}
  BY DEF FillsIn
<1> QED
  BY <1>1, SumEmpty DEF Bought, PaidFor

-----------------------------------------------------------------------------
(* Sums of fractions                                                       *)

\* The recursion of a sum of fractions (the running double of total_realized_pnl).
FractionRound(f, g, U) ==
    IF U = {} THEN Whole(0) ELSE Plus(f[ChosenOf(U)], g[U \ {ChosenOf(U)}])
IsFractionSum(f, g, S) == g = [U \in SUBSET S |-> FractionRound(f, g, U)]
FractionSum(f, T) ==
    LET g == CHOOSE g : g = [U \in SUBSET T |-> FractionRound(f, g, U)] IN g[T]

\* Two functions that satisfy the recursion agree where both are defined.
LEMMA FractionsUnique ==
    ASSUME NEW f, NEW S, NEW T, NEW g, NEW h, IsFractionSum(f, g, S), IsFractionSum(f, h, T),
           NEW V, IsFiniteSet(V), V \subseteq S, V \subseteq T
    PROVE  g[V] = h[V]
<1> DEFINE Good == { U \in SUBSET V : g[U] = h[U] }
<1>1. ASSUME NEW U \in SUBSET V, \A W \in SUBSET U : W # U => W \in Good
      PROVE  U \in Good
  <2>1. g[U] = FractionRound(f, g, U) /\ h[U] = FractionRound(f, h, U)
    BY DEF IsFractionSum
  <2>2. CASE U = {}
    BY <2>1, <2>2 DEF FractionRound
  <2>3. CASE U # {}
    <3>1. ChosenOf(U) \in U
      BY <2>3 DEF ChosenOf
    <3>2. U \ {ChosenOf(U)} \in Good
      BY <1>1, <3>1
    <3> QED
      BY <2>1, <2>3, <3>2 DEF FractionRound
  <2> QED
    BY <2>2, <2>3
<1>2. V \in Good
  <2> HIDE DEF Good
  <2> QED
    BY <1>1, SubsetInduction
<1> QED
  BY <1>2

\* The recursion defines a function on every finite set.
LEMMA FractionsExist ==
    ASSUME NEW f, NEW S, IsFiniteSet(S)
    PROVE  \E g : IsFractionSum(f, g, S)
<1> DEFINE Good == { T \in SUBSET S : \E g : IsFractionSum(f, g, T) }
           Of(T) == CHOOSE g : IsFractionSum(f, g, T)
<1>1. ASSUME NEW T \in SUBSET S, \A U \in SUBSET T : U # T => U \in Good
      PROVE  T \in Good
  <2> DEFINE x == ChosenOf(T)
             g == [U \in SUBSET T |->
                      IF U # T THEN Of(U)[U]
                      ELSE IF T = {} THEN Whole(0) ELSE Plus(f[x], Of(T \ {x})[T \ {x}])]
  <2>1. \A U \in SUBSET T : U # T => IsFractionSum(f, Of(U), U)
    BY <1>1
  <2>2. ASSUME NEW U \in SUBSET T
        PROVE  g[U] = FractionRound(f, g, U)
    <3>1. CASE U = {} /\ U = T
      BY <3>1 DEF FractionRound
    <3>2. CASE U = {} /\ U # T
      <4>1. Of(U)[U] = FractionRound(f, Of(U), U)
        <5>1. IsFractionSum(f, Of(U), U)
          BY <2>1, <3>2
        <5> HIDE DEF Of
        <5> QED
          BY <5>1 DEF IsFractionSum
      <4> QED
        BY <3>2, <4>1 DEF FractionRound
    <3>3. CASE U # {}
      <4> DEFINE c == ChosenOf(U)
      <4>1. c \in U /\ U \ {c} \in SUBSET U /\ U \ {c} # U /\ U \ {c} # T
        BY <3>3 DEF ChosenOf
      <4>2. g[U \ {c}] = Of(U \ {c})[U \ {c}]
        BY <4>1
      <4>3. CASE U = T
        BY <3>3, <4>2, <4>3 DEF FractionRound
      <4>4. CASE U # T
        <5>1. Of(U)[U] = Plus(f[c], Of(U)[U \ {c}])
          <6>1. IsFractionSum(f, Of(U), U)
            BY <2>1, <4>4
          <6> HIDE DEF Of
          <6>2. Of(U)[U] = FractionRound(f, Of(U), U)
            BY <6>1 DEF IsFractionSum
          <6> QED
            BY <3>3, <6>2 DEF FractionRound
        <5>2. Of(U)[U \ {c}] = Of(U \ {c})[U \ {c}]
          <6>1. IsFiniteSet(U \ {c})
            BY FS_Subset, <4>1
          <6>2. IsFractionSum(f, Of(U), U) /\ IsFractionSum(f, Of(U \ {c}), U \ {c})
            BY <2>1, <4>1, <4>4
          <6> HIDE DEF Of, c
          <6> QED
            BY <4>1, <6>1, <6>2, FractionsUnique
        <5>3. g[U] = Of(U)[U]
          BY <4>4
        <5> HIDE DEF g, Of
        <5> QED
          BY <3>3, <4>2, <5>1, <5>2, <5>3 DEF FractionRound
      <4> QED
        BY <4>3, <4>4
    <3> QED
      BY <3>1, <3>2, <3>3
  <2>3. g = [U \in SUBSET T |-> g[U]]
    OBVIOUS
  <2> HIDE DEF g
  <2>4. IsFractionSum(f, g, T)
    BY <2>2, <2>3 DEF IsFractionSum
  <2> QED
    BY <2>4
<1>2. S \in Good
  <2> HIDE DEF Good
  <2> QED
    BY <1>1, SubsetInduction
<1> QED
  BY <1>2

\* The sum of fractions satisfies its recursion.
LEMMA FractionRecursion ==
    ASSUME NEW f, NEW S, IsFiniteSet(S)
    PROVE  /\ FractionSum(f, {}) = Whole(0)
           /\ S # {} => FractionSum(f, S) = Plus(f[ChosenOf(S)], FractionSum(f, S \ {ChosenOf(S)}))
<1> DEFINE Of(T) == CHOOSE g : g = [U \in SUBSET T |-> FractionRound(f, g, U)]
<1>1. \A T : FractionSum(f, T) = Of(T)[T]
  BY DEF FractionSum
<1>2. ASSUME NEW T, IsFiniteSet(T)
      PROVE  IsFractionSum(f, Of(T), T)
  <2>1. \E g : g = [U \in SUBSET T |-> FractionRound(f, g, U)]
    BY <1>2, FractionsExist DEF IsFractionSum
  <2> QED
    BY <2>1 DEF IsFractionSum
<1> HIDE DEF Of
<1>3. ASSUME NEW T, IsFiniteSet(T)
      PROVE  FractionSum(f, T) = FractionRound(f, Of(T), T)
  BY <1>1, <1>2, <1>3 DEF IsFractionSum
<1>4. FractionSum(f, {}) = Whole(0)
  BY <1>3, FS_EmptySet DEF FractionRound
<1>5. ASSUME S # {}
      PROVE  FractionSum(f, S) = Plus(f[ChosenOf(S)], FractionSum(f, S \ {ChosenOf(S)}))
  <2> DEFINE c == ChosenOf(S)
             W == S \ {c}
  <2>1. c \in S /\ W \in SUBSET S /\ IsFiniteSet(W)
    BY <1>5, FS_Subset DEF ChosenOf
  <2>2. FractionSum(f, S) = Plus(f[c], Of(S)[W])
    BY <1>3, <1>5 DEF FractionRound
  <2>3. Of(S)[W] = Of(W)[W]
    <3>1. IsFractionSum(f, Of(S), S) /\ IsFractionSum(f, Of(W), W)
      BY <1>2, <2>1
    <3> HIDE DEF W
    <3> QED
      BY <2>1, <3>1, FractionsUnique
  <2>4. FractionSum(f, W) = Of(W)[W]
    BY <1>1
  <2> QED
    BY <2>2, <2>3, <2>4
<1> QED
  BY <1>4, <1>5

\* x and y are parts of w, whose sum has no remainder.
PartsOf(x, y, w) ==
    \E d \in Nat \ {0} : \E m, n \in Int : Is(x, m, d) /\ Is(y, n, d) /\ m + n = w * d

\* Parts of two whole numbers add up to parts of their sum.
LEMMA PartsAdd ==
    ASSUME NEW w \in Int, NEW v \in Int, NEW x, NEW y, NEW s, NEW t,
           PartsOf(x, y, w), PartsOf(s, t, v)
    PROVE  PartsOf(Plus(x, s), Plus(y, t), w + v)
<1>1. PICK d \in Nat \ {0} : \E m, n \in Int : Is(x, m, d) /\ Is(y, n, d) /\ m + n = w * d
  BY DEF PartsOf
<1>2. PICK m \in Int, n \in Int : Is(x, m, d) /\ Is(y, n, d) /\ m + n = w * d
  BY <1>1
<1>3. PICK e \in Nat \ {0} : \E k, l \in Int : Is(s, k, e) /\ Is(t, l, e) /\ k + l = v * e
  BY DEF PartsOf
<1>4. PICK k \in Int, l \in Int : Is(s, k, e) /\ Is(t, l, e) /\ k + l = v * e
  BY <1>3
<1>5. Is(x, m * e, d * e) /\ Is(y, n * e, d * e)
  BY <1>2, IsScaled
<1>6. Is(s, k * d, e * d) /\ Is(t, l * d, e * d)
  BY <1>4, IsScaled
<1>7. e * d = d * e /\ d * e \in Nat \ {0}
  BY PositiveProduct
<1>8. Is(Plus(x, s), m * e + k * d, d * e)
  BY <1>5, <1>6, <1>7, PlusIs
<1>9. Is(Plus(y, t), n * e + l * d, d * e)
  BY <1>5, <1>6, <1>7, PlusIs
<1>10. (m * e + k * d) + (n * e + l * d) = (w + v) * (d * e)
  <2>1. (m * e + k * d) + (n * e + l * d) = (m + n) * e + (k + l) * d
    OBVIOUS
  <2>2. (w * d) * e + (v * e) * d = (w + v) * (d * e)
    OBVIOUS
  <2> QED
    BY <1>2, <1>4, <2>1, <2>2
<1>11. m * e + k * d \in Int /\ n * e + l * d \in Int
  BY <1>8, <1>9, IsParts
<1> QED
  BY <1>7, <1>8, <1>9, <1>10, <1>11 DEF PartsOf

\* Realized and unrealized gains, summed apart, are parts of the sum of the gains.
LEMMA SumOfPartsOf ==
    ASSUME NEW S, IsFiniteSet(S), NEW f, NEW g, NEW w,
           \A x \in S : w[x] \in Int /\ PartsOf(f[x], g[x], w[x])
    PROVE  PartsOf(FractionSum(f, S), FractionSum(g, S), SumFunctionOnSet(w, S))
<1> DEFINE Fine(T) == PartsOf(FractionSum(f, T), FractionSum(g, T), SumFunctionOnSet(w, T))
           Good == { T \in SUBSET S : Fine(T) }
<1>1. ASSUME NEW T \in SUBSET S, \A U \in SUBSET T : U # T => U \in Good
      PROVE  T \in Good
  <2>1. IsFiniteSet(T)
    BY FS_Subset
  <2>2. CASE T = {}
    <3>1. FractionSum(f, T) = Whole(0) /\ FractionSum(g, T) = Whole(0) /\ SumFunctionOnSet(w, T) = 0
      BY <2>1, <2>2, FractionRecursion, SumEmpty
    <3>2. Is(Whole(0), 0, 1) /\ 0 + 0 = 0 * 1
      BY ZeroIs
    <3> QED
      BY <3>1, <3>2 DEF PartsOf
  <2>3. CASE T # {}
    <3> DEFINE c == ChosenOf(T)
               W == T \ {c}
    <3>1. c \in T /\ c \in S /\ W \in SUBSET T /\ W # T
      BY <2>3 DEF ChosenOf
    <3>2. Fine(W)
      BY <1>1, <3>1
    <3>3. /\ FractionSum(f, T) = Plus(f[c], FractionSum(f, W))
          /\ FractionSum(g, T) = Plus(g[c], FractionSum(g, W))
      BY <2>1, <2>3, FractionRecursion
    <3>4. SumFunctionOnSet(w, T) = w[c] + SumFunctionOnSet(w, W)
      <4>1. \A x \in T : w[x] \in Int
        OBVIOUS
      <4> QED
        BY <2>1, <3>1, <4>1, SumRemove
    <3>5. SumFunctionOnSet(w, W) \in Int
      <4>1. IsFiniteSet(W) /\ \A x \in W : w[x] \in Int
        BY <2>1, FS_Subset
      <4> QED
        BY <4>1, SumType
    <3>6. w[c] \in Int /\ PartsOf(f[c], g[c], w[c])
      BY <3>1
    <3> HIDE DEF c, W
    <3>7. PartsOf(Plus(f[c], FractionSum(f, W)), Plus(g[c], FractionSum(g, W)), w[c] + SumFunctionOnSet(w, W))
      BY <3>2, <3>5, <3>6, PartsAdd
    <3> QED
      BY <3>3, <3>4, <3>7
  <2> QED
    BY <2>2, <2>3
<1>2. S \in Good
  <2> HIDE DEF Good
  <2> QED
    BY <1>1, SubsetInduction
<1> QED
  BY <1>2

\* Parts of a whole number add up to it.
LEMMA PartsWhole ==
    ASSUME NEW x, NEW y, NEW w \in Int, PartsOf(x, y, w)
    PROVE  Plus(x, y) = Whole(w)
  BY WholeSum DEF PartsOf

-----------------------------------------------------------------------------
(* What the positions are worth                                            *)

\* The positions P hold what the fills F bought.
Held(P, F) ==
    /\ F \in Seq(FillRecord) /\ IsFiniteSet(DOMAIN P) /\ \A s \in DOMAIN P : s \in Symbols
    /\ \A i \in DOMAIN F : F[i].symbol \in DOMAIN P
    /\ \A s \in DOMAIN P : Kept(P[s], PaidFor(F, s)) /\ P[s].quantity = Bought(F, s)

\* The gain on each fill at the last price of its symbol.
GainIn(P, F) ==
    [i \in DOMAIN F |-> Holdings!Signed(F[i].side, F[i].qty) * (P[F[i].symbol].last_price - F[i].price)]

\* The positions' fields as functions of the symbol, and what each position is worth beyond its cost.
ValueIn(P) == [s \in DOMAIN P |-> P[s].market_value]
RealizedIn(P) == [s \in DOMAIN P |-> P[s].realized_pnl]
UnrealizedIn(P) == [s \in DOMAIN P |-> P[s].unrealized_pnl]
WorthIn(P, F) == [s \in DOMAIN P |-> P[s].market_value - PaidFor(F, s)]

\* One position of those held.
LEMMA HeldParts ==
    ASSUME NEW P, NEW F, Held(P, F), NEW s \in DOMAIN P
    PROVE  /\ Kept(P[s], PaidFor(F, s)) /\ P[s].quantity = Bought(F, s)
           /\ P[s].quantity \in Int /\ P[s].last_price \in Nat /\ P[s].market_value \in Int
           /\ P[s].market_value = P[s].last_price * P[s].quantity
           /\ PaidFor(F, s) \in Int /\ Bought(F, s) \in Int
<1>1. F \in Seq(FillRecord) /\ Kept(P[s], PaidFor(F, s)) /\ P[s].quantity = Bought(F, s)
  BY DEF Held
<1>2. P[s] \in Holdings!Position /\ P[s].market_value = P[s].last_price * P[s].quantity
  BY <1>1 DEF Kept, WellValued
<1> QED
  BY <1>1, <1>2, PositionParts, BoughtType

\* Both parts of the gain on a position, over its denominator.
LEMMA KeptParts ==
    ASSUME NEW p, NEW S \in Int, Kept(p, S)
    PROVE  PartsOf(p.realized_pnl, p.unrealized_pnl, p.market_value - S)
<1>1. p \in Holdings!Position /\ Carried(p, S) /\ WellValued(p)
  BY DEF Kept
<1>2. PICK d \in Nat \ {0} : \E a, r \in Int : Split(p, S, a, r, d)
  BY <1>1 DEF Carried
<1>3. PICK a \in Int, r \in Int : Split(p, S, a, r, d)
  BY <1>2
<1>4. Is(p.avg_entry_price, a, d) /\ Is(p.realized_pnl, r, d) /\ r = a * p.quantity - S * d
  BY <1>3 DEF Split
<1> DEFINE u == p.market_value * d - a * p.quantity
<1>5. Is(p.unrealized_pnl, u, d)
  BY <1>1, <1>4 DEF WellValued
<1>6. u \in Int
  BY <1>5, IsParts
<1>7. r + u = (p.market_value - S) * d
  <2>1. p.market_value \in Int /\ p.quantity \in Int
    BY <1>1, PositionParts
  <2>2. p.market_value * d \in Int /\ a * p.quantity \in Int /\ S * d \in Int
    BY <2>1, ProductIn
  <2>3. (p.market_value - S) * d = p.market_value * d - S * d
    BY <2>1
  <2> QED
    BY <1>4, <2>2, <2>3
<1> HIDE DEF u
<1> QED
  BY <1>4, <1>5, <1>6, <1>7 DEF PartsOf

\* The sum of c f - h.
LEMMA SumScaled ==
    ASSUME NEW S, IsFiniteSet(S), NEW c \in Int, NEW f, NEW h, NEW g,
           \A x \in S : f[x] \in Int /\ h[x] \in Int /\ g[x] = c * f[x] - h[x]
    PROVE  SumFunctionOnSet(g, S) = c * SumFunctionOnSet(f, S) - SumFunctionOnSet(h, S)
<1> DEFINE Fine(T) == SumFunctionOnSet(g, T) = c * SumFunctionOnSet(f, T) - SumFunctionOnSet(h, T)
           Good == { T \in SUBSET S : Fine(T) }
<1>1. {} \in Good
  <2>1. c * 0 - 0 = 0
    OBVIOUS
  <2> QED
    BY <2>1, SumEmpty
<1>2. ASSUME NEW T \in SUBSET S, NEW x \in S \ T, T \in Good
      PROVE  T \cup {x} \in Good
  <2>1. /\ IsFiniteSet(T) /\ x \notin T
        /\ \A y \in T \cup {x} : f[y] \in Int
        /\ \A y \in T \cup {x} : h[y] \in Int
        /\ \A y \in T \cup {x} : g[y] \in Int
    <3>1. ASSUME NEW y \in T \cup {x}
          PROVE  f[y] \in Int /\ h[y] \in Int /\ g[y] \in Int
      <4>1. f[y] \in Int /\ h[y] \in Int /\ g[y] = c * f[y] - h[y]
        OBVIOUS
      <4>2. c * f[y] \in Int
        BY <4>1, ProductIn
      <4> QED
        BY <4>1, <4>2
    <3> QED
      BY <3>1, FS_Subset
  <2>2. /\ SumFunctionOnSet(f, T) \in Int /\ SumFunctionOnSet(h, T) \in Int
    BY <2>1, SumType
  <2>3. SumFunctionOnSet(f, T \cup {x}) = f[x] + SumFunctionOnSet(f, T)
    BY <2>1, SumAdd
  <2>4. SumFunctionOnSet(h, T \cup {x}) = h[x] + SumFunctionOnSet(h, T)
    BY <2>1, SumAdd
  <2>5. SumFunctionOnSet(g, T \cup {x}) = g[x] + SumFunctionOnSet(g, T)
    BY <2>1, SumAdd
  <2>6. f[x] \in Int /\ h[x] \in Int /\ g[x] = c * f[x] - h[x] /\ Fine(T)
    BY <1>2
  <2>7. ASSUME NEW a \in Int, NEW b \in Int, NEW d \in Int, NEW e \in Int
        PROVE  (c * a - b) + (c * d - e) = c * (a + d) - (b + e)
    <3>1. c * (a + d) = c * a + c * d /\ c * a \in Int /\ c * d \in Int
      OBVIOUS
    <3> QED
      BY <3>1
  <2> QED
    BY <2>2, <2>3, <2>4, <2>5, <2>6, <2>7
<1>3. S \in Good
  <2> HIDE DEF Good
  <2> QED
    BY <1>1, <1>2, ElementInduction
<1> QED
  BY <1>3

\* Sums over the fills are sums over the symbols of sums over their fills.
LEMMA BySymbol ==
    ASSUME NEW P, NEW F, Held(P, F), NEW f, \A i \in DOMAIN F : f[i] \in Int,
           NEW g, \A s \in DOMAIN P : g[s] = SumFunctionOnSet(f, FillsIn(F, s))
    PROVE  SumFunctionOnSet(g, DOMAIN P) = SumFunctionOnSet(f, DOMAIN F)
<1> DEFINE Of == [s \in DOMAIN P |-> FillsIn(F, s)]
<1>1. F \in Seq(FillRecord) /\ IsFiniteSet(DOMAIN P) /\ \A i \in DOMAIN F : F[i].symbol \in DOMAIN P
  BY DEF Held
<1>2. \A s \in DOMAIN P : Of[s] = FillsIn(F, s) /\ IsFiniteSet(Of[s])
  BY <1>1, FillTerms
<1> HIDE DEF Of
<1>3. Parts(Of, DOMAIN P, f, g, DOMAIN F)
  <2>1. \A p, q \in DOMAIN P : p # q => Of[p] \cap Of[q] = {}
    BY <1>2 DEF FillsIn
  <2>2. \A p \in DOMAIN P : \A x \in Of[p] : f[x] \in Int
    BY <1>2 DEF FillsIn
  <2>3. \A x : x \in DOMAIN F <=> \E p \in DOMAIN P : x \in Of[p]
    BY <1>1, <1>2 DEF FillsIn
  <2>4. \A p \in DOMAIN P : IsFiniteSet(Of[p]) /\ g[p] = SumFunctionOnSet(f, Of[p])
    BY <1>2
  <2> QED
    BY <2>1, <2>2, <2>3, <2>4 DEF Parts
<1> QED
  BY <1>1, <1>3, SumByParts

\* The gains are integers.
LEMMA GainType ==
    ASSUME NEW P, NEW F, Held(P, F), NEW i \in DOMAIN F
    PROVE  GainIn(P, F)[i] \in Int
           /\ GainIn(P, F)[i] = P[F[i].symbol].last_price * SignedIn(F)[i] - PaidIn(F)[i]
           /\ SignedIn(F)[i] \in Int /\ PaidIn(F)[i] \in Int
<1> DEFINE v == Holdings!Signed(F[i].side, F[i].qty)
           l == P[F[i].symbol].last_price
           c == F[i].price
<1>1. F \in Seq(FillRecord) /\ F[i].symbol \in DOMAIN P
  BY DEF Held
<1>2. v \in Int /\ l \in Int /\ c \in Int
  <2>1. F[i].side \in {"Buy", "Sell"} /\ F[i].qty \in Nat \ {0} /\ F[i].price \in Nat
    BY <1>1, RecordParts
  <2>2. v \in Int
    BY <2>1, SignedFacts
  <2>3. l \in Nat
    BY <1>1, HeldParts
  <2> QED
    BY <2>1, <2>2, <2>3
<1>3. GainIn(P, F)[i] = v * (l - c) /\ SignedIn(F)[i] = v /\ PaidIn(F)[i] = c * v
  BY DEF GainIn, SignedIn, PaidIn
<1> HIDE DEF v, l, c
<1>4. v * (l - c) = l * v - c * v /\ l * v \in Int /\ c * v \in Int
  BY <1>2
<1>5. v * (l - c) \in Int
  BY <1>4
<1> QED
  BY <1>2, <1>3, <1>4, <1>5 DEF l

\* So is what the positions are worth.
LEMMA WorthType ==
    ASSUME NEW P, NEW F, Held(P, F), NEW s \in DOMAIN P
    PROVE  /\ WorthIn(P, F)[s] \in Int /\ ValueIn(P)[s] \in Int
           /\ WorthIn(P, F)[s] = P[s].market_value - PaidFor(F, s)
           /\ ValueIn(P)[s] = P[s].market_value
<1>1. P[s].market_value \in Int /\ PaidFor(F, s) \in Int
  BY HeldParts
<1> QED
  BY <1>1 DEF WorthIn, ValueIn

\* On each symbol, the gain on its fills.
LEMMA WorthIsGain ==
    ASSUME NEW P, NEW F, Held(P, F), NEW s \in DOMAIN P
    PROVE  WorthIn(P, F)[s] = SumFunctionOnSet(GainIn(P, F), FillsIn(F, s))
<1>1. F \in Seq(FillRecord)
  BY DEF Held
<1>2. IsFiniteSet(FillsIn(F, s)) /\ FillsIn(F, s) \in SUBSET DOMAIN F
  BY <1>1, FillTerms
<1> DEFINE l == P[s].last_price
           f == SignedIn(F)
           h == PaidIn(F)
           g == GainIn(P, F)
<1>3. l \in Int /\ P[s].market_value = l * P[s].quantity /\ P[s].quantity = Bought(F, s)
  BY HeldParts
<1>4. \A i \in FillsIn(F, s) : f[i] \in Int /\ h[i] \in Int /\ g[i] = l * f[i] - h[i]
  <2>1. \A i \in FillsIn(F, s) : i \in DOMAIN F /\ F[i].symbol = s
    BY DEF FillsIn
  <2> QED
    BY <2>1, GainType
<1> HIDE DEF l, f, h, g
<1>5. SumFunctionOnSet(g, FillsIn(F, s)) = l * SumFunctionOnSet(f, FillsIn(F, s)) - SumFunctionOnSet(h, FillsIn(F, s))
  BY <1>2, <1>3, <1>4, SumScaled
<1>6. WorthIn(P, F)[s] = l * Bought(F, s) - PaidFor(F, s)
  BY <1>3, WorthType
<1> QED
  BY <1>5, <1>6 DEF Bought, PaidFor, f, g, h

\* The positions are worth what the fills gained, and the realized and unrealized totals add up to it.
LEMMA HeldWorth ==
    ASSUME NEW P, NEW F, Held(P, F)
    PROVE  /\ SumFunctionOnSet(WorthIn(P, F), DOMAIN P) \in Int
           /\ SumFunctionOnSet(ValueIn(P), DOMAIN P) \in Int
           /\ SumFunctionOnSet(WorthIn(P, F), DOMAIN P) = SumFunctionOnSet(GainIn(P, F), DOMAIN F)
           /\ SumFunctionOnSet(ValueIn(P), DOMAIN P)
                = SumFunctionOnSet(WorthIn(P, F), DOMAIN P) + Paid(F)
           /\ Plus(FractionSum(RealizedIn(P), DOMAIN P), FractionSum(UnrealizedIn(P), DOMAIN P))
                = Whole(SumFunctionOnSet(WorthIn(P, F), DOMAIN P))
<1> DEFINE w == WorthIn(P, F)
           v == ValueIn(P)
           paid == [s \in DOMAIN P |-> PaidFor(F, s)]
<1>1. IsFiniteSet(DOMAIN P) /\ F \in Seq(FillRecord)
  BY DEF Held
<1>2. \A s \in DOMAIN P : w[s] \in Int /\ v[s] \in Int /\ paid[s] \in Int /\ v[s] = w[s] + paid[s]
  <2> SUFFICES ASSUME NEW s \in DOMAIN P
               PROVE  w[s] \in Int /\ v[s] \in Int /\ paid[s] \in Int /\ v[s] = w[s] + paid[s]
    OBVIOUS
  <2>1. P[s].market_value \in Int /\ PaidFor(F, s) \in Int
    BY HeldParts
  <2> QED
    BY <2>1, WorthType
<1>3. SumFunctionOnSet(w, DOMAIN P) \in Int
  BY <1>1, <1>2, SumType
<1>4. SumFunctionOnSet(w, DOMAIN P) = SumFunctionOnSet(GainIn(P, F), DOMAIN F)
  BY WorthIsGain, GainType, BySymbol
<1>5. SumFunctionOnSet(paid, DOMAIN P) = Paid(F)
  <2>1. \A i \in DOMAIN F : PaidIn(F)[i] \in Int
    BY <1>1, FillTerms
  <2>2. \A s \in DOMAIN P : paid[s] = SumFunctionOnSet(PaidIn(F), FillsIn(F, s))
    BY DEF PaidFor
  <2> HIDE DEF paid
  <2> QED
    BY <2>1, <2>2, BySymbol DEF Paid
<1>6. PartsOf(FractionSum(RealizedIn(P), DOMAIN P), FractionSum(UnrealizedIn(P), DOMAIN P),
              SumFunctionOnSet(w, DOMAIN P))
  <2>1. \A s \in DOMAIN P : w[s] \in Int /\ PartsOf(RealizedIn(P)[s], UnrealizedIn(P)[s], w[s])
    <3> SUFFICES ASSUME NEW s \in DOMAIN P
                 PROVE  w[s] \in Int /\ PartsOf(RealizedIn(P)[s], UnrealizedIn(P)[s], w[s])
      OBVIOUS
    <3>1. Kept(P[s], PaidFor(F, s)) /\ PaidFor(F, s) \in Int
      BY HeldParts
    <3>2. PartsOf(P[s].realized_pnl, P[s].unrealized_pnl, P[s].market_value - PaidFor(F, s))
      BY <3>1, KeptParts
    <3>3. w[s] \in Int /\ w[s] = P[s].market_value - PaidFor(F, s)
      BY WorthType
    <3>4. RealizedIn(P)[s] = P[s].realized_pnl /\ UnrealizedIn(P)[s] = P[s].unrealized_pnl
      BY DEF RealizedIn, UnrealizedIn
    <3> HIDE DEF w
    <3> QED
      BY <3>2, <3>3, <3>4
  <2> HIDE DEF w
  <2> QED
    BY <1>1, <2>1, SumOfPartsOf
<1> HIDE DEF w, v, paid
<1>7. SumFunctionOnSet(v, DOMAIN P) = SumFunctionOnSet(w, DOMAIN P) + SumFunctionOnSet(paid, DOMAIN P)
  <2>1. \A s \in DOMAIN P : w[s] \in Int
    BY <1>2
  <2>2. \A s \in DOMAIN P : paid[s] \in Int
    BY <1>2
  <2>3. \A s \in DOMAIN P : v[s] = w[s] + paid[s]
    BY <1>2
  <2> QED
    BY <1>1, <2>1, <2>2, <2>3, SumPlus
<1>8. SumFunctionOnSet(v, DOMAIN P) \in Int
  <2>1. \A s \in DOMAIN P : v[s] \in Int
    BY <1>2
  <2> QED
    BY <1>1, <2>1, SumType
<1>9. Plus(FractionSum(RealizedIn(P), DOMAIN P), FractionSum(UnrealizedIn(P), DOMAIN P))
        = Whole(SumFunctionOnSet(w, DOMAIN P))
  BY <1>3, <1>6, PartsWhole
<1> QED
  BY <1>3, <1>4, <1>5, <1>7, <1>8, <1>9 DEF w, v

-----------------------------------------------------------------------------
(* The steps of the positions                                              *)

\* No position, no fill: after the constructor and after reset.
LEMMA HeldNothing ==
    ASSUME NEW P, P = << >>, NEW F, F = << >>
    PROVE  Held(P, F)
<1>1. DOMAIN P = {} /\ DOMAIN F = {} /\ F \in Seq(FillRecord)
  OBVIOUS
<1> QED
  BY <1>1, FS_EmptySet DEF Held

\* An entry changed to one that keeps what was paid.
LEMMA HeldChanged ==
    ASSUME NEW P, NEW F, Held(P, F), NEW s \in DOMAIN P,
           NEW p, Kept(p, PaidFor(F, s)), p.quantity = P[s].quantity,
           NEW Q, Q = [t \in DOMAIN P \cup {s} |-> IF t = s THEN p ELSE P[t]]
    PROVE  Held(Q, F)
<1>1. DOMAIN Q = DOMAIN P /\ Q[s] = p /\ \A t \in DOMAIN P : t # s => Q[t] = P[t]
  OBVIOUS
<1>2. \A t \in DOMAIN Q : Kept(Q[t], PaidFor(F, t)) /\ Q[t].quantity = Bought(F, t)
  BY <1>1 DEF Held
<1> QED
  BY <1>1, <1>2 DEF Held

\* An entry for a symbol that had none.
LEMMA HeldAdded ==
    ASSUME NEW P, NEW F, Held(P, F), NEW s \in Symbols, s \notin DOMAIN P,
           NEW Q, Q = [t \in DOMAIN P \cup {s} |-> IF t = s THEN Holdings!NewPosition ELSE P[t]]
    PROVE  Held(Q, F)
<1>1. /\ DOMAIN Q = DOMAIN P \cup {s} /\ Q[s] = Holdings!NewPosition
      /\ \A t \in DOMAIN P : t # s /\ Q[t] = P[t]
  OBVIOUS
<1>2. F \in Seq(FillRecord) /\ \A i \in DOMAIN F : F[i].symbol # s
  BY DEF Held
<1>3. Bought(F, s) = 0 /\ PaidFor(F, s) = 0
  BY <1>2, NoneBought
<1>4. Kept(Holdings!NewPosition, 0) /\ Holdings!NewPosition.quantity = 0
  BY NewPositionKept DEF Holdings!NewPosition
<1>5. \A t \in DOMAIN Q : Kept(Q[t], PaidFor(F, t)) /\ Q[t].quantity = Bought(F, t)
  BY <1>1, <1>3, <1>4 DEF Held
<1>6. IsFiniteSet(DOMAIN Q)
  BY <1>1, FS_AddElement DEF Held
<1> QED
  BY <1>1, <1>2, <1>5, <1>6 DEF Held

\* A fill.
LEMMA HeldFilled ==
    ASSUME NEW P, NEW F, Held(P, F), NEW r \in FillRecord,
           NEW p, p = (IF r.symbol \in DOMAIN P THEN P[r.symbol] ELSE Holdings!NewPosition),
           NEW Q, Q = [t \in DOMAIN P \cup {r.symbol} |->
                          IF t = r.symbol THEN Filled(p, r.side, r.qty, r.price) ELSE P[t]]
    PROVE  Held(Q, Append(F, r))
<1> DEFINE s == r.symbol
           u == Filled(p, r.side, r.qty, r.price)
           v == Holdings!Signed(r.side, r.qty)
           G == Append(F, r)
           n == Len(F) + 1
<1>1. s \in Symbols /\ r.side \in {"Buy", "Sell"} /\ r.qty \in Nat \ {0} /\ r.price \in Nat
  BY DEF FillRecord
<1>2. F \in Seq(FillRecord) /\ IsFiniteSet(DOMAIN P) /\ \A i \in DOMAIN F : F[i].symbol \in DOMAIN P
  BY DEF Held
<1>3. Kept(p, PaidFor(F, s)) /\ p.quantity = Bought(F, s) /\ PaidFor(F, s) \in Int
  <2>1. CASE s \in DOMAIN P
    BY <2>1, HeldParts
  <2>2. CASE s \notin DOMAIN P
    <3>1. \A i \in DOMAIN F : F[i].symbol # s
      BY <1>2, <2>2
    <3>2. Bought(F, s) = 0 /\ PaidFor(F, s) = 0
      BY <1>2, <3>1, NoneBought
    <3>3. Kept(Holdings!NewPosition, 0) /\ Holdings!NewPosition.quantity = 0
      BY NewPositionKept DEF Holdings!NewPosition
    <3> QED
      BY <2>2, <3>2, <3>3
  <2> QED
    BY <2>1, <2>2
<1>4. Traded(p, PaidFor(F, s))
  BY <1>3 DEF Kept, Traded
<1>5. Kept(u, PaidFor(F, s) + r.price * v) /\ u.quantity = p.quantity + v
  BY <1>1, <1>3, <1>4, FilledKept
<1>6. /\ Bought(G, s) = Bought(F, s) + v
      /\ PaidFor(G, s) = PaidFor(F, s) + r.price * v
      /\ \A t : t # s => Bought(G, t) = Bought(F, t) /\ PaidFor(G, t) = PaidFor(F, t)
  BY <1>2, FillAdds
<1>7. /\ G \in Seq(FillRecord) /\ G[n] = r /\ DOMAIN G = DOMAIN F \cup {n}
      /\ \A i \in DOMAIN F : G[i] = F[i]
  BY <1>2, AppendFacts
<1> HIDE DEF G, n, u, v
<1>8. DOMAIN Q = DOMAIN P \cup {s} /\ Q[s] = u /\ \A t \in DOMAIN P : t # s => Q[t] = P[t]
  BY DEF u
<1>9. \A t \in DOMAIN Q : Kept(Q[t], PaidFor(G, t)) /\ Q[t].quantity = Bought(G, t)
  <2>1. Kept(Q[s], PaidFor(G, s)) /\ Q[s].quantity = Bought(G, s)
    BY <1>3, <1>5, <1>6, <1>8
  <2>2. ASSUME NEW t \in DOMAIN P, t # s
        PROVE  Kept(Q[t], PaidFor(G, t)) /\ Q[t].quantity = Bought(G, t)
    <3>1. Kept(P[t], PaidFor(F, t)) /\ P[t].quantity = Bought(F, t)
      BY HeldParts
    <3> QED
      BY <1>6, <1>8, <2>2, <3>1
  <2> QED
    BY <1>8, <2>1, <2>2
<1>10. IsFiniteSet(DOMAIN Q)
  BY <1>2, <1>8, FS_AddElement
<1>11. \A i \in DOMAIN G : G[i].symbol \in DOMAIN Q
  BY <1>2, <1>7, <1>8
<1>12. \A t \in DOMAIN Q : t \in Symbols
  BY <1>1, <1>8 DEF Held
<1> QED
  BY <1>7, <1>9, <1>10, <1>11, <1>12 DEF Held, G

-----------------------------------------------------------------------------
(* The accounts                                                            *)

\* The constants of the scenario and the counters of the model.
Setting ==
    /\ scenario \in Scenarios /\ fee \in scenario.fees
    /\ now \in Nat /\ moved \in Int

\* The cash is the capital and what was moved, less what the fills paid.
Balanced == cash \in Int /\ cash = Capital + moved - Paid(fills)

\* The part of the invariant about PositionManager.
Account == Setting /\ Held(positions, fills) /\ Balanced

\* The types of the scenario's values.
LEMMA SettingParts ==
    ASSUME Setting
    PROVE  /\ \A s \in scenario.symbols : s \in Symbols
           /\ \A q \in scenario.quantities : q \in Nat \ {0}
           /\ \A p \in scenario.prices : p \in Nat
           /\ \A w \in scenario.waits : w \in Nat
           /\ \A a \in scenario.amounts : a \in Int
           /\ fee \in Nat
<1>1. scenario \in Scenario /\ fee \in scenario.fees
  BY AccountsAssumption DEF Setting
<1>2. /\ scenario.symbols \in SUBSET Symbols /\ scenario.quantities \in SUBSET (Nat \ {0})
      /\ scenario.prices \in SUBSET Nat /\ scenario.waits \in SUBSET Nat
      /\ scenario.fees \in SUBSET Nat /\ scenario.amounts \in SUBSET Int
  BY <1>1 DEF Scenario
<1>3. \A q \in scenario.quantities : q \in Nat \ {0}
  BY <1>2
<1>4. \A p \in scenario.prices : p \in Nat
  BY <1>2
<1>5. \A w \in scenario.waits : w \in Nat
  BY <1>2
<1>6. \A a \in scenario.amounts : a \in Int
  BY <1>2
<1> QED
  BY <1>1, <1>2, <1>3, <1>4, <1>5, <1>6

\* The record OnFill appends.
FillOf(s, side, qty, price) ==
    [symbol |-> s, side |-> side, qty |-> qty, price |-> price,
     ts |-> now, mids |-> Len(mids), marks |-> Len(marks)]

\* Init.
LEMMA AccountInit == Init => Account
<1> SUFFICES ASSUME Init
             PROVE  Account
  OBVIOUS
<1>1. positions = << >> /\ cash = Capital /\ fills = << >> /\ moved = 0 /\ now = 0
      /\ scenario \in Scenarios /\ fee \in scenario.fees
  BY DEF Init, Holdings!Init
<1>2. Held(positions, fills)
  BY <1>1, HeldNothing
<1>3. Paid(fills) = 0
  BY <1>1, NothingPaid
<1>4. Capital \in Int
  BY AccountsAssumption
<1>5. Balanced
  BY <1>1, <1>3, <1>4 DEF Balanced
<1> QED
  BY <1>1, <1>2, <1>5 DEF Account, Setting

-----------------------------------------------------------------------------
(* The steps of the accounts                                               *)

\* The records of the histories.
MidRecord == [ts : Nat, mid : Nat]
MarkRecord == [kind : {"mark", "close"}, value : Int]
Histories == mids \in Seq(MidRecord) /\ marks \in Seq(MarkRecord)

\* positions_[symbol] = p.
LEMMA EntryIs ==
    ASSUME NEW s, NEW p
    PROVE  Holdings!Entry(s, p) = [t \in DOMAIN positions \cup {s} |-> IF t = s THEN p ELSE positions[t]]
  BY DEF Holdings!Entry

\* PositionManager::on_fill.
LEMMA AccountOnFill ==
    ASSUME Account, Histories,
           NEW s \in scenario.symbols, NEW side \in {"Buy", "Sell"},
           NEW qty \in scenario.quantities, NEW price \in scenario.prices,
           OnFill(s, side, qty, price)
    PROVE  /\ Account' /\ FillOf(s, side, qty, price) \in FillRecord
           /\ fills' = Append(fills, FillOf(s, side, qty, price))
<1> DEFINE r == FillOf(s, side, qty, price)
           p == IF s \in DOMAIN positions THEN positions[s] ELSE Holdings!NewPosition
           v == Holdings!Signed(side, qty)
<1>1. Setting /\ Held(positions, fills) /\ Balanced
  BY DEF Account
<1>2. s \in Symbols /\ qty \in Nat \ {0} /\ price \in Nat /\ now \in Nat /\ moved \in Int
  BY <1>1, SettingParts DEF Setting
<1>3. Len(mids) \in Nat /\ Len(marks) \in Nat
  BY DEF Histories
<1>4. r \in FillRecord
  BY <1>2, <1>3 DEF FillOf, FillRecord
<1>5. r.symbol = s /\ r.side = side /\ r.qty = qty /\ r.price = price
  BY DEF FillOf
<1>6. /\ fills' = Append(fills, r) /\ scenario' = scenario /\ fee' = fee /\ now' = now /\ moved' = moved
      /\ Holdings!ApplyFill(s, side, qty, price)
  BY DEF OnFill, setting, FillOf
<1>7. /\ positions' = [t \in DOMAIN positions \cup {s} |->
                         IF t = s THEN Filled(p, side, qty, price) ELSE positions[t]]
      /\ cash' = cash - v * price
  BY <1>6 DEF Holdings!ApplyFill, Holdings!PositionOf, Holdings!Entry, Filled
<1> HIDE DEF r
<1>8. Held(positions', fills')
  <2>1. positions' = [t \in DOMAIN positions \cup {r.symbol} |->
                         IF t = r.symbol THEN Filled(p, r.side, r.qty, r.price) ELSE positions[t]]
    BY <1>5, <1>7
  <2>2. p = IF r.symbol \in DOMAIN positions THEN positions[r.symbol] ELSE Holdings!NewPosition
    BY <1>5
  <2> HIDE DEF p
  <2>3. Held(positions', Append(fills, r))
    BY <1>1, <1>4, <2>1, <2>2, HeldFilled
  <2> QED
    BY <1>6, <2>3
<1>9. Balanced'
  <2>1. fills \in Seq(FillRecord)
    BY <1>1 DEF Held
  <2>2. Paid(fills) \in Int
    BY <2>1, BoughtType
  <2>3. Paid(fills') = Paid(fills) + price * v
    BY <1>4, <1>5, <1>6, <2>1, FillAdds
  <2>4. v \in Int /\ price * v \in Int /\ v * price = price * v
    BY <1>2, SignedFacts, ProductIn
  <2>5. Capital \in Int
    BY AccountsAssumption
  <2> DEFINE k == price * v
             b == Paid(fills)
  <2>6. cash' = cash - k /\ Paid(fills') = b + k /\ moved' = moved
    BY <1>6, <1>7, <2>3, <2>4
  <2>7. cash \in Int /\ cash = Capital + moved - b
    BY <1>1 DEF Balanced
  <2>8. k \in Int /\ b \in Int /\ moved \in Int
    BY <1>2, <2>2, <2>4
  <2> HIDE DEF v, k, b
  <2>9. cash' \in Int /\ cash' = Capital + moved' - Paid(fills')
    BY <2>5, <2>6, <2>7, <2>8
  <2> QED
    BY <2>9 DEF Balanced
<1>10. Setting'
  BY <1>1, <1>6 DEF Setting
<1>11. Account'
  BY <1>8, <1>9, <1>10 DEF Account
<1> QED
  BY <1>4, <1>6, <1>11 DEF r

\* PositionManager::on_tick.
LEMMA AccountOnTick ==
    ASSUME Account, NEW s \in scenario.symbols, NEW mid \in scenario.prices,
           NEW wait \in scenario.waits, OnTick(s, mid, wait)
    PROVE  Account' /\ now' \in Nat /\ now' >= now /\ mid \in Nat
<1>1. Setting /\ Held(positions, fills) /\ Balanced
  BY DEF Account
<1>2. mid \in Nat /\ wait \in Nat /\ now \in Nat
  BY <1>1, SettingParts DEF Setting
<1>3. /\ now' = now + wait /\ scenario' = scenario /\ fee' = fee /\ moved' = moved
      /\ cash' = cash /\ fills' = fills
      /\ positions' = IF s \in DOMAIN positions
                      THEN Holdings!Entry(s, Holdings!UpdateUnrealized(positions[s], mid))
                      ELSE positions
  BY DEF OnTick, setting, Holdings!UpdatePrice
<1>4. now' \in Nat /\ now' >= now
  BY <1>2, <1>3
<1>5. Held(positions', fills')
  <2>1. CASE s \in DOMAIN positions
    <3> DEFINE u == Holdings!UpdateUnrealized(positions[s], mid)
    <3>1. Kept(positions[s], PaidFor(fills, s)) /\ PaidFor(fills, s) \in Int
      BY <1>1, <2>1, HeldParts
    <3>2. Traded(positions[s], PaidFor(fills, s))
      BY <3>1 DEF Kept, Traded
    <3>3. Kept(u, PaidFor(fills, s)) /\ u.quantity = positions[s].quantity
      BY <1>2, <3>1, <3>2, UpdateKept
    <3>4. positions' = [t \in DOMAIN positions \cup {s} |-> IF t = s THEN u ELSE positions[t]]
      BY <1>3, <2>1, EntryIs
    <3> HIDE DEF u
    <3>5. Held(positions', fills)
      BY <1>1, <2>1, <3>3, <3>4, HeldChanged
    <3> QED
      BY <1>3, <3>5
  <2>2. CASE s \notin DOMAIN positions
    BY <1>1, <1>3, <2>2
  <2> QED
    BY <2>1, <2>2
<1>6. Balanced' /\ Setting'
  BY <1>1, <1>3, <1>4 DEF Balanced, Setting
<1> QED
  BY <1>2, <1>4, <1>5, <1>6 DEF Account

\* A deposit or a withdrawal.
LEMMA AccountTransfer ==
    ASSUME Account, NEW amount \in scenario.amounts, Transfer(amount)
    PROVE  Account'
<1>1. Setting /\ Held(positions, fills) /\ Balanced
  BY DEF Account
<1>2. /\ now' = now /\ scenario' = scenario /\ fee' = fee /\ moved' = moved + amount
      /\ cash' = cash + amount /\ fills' = fills /\ positions' = positions
  BY DEF Transfer, setting, Holdings!AddCash
<1>3. amount \in Int /\ moved \in Int /\ cash \in Int /\ Capital \in Int
  BY <1>1, SettingParts, AccountsAssumption DEF Setting, Balanced
<1>4. Paid(fills) \in Int
  BY <1>1, BoughtType DEF Held
<1>5. Balanced'
  BY <1>1, <1>2, <1>3, <1>4 DEF Balanced
<1>6. Setting'
  BY <1>1, <1>2, <1>3 DEF Setting
<1> QED
  BY <1>1, <1>2, <1>5, <1>6 DEF Account

\* A query that creates the position it asks for.
LEMMA AccountQuery ==
    ASSUME Account, NEW s \in scenario.symbols, Query(s)
    PROVE  Account'
<1>1. Setting /\ Held(positions, fills) /\ Balanced
  BY DEF Account
<1>2. /\ now' = now /\ scenario' = scenario /\ fee' = fee /\ moved' = moved
      /\ cash' = cash /\ fills' = fills
      /\ positions' = Holdings!Entry(s, Holdings!PositionOf(s))
  BY DEF Query, setting, history, Holdings!GetPosition
<1>3. s \in Symbols
  BY <1>1, SettingParts
<1>4. Held(positions', fills)
  <2>1. CASE s \in DOMAIN positions
    <3>1. positions' = [t \in DOMAIN positions \cup {s} |-> IF t = s THEN positions[s] ELSE positions[t]]
      BY <1>2, <2>1 DEF Holdings!Entry, Holdings!PositionOf
    <3>2. Kept(positions[s], PaidFor(fills, s))
      BY <1>1, <2>1, HeldParts
    <3> QED
      BY <1>1, <2>1, <3>1, <3>2, HeldChanged
  <2>2. CASE s \notin DOMAIN positions
    <3>1. positions' = [t \in DOMAIN positions \cup {s} |->
                          IF t = s THEN Holdings!NewPosition ELSE positions[t]]
      BY <1>2, <2>2 DEF Holdings!Entry, Holdings!PositionOf
    <3> QED
      BY <1>1, <1>3, <2>2, <3>1, HeldAdded
  <2> QED
    BY <2>1, <2>2
<1>5. Balanced' /\ Setting'
  BY <1>1, <1>2 DEF Balanced, Setting
<1> QED
  BY <1>2, <1>4, <1>5 DEF Account

\* PositionManager::reset.
LEMMA AccountReset ==
    ASSUME Account, Reset
    PROVE  Account'
<1>1. /\ now' = 0 /\ scenario' = scenario /\ fee' = fee /\ moved' = 0
      /\ cash' = Capital /\ fills' = << >> /\ positions' = << >>
  BY DEF Reset, setting, Holdings!Reset
<1>2. Held(positions', fills')
  BY <1>1, HeldNothing
<1>3. Paid(fills') = 0 /\ Capital \in Int
  BY <1>1, NothingPaid, AccountsAssumption
<1>4. Balanced'
  BY <1>1, <1>3 DEF Balanced
<1>5. Setting'
  BY <1>1 DEF Account, Setting
<1> QED
  BY <1>2, <1>4, <1>5 DEF Account

\* The other steps leave the positions as they are.
LEMMA AccountSame ==
    ASSUME Account, UNCHANGED <<positionVars, setting, now, fills, moved>>
    PROVE  Account'
  BY DEF Account, Setting, Held, Balanced, positionVars, setting

\* The fold of the model is the recursion that the sums of fractions are proved about.
LEMMA FractionsFolded ==
    ASSUME NEW f
    PROVE  Holdings!SumOfFractions(f) = FractionSum(f, DOMAIN f)
<1>1. \A x, y : Holdings!Plus(x, y) = Plus(x, y)
  BY HoldingsFractions
<1>2. Holdings!Whole(0) = Whole(0)
  BY HoldingsFractions
<1> QED
  BY <1>1, <1>2
     DEF Holdings!SumOfFractions, Holdings!FoldFunction, Holdings!FoldFunctionOnSet,
         Holdings!MapThenFoldSet, FractionSum, FractionRound, ChosenOf

\* What the totals of the account are.
LEMMA Totals ==
    ASSUME Account
    PROVE  /\ Holdings!TotalPortfolioValue \in Int
           /\ Holdings!TotalPortfolioValue - Capital - moved = SumFunctionOnSet(GainIn(positions, fills), DOMAIN fills)
           /\ Holdings!Plus(Holdings!TotalRealized, Holdings!TotalUnrealized)
                = Holdings!Whole(Holdings!TotalPortfolioValue - Capital - moved)
<1> DEFINE w == SumFunctionOnSet(WorthIn(positions, fills), DOMAIN positions)
           v == SumFunctionOnSet(ValueIn(positions), DOMAIN positions)
<1>1. Setting /\ Held(positions, fills) /\ Balanced
  BY DEF Account
<1>2. Holdings!TotalPortfolioValue = cash + v
  BY DEF Holdings!TotalPortfolioValue, Holdings!SumFunction, Holdings!SumFunctionOnSet, SumFunctionOnSet,
         Holdings!FoldFunctionOnSet, Holdings!MapThenFoldSet, FoldFunctionOnSet, MapThenFoldSet, ValueIn
<1>3. Holdings!TotalRealized = FractionSum(RealizedIn(positions), DOMAIN positions)
  <2>1. Holdings!TotalRealized = Holdings!SumOfFractions(RealizedIn(positions))
    BY DEF Holdings!TotalRealized, RealizedIn
  <2>2. DOMAIN RealizedIn(positions) = DOMAIN positions
    BY DEF RealizedIn
  <2> QED
    BY <2>1, <2>2, FractionsFolded
<1>4. Holdings!TotalUnrealized = FractionSum(UnrealizedIn(positions), DOMAIN positions)
  <2>1. Holdings!TotalUnrealized = Holdings!SumOfFractions(UnrealizedIn(positions))
    BY DEF Holdings!TotalUnrealized, UnrealizedIn
  <2>2. DOMAIN UnrealizedIn(positions) = DOMAIN positions
    BY DEF UnrealizedIn
  <2> QED
    BY <2>1, <2>2, FractionsFolded
<1>5. /\ w \in Int /\ v \in Int /\ v = w + Paid(fills)
      /\ w = SumFunctionOnSet(GainIn(positions, fills), DOMAIN fills)
      /\ Plus(FractionSum(RealizedIn(positions), DOMAIN positions),
              FractionSum(UnrealizedIn(positions), DOMAIN positions)) = Whole(w)
  BY <1>1, HeldWorth
<1> HIDE DEF w, v
<1>6. Paid(fills) \in Int /\ cash \in Int /\ moved \in Int /\ Capital \in Int
  BY <1>1, BoughtType, AccountsAssumption DEF Held, Balanced, Setting
<1>7. cash + v \in Int /\ (cash + v) - Capital - moved = w
  BY <1>1, <1>5, <1>6 DEF Balanced
<1>8. Holdings!Plus(Holdings!TotalRealized, Holdings!TotalUnrealized) = Whole(w)
  BY <1>3, <1>4, <1>5, HoldingsFractions
<1> QED
  BY <1>2, <1>5, <1>7, <1>8, HoldingsFractions

\* The invariant says what ValueIsAccountedFor claims of the account.
LEMMA AccountValue == Account => ValueIsAccountedFor
<1> SUFFICES ASSUME Account
             PROVE  ValueIsAccountedFor
  OBVIOUS
<1>1. Held(positions, fills)
  BY DEF Account
<1>2. ASSUME NEW s \in DOMAIN positions
      PROVE  positions[s].quantity
               = SumFunction([i \in { i \in DOMAIN fills : fills[i].symbol = s } |->
                                Holdings!Signed(fills[i].side, fills[i].qty)])
  <2> DEFINE f == [i \in FillsIn(fills, s) |-> Holdings!Signed(fills[i].side, fills[i].qty)]
  <2>1. fills \in Seq(FillRecord) /\ positions[s].quantity = Bought(fills, s)
    BY <1>1 DEF Held
  <2>2. IsFiniteSet(FillsIn(fills, s)) /\ \A i \in FillsIn(fills, s) : SignedIn(fills)[i] \in Int
    BY <2>1, FillTerms
  <2>3. \A i \in FillsIn(fills, s) : f[i] = SignedIn(fills)[i]
    BY DEF SignedIn, FillsIn
  <2>4. DOMAIN f = FillsIn(fills, s)
    OBVIOUS
  <2> HIDE DEF f
  <2>5. SumFunctionOnSet(f, FillsIn(fills, s)) = Bought(fills, s)
    BY <2>2, <2>3, SumEqual DEF Bought
  <2>6. positions[s].quantity = SumFunction(f)
    BY <2>1, <2>4, <2>5 DEF SumFunction
  <2> QED
    BY <2>6 DEF f, FillsIn
<1>3. Holdings!TotalPortfolioValue - Capital - moved
        = SumFunction([i \in DOMAIN fills |-> Holdings!Signed(fills[i].side, fills[i].qty)
                                              * (positions[fills[i].symbol].last_price - fills[i].price)])
  <2>1. DOMAIN GainIn(positions, fills) = DOMAIN fills
    BY DEF GainIn
  <2>2. SumFunction(GainIn(positions, fills)) = Holdings!TotalPortfolioValue - Capital - moved
    BY <2>1, Totals DEF SumFunction
  <2> QED
    BY <2>2 DEF GainIn
<1>4. Holdings!Plus(Holdings!TotalRealized, Holdings!TotalUnrealized)
        = Holdings!Whole(Holdings!TotalPortfolioValue - Capital - moved)
  BY Totals
<1> QED
  BY <1>2, <1>3, <1>4 DEF ValueIsAccountedFor, SumOf

-----------------------------------------------------------------------------
(* The equity curve                                                        *)

\* An element no other exceeds is the maximum.
LEMMA MaxIs ==
    ASSUME NEW S, NEW m \in S, \A x \in S : x \in Int /\ x <= m
    PROVE  Max(S) = m
<1> DEFINE Top(x) == x \in S /\ \A y \in S : x >= y
<1>1. m \in Int
  OBVIOUS
<1>2. Top(m)
  BY <1>1
<1>3. \A x : Top(x) => x = m
  BY <1>1
<1>4. Max(S) = CHOOSE x \in S : \A y \in S : x >= y
  BY DEF Max
<1>5. Top(Max(S))
  BY <1>2, <1>4
<1> QED
  BY <1>3, <1>5

\* A finite set of integers has a maximum.
LEMMA MaxExists ==
    ASSUME NEW S, IsFiniteSet(S), S # {}, \A x \in S : x \in Int
    PROVE  Max(S) \in S /\ \A x \in S : x <= Max(S)
<1> DEFINE Good == { T \in SUBSET S : T = {} \/ \E m \in T : \A x \in T : x <= m }
<1>1. {} \in Good
  OBVIOUS
<1>2. ASSUME NEW T \in SUBSET S, NEW x \in S \ T, T \in Good
      PROVE  T \cup {x} \in Good
  <2>1. CASE T = {}
    BY <2>1
  <2>2. CASE T # {}
    <3>1. PICK m \in T : \A y \in T : y <= m
      BY <1>2, <2>2
    <3>2. m \in Int /\ x \in Int /\ \A y \in T : y \in Int
      OBVIOUS
    <3>3. \E k \in T \cup {x} : \A y \in T \cup {x} : y <= k
      <4>1. CASE x <= m
        BY <3>1, <3>2, <4>1
      <4>2. CASE m <= x
        BY <3>1, <3>2, <4>2
      <4> QED
        BY <3>2, <4>1, <4>2
    <3> QED
      BY <3>3
  <2> QED
    BY <2>1, <2>2
<1>3. S \in Good
  <2> HIDE DEF Good
  <2> QED
    BY <1>1, <1>2, ElementInduction
<1>4. PICK m \in S : \A x \in S : x <= m
  BY <1>3
<1>5. Max(S) = m
  BY <1>4, MaxIs
<1> QED
  BY <1>4, <1>5

\* The marks of the history, the last of them (0 before the first), the value at each, and the
\* fills since.
Marked(M) == { i \in DOMAIN M : M[i].kind = "mark" }
LastMark(M) == Max(Marked(M) \cup {0})
ValueAt(M, i) == IF i = 0 THEN Capital ELSE M[i].value
Values(M) == { ValueAt(M, i) : i \in DOMAIN M \cup {0} }
Since(F, l) == { i \in DOMAIN F : F[i].marks >= l }

\* The part of the invariant about PnLTracker.
Curve ==
    /\ current_equity \in Int /\ high_water_mark \in Int
    /\ total_costs \in Nat /\ total_volume \in Nat /\ trades \in Nat
    /\ daily_pnl \in Seq([open_equity : Int, close_equity : Int])
    /\ daily_returns \in Seq(Int \X Int)
    /\ \A i \in DOMAIN fills : fills[i].marks <= Len(marks)
    /\ current_equity = ValueAt(marks, LastMark(marks)) - fee * Cardinality(Since(fills, LastMark(marks)))
    /\ high_water_mark = Max(Values(marks))

\* The last mark is one, or 0.
LEMMA LastMarkFacts ==
    ASSUME NEW M \in Seq(MarkRecord)
    PROVE  /\ LastMark(M) \in Nat /\ LastMark(M) <= Len(M)
           /\ LastMark(M) \in Marked(M) \cup {0}
           /\ \A i \in Marked(M) : i <= LastMark(M)
<1> DEFINE S == Marked(M) \cup {0}
<1>1. DOMAIN M = 1 .. Len(M) /\ Len(M) \in Nat /\ IsFiniteSet(DOMAIN M)
  BY DomainFinite
<1>2. IsFiniteSet(Marked(M)) /\ \A i \in Marked(M) : i \in 1 .. Len(M)
  BY <1>1, FS_Subset DEF Marked
<1>3. IsFiniteSet(S) /\ S # {} /\ \A x \in S : x \in Int /\ 0 <= x /\ x <= Len(M)
  BY <1>1, <1>2, FS_AddElement
<1>4. Max(S) \in S /\ \A x \in S : x <= Max(S)
  BY <1>3, MaxExists
<1>5. LastMark(M) = Max(S) /\ \A i \in Marked(M) : i \in S
  BY DEF LastMark
<1>6. S = Marked(M) \cup {0}
  OBVIOUS
<1> HIDE DEF S
<1>7. LastMark(M) \in S /\ \A x \in S : x <= LastMark(M)
  BY <1>4, <1>5
<1>8. LastMark(M) \in Int /\ 0 <= LastMark(M) /\ LastMark(M) <= Len(M)
  BY <1>3, <1>7
<1>9. LastMark(M) \in Nat
  BY <1>8
<1> QED
  BY <1>5, <1>6, <1>7, <1>8, <1>9

\* The values are integers and have a maximum.
LEMMA ValuesFacts ==
    ASSUME NEW M \in Seq(MarkRecord)
    PROVE  /\ \A i \in DOMAIN M \cup {0} : ValueAt(M, i) \in Int
           /\ Max(Values(M)) \in Values(M) /\ Max(Values(M)) \in Int
           /\ \A v \in Values(M) : v \in Int /\ v <= Max(Values(M))
<1>1. DOMAIN M = 1 .. Len(M) /\ Len(M) \in Nat /\ IsFiniteSet(DOMAIN M \cup {0})
  BY DomainFinite, FS_AddElement
<1>2. ASSUME NEW i \in DOMAIN M \cup {0}
      PROVE  ValueAt(M, i) \in Int
  <2>1. CASE i = 0
    BY <2>1, AccountsAssumption DEF ValueAt
  <2>2. CASE i # 0
    <3>1. M[i] \in MarkRecord
      BY <2>2
    <3> QED
      BY <2>2, <3>1 DEF ValueAt, MarkRecord
  <2> QED
    BY <2>1, <2>2
<1>3. IsFiniteSet(Values(M))
  <2> DEFINE D == DOMAIN M \cup {0}
             f == [i \in D |-> ValueAt(M, i)]
  <2>1. f \in Surjection(D, Values(M))
    BY DEF Surjection, Values
  <2> HIDE DEF f
  <2> QED
    BY <1>1, <2>1, FS_Surjection
<1>4. Values(M) # {} /\ \A v \in Values(M) : v \in Int
  BY <1>2 DEF Values
<1>5. Max(Values(M)) \in Values(M) /\ \A v \in Values(M) : v <= Max(Values(M))
  BY <1>3, <1>4, MaxExists
<1> QED
  BY <1>2, <1>4, <1>5

\* The fills since a mark can be counted.
LEMMA SinceFacts ==
    ASSUME NEW F \in Seq(FillRecord), NEW l
    PROVE  IsFiniteSet(Since(F, l)) /\ Cardinality(Since(F, l)) \in Nat
<1>1. IsFiniteSet(Since(F, l))
  BY DomainFinite, FS_Subset DEF Since
<1> QED
  BY <1>1, FS_CardinalityType

\* A value marked or closed at.
LEMMA ValuesAdd ==
    ASSUME NEW M \in Seq(MarkRecord), NEW r \in MarkRecord
    PROVE  /\ Append(M, r) \in Seq(MarkRecord)
           /\ Max(Values(Append(M, r))) = IF r.value > Max(Values(M)) THEN r.value ELSE Max(Values(M))
           /\ \A i \in DOMAIN M \cup {0} : ValueAt(Append(M, r), i) = ValueAt(M, i)
           /\ r.kind = "mark" => /\ LastMark(Append(M, r)) = Len(M) + 1
                                 /\ ValueAt(Append(M, r), Len(M) + 1) = r.value
           /\ r.kind # "mark" => LastMark(Append(M, r)) = LastMark(M)
<1> DEFINE N == Append(M, r)
           n == Len(M) + 1
           top == Max(Values(M))
<1>1. /\ N \in Seq(MarkRecord) /\ Len(N) = n /\ N[n] = r
      /\ DOMAIN N = DOMAIN M \cup {n} /\ n \notin DOMAIN M /\ n \in Nat \ {0}
      /\ \A i \in DOMAIN M : N[i] = M[i]
  BY AppendFacts
<1>2. DOMAIN M = 1 .. Len(M) /\ Len(M) \in Nat
  BY DomainFinite
<1>3. r.value \in Int
  BY DEF MarkRecord
<1>4. top \in Values(M) /\ top \in Int /\ \A v \in Values(M) : v \in Int /\ v <= top
  BY ValuesFacts
<1> HIDE DEF N, top
<1>5. /\ \A i \in DOMAIN M \cup {0} : ValueAt(N, i) = ValueAt(M, i)
      /\ ValueAt(N, n) = r.value
  BY <1>1, <1>2 DEF ValueAt
<1>6. Values(N) = Values(M) \cup {r.value}
  <2>1. DOMAIN N \cup {0} = (DOMAIN M \cup {0}) \cup {n}
    BY <1>1
  <2> HIDE DEF n
  <2> QED
    BY <1>5, <2>1 DEF Values
<1>7. Max(Values(N)) = IF r.value > top THEN r.value ELSE top
  <2>1. CASE r.value > top
    <3>1. r.value \in Values(N) /\ \A v \in Values(N) : v \in Int /\ v <= r.value
      BY <1>3, <1>4, <1>6, <2>1
    <3> QED
      BY <2>1, <3>1, MaxIs
  <2>2. CASE ~(r.value > top)
    <3>1. top \in Values(N) /\ \A v \in Values(N) : v \in Int /\ v <= top
      BY <1>3, <1>4, <1>6, <2>2
    <3> QED
      BY <2>2, <3>1, MaxIs
  <2> QED
    BY <2>1, <2>2
<1>8. ASSUME r.kind = "mark"
      PROVE  LastMark(N) = n
  <2>1. Marked(N) = Marked(M) \cup {n}
    BY <1>1, <1>8 DEF Marked
  <2>2. n \in Marked(N) \cup {0} /\ \A x \in Marked(N) \cup {0} : x \in Int /\ x <= n
    BY <1>2, <2>1 DEF Marked
  <2> HIDE DEF n
  <2> QED
    BY <2>2, MaxIs DEF LastMark
<1>9. ASSUME r.kind # "mark"
      PROVE  LastMark(N) = LastMark(M)
  <2>1. Marked(N) = Marked(M)
    BY <1>1, <1>9 DEF Marked
  <2> QED
    BY <2>1 DEF LastMark
<1> QED
  BY <1>1, <1>5, <1>7, <1>8, <1>9 DEF N, top

\* The maximum of one value.
LEMMA MaxOne ==
    ASSUME NEW m \in Int
    PROVE  Max({m}) = m
<1>1. m \in {m} /\ \A x \in {m} : x \in Int /\ x <= m
  OBVIOUS
<1> QED
  BY <1>1, MaxIs

\* No fill, no mark.
Started ==
    /\ current_equity = Capital /\ high_water_mark = Capital
    /\ total_costs = 0 /\ total_volume = 0 /\ trades = 0
    /\ daily_pnl = << >> /\ daily_returns = << >> /\ fills = << >> /\ marks = << >>
    /\ fee \in Nat

\* The constructor and reset start a curve at the capital.
LEMMA CurveStart == Started => Curve
<1> SUFFICES ASSUME Started
             PROVE  Curve
  OBVIOUS
<1> USE DEF Started
<1>1. Capital \in Int
  BY AccountsAssumption
<1>2. DOMAIN marks = {} /\ DOMAIN fills = {}
  OBVIOUS
<1>3. LastMark(marks) = 0
  <2>1. Marked(marks) \cup {0} = {0}
    BY <1>2 DEF Marked
  <2> QED
    BY <2>1, MaxOne DEF LastMark
<1>4. Max(Values(marks)) = Capital
  <2>1. Values(marks) = {Capital}
    BY <1>2 DEF Values, ValueAt
  <2> QED
    BY <1>1, <2>1, MaxOne
<1>5. Cardinality(Since(fills, 0)) = 0
  <2>1. Since(fills, 0) = {}
    BY <1>2 DEF Since
  <2> QED
    BY <2>1, FS_EmptySet
<1>6. ValueAt(marks, 0) = Capital
  BY DEF ValueAt
<1>7. Capital = Capital - fee * 0
  BY <1>1
<1>8. daily_pnl \in Seq([open_equity : Int, close_equity : Int]) /\ daily_returns \in Seq(Int \X Int)
  OBVIOUS
<1> QED
  BY <1>1, <1>2, <1>3, <1>4, <1>5, <1>6, <1>7, <1>8 DEF Curve

\* Init.
LEMMA CurveInit == Init => Curve
<1> SUFFICES ASSUME Init
             PROVE  Curve
  OBVIOUS
<1>1. /\ current_equity = Capital /\ high_water_mark = Capital
      /\ total_costs = 0 /\ total_volume = 0 /\ trades = 0
      /\ daily_pnl = << >> /\ daily_returns = << >> /\ fills = << >> /\ marks = << >>
  BY DEF Init, Tracker!Init
<1>2. fee \in Nat
  BY AccountInit, SettingParts DEF Account
<1> QED
  BY <1>1, <1>2, CurveStart DEF Started

-----------------------------------------------------------------------------
(* The steps of the equity curve                                           *)

\* An element of a sequence has its type.
LEMMA LastElement ==
    ASSUME NEW R, NEW F \in Seq(R), NEW i \in DOMAIN F
    PROVE  F[i] \in R
  OBVIOUS

\* PnLTracker::reset.
LEMMA CurveReset ==
    ASSUME Account, Reset
    PROVE  Curve'
<1>1. /\ current_equity' = Capital /\ high_water_mark' = Capital
      /\ total_costs' = 0 /\ total_volume' = 0 /\ trades' = 0
      /\ daily_pnl' = << >> /\ daily_returns' = << >> /\ fills' = << >> /\ marks' = << >>
      /\ fee' = fee
  BY DEF Reset, Tracker!Reset, setting
<1>2. fee \in Nat
  BY SettingParts DEF Account
<1>3. Started'
  BY <1>1, <1>2 DEF Started
<1> QED
  BY <1>3, CurveStart, PTL

\* The types the steps need.
LEMMA CurveParts ==
    ASSUME Account, Histories, Curve
    PROVE  /\ fills \in Seq(FillRecord) /\ marks \in Seq(MarkRecord)
           /\ LastMark(marks) \in Nat /\ LastMark(marks) <= Len(marks) /\ Len(marks) \in Nat
           /\ ValueAt(marks, LastMark(marks)) \in Int
           /\ \A i \in DOMAIN fills : fills[i].marks \in Nat /\ fills[i].marks <= Len(marks)
           /\ fee \in Nat
<1>1. fills \in Seq(FillRecord) /\ marks \in Seq(MarkRecord) /\ Setting
  BY DEF Account, Held, Histories
<1>2. /\ LastMark(marks) \in Nat /\ LastMark(marks) <= Len(marks)
      /\ LastMark(marks) \in Marked(marks) \cup {0}
  BY <1>1, LastMarkFacts
<1>3. LastMark(marks) \in DOMAIN marks \cup {0}
  BY <1>2 DEF Marked
<1>4. ValueAt(marks, LastMark(marks)) \in Int
  BY <1>1, <1>3, ValuesFacts
<1>5. \A i \in DOMAIN fills : fills[i].marks \in Nat /\ fills[i].marks <= Len(marks)
  BY <1>1, RecordParts DEF Curve
<1>6. fee \in Nat /\ Len(marks) \in Nat
  BY <1>1, SettingParts
<1> QED
  BY <1>1, <1>2, <1>4, <1>5, <1>6

\* PnLTracker::on_fill takes the cost from the equity.
LEMMA CurveOnFill ==
    ASSUME Account, Histories, Curve,
           NEW s \in scenario.symbols, NEW side \in {"Buy", "Sell"},
           NEW qty \in scenario.quantities, NEW price \in scenario.prices,
           OnFill(s, side, qty, price)
    PROVE  Curve'
<1> DEFINE r == FillOf(s, side, qty, price)
           l == LastMark(marks)
           n == Len(fills) + 1
<1>1. /\ fills \in Seq(FillRecord) /\ marks \in Seq(MarkRecord)
      /\ l \in Nat /\ l <= Len(marks) /\ Len(marks) \in Nat /\ ValueAt(marks, l) \in Int
      /\ \A i \in DOMAIN fills : fills[i].marks \in Nat /\ fills[i].marks <= Len(marks)
      /\ fee \in Nat
  BY CurveParts
<1>2. r \in FillRecord /\ fills' = Append(fills, r)
  BY AccountOnFill
<1>3. r.marks = Len(marks)
  BY DEF FillOf
<1>4. /\ trades' = trades + 1 /\ total_costs' = total_costs + fee
      /\ total_volume' = total_volume + price * qty
      /\ current_equity' = current_equity - fee
      /\ high_water_mark' = high_water_mark /\ daily_pnl' = daily_pnl /\ daily_returns' = daily_returns
      /\ marks' = marks /\ fee' = fee
  BY DEF OnFill, setting, Tracker!RecordTrade
<1> HIDE DEF r
<1>5. /\ fills'[n] = r /\ DOMAIN fills' = DOMAIN fills \cup {n} /\ n \notin DOMAIN fills
      /\ \A i \in DOMAIN fills : fills'[i] = fills[i]
  BY <1>1, <1>2, AppendFacts
<1> HIDE DEF n, l
<1>6. Since(fills', l) = Since(fills, l) \cup {n} /\ n \notin Since(fills, l)
  BY <1>1, <1>3, <1>5 DEF Since
<1>7. /\ Cardinality(Since(fills', l)) = Cardinality(Since(fills, l)) + 1
      /\ Cardinality(Since(fills, l)) \in Nat
  BY <1>1, <1>6, SinceFacts, FS_AddElement
<1>8. current_equity' = ValueAt(marks, l) - fee * Cardinality(Since(fills', l))
  <2>1. current_equity = ValueAt(marks, l) - fee * Cardinality(Since(fills, l))
    BY DEF Curve, l
  <2>2. ASSUME NEW k \in Nat, NEW v \in Int, NEW f \in Nat
        PROVE  (v - f * k) - f = v - f * (k + 1)
    <3>1. f * (k + 1) = f * k + f /\ f * k \in Int
      OBVIOUS
    <3> QED
      BY <3>1
  <2> QED
    BY <1>1, <1>4, <1>7, <2>1, <2>2
<1>9. total_costs' \in Nat /\ total_volume' \in Nat /\ trades' \in Nat /\ current_equity' \in Int
  <2>1. qty \in Nat /\ price \in Nat /\ price * qty \in Nat
    BY SettingParts DEF Account
  <2>2. total_costs \in Nat /\ total_volume \in Nat /\ trades \in Nat /\ current_equity \in Int
    BY DEF Curve
  <2>3. \A x, y \in Nat : x + y \in Nat
    OBVIOUS
  <2>4. \A x \in Int, y \in Nat : x - y \in Int
    OBVIOUS
  <2>5. total_costs' \in Nat /\ total_volume' \in Nat
    BY <1>1, <1>4, <2>1, <2>2, <2>3, Zenon
  <2>6. trades' \in Nat
    BY <1>4, <2>2
  <2>7. current_equity' \in Int
    BY <1>1, <1>4, <2>2, <2>4, Zenon
  <2> QED
    BY <2>5, <2>6, <2>7
<1>10. \A i \in DOMAIN fills' : fills'[i].marks <= Len(marks')
  BY <1>1, <1>3, <1>4, <1>5
<1>11. /\ high_water_mark' \in Int /\ high_water_mark' = Max(Values(marks'))
       /\ daily_pnl' \in Seq([open_equity : Int, close_equity : Int])
       /\ daily_returns' \in Seq(Int \X Int)
  BY <1>4 DEF Curve
<1>12. current_equity' = ValueAt(marks', LastMark(marks')) - fee' * Cardinality(Since(fills', LastMark(marks')))
  BY <1>4, <1>8 DEF l
<1> QED
  BY <1>9, <1>10, <1>11, <1>12 DEF Curve

\* What a mark and a day's end have in common.
LEMMA ValuedFacts ==
    ASSUME Account, Histories, Curve, NEW kind \in {"mark", "close"}, Valued(kind)
    PROVE  LET r == [kind |-> kind, value |-> Holdings!TotalPortfolioValue]
           IN  /\ r \in MarkRecord /\ marks' = Append(marks, r) /\ Histories'
               /\ mids' = mids /\ fills' = fills /\ fee' = fee /\ fills \in Seq(FillRecord)
               /\ Account'
               /\ \A i \in DOMAIN fills' : fills'[i].marks <= Len(marks) /\ fills'[i].marks <= Len(marks')
               /\ Max(Values(marks')) = IF Holdings!TotalPortfolioValue > high_water_mark
                                        THEN Holdings!TotalPortfolioValue ELSE high_water_mark
               /\ Max(Values(marks')) \in Int
<1> DEFINE v == Holdings!TotalPortfolioValue
           r == [kind |-> kind, value |-> v]
<1>1. /\ marks' = Append(marks, r) /\ UNCHANGED <<positionVars, setting, now, fills, moved>>
      /\ mids' = mids /\ fills' = fills /\ fee' = fee
  BY DEF Valued, setting
<1>2. v \in Int
  BY Totals
<1>3. r \in MarkRecord
  BY <1>2 DEF MarkRecord
<1>4. /\ fills \in Seq(FillRecord) /\ marks \in Seq(MarkRecord) /\ Len(marks) \in Nat
      /\ \A i \in DOMAIN fills : fills[i].marks \in Nat /\ fills[i].marks <= Len(marks)
  BY CurveParts
<1>5. marks' \in Seq(MarkRecord) /\ Len(marks') = Len(marks) + 1
  BY <1>1, <1>3, <1>4
<1>6. Histories'
  BY <1>1, <1>5 DEF Histories
<1>7. Account'
  BY <1>1, AccountSame
<1>8. \A i \in DOMAIN fills' : fills'[i].marks <= Len(marks) /\ fills'[i].marks <= Len(marks')
  BY <1>1, <1>4, <1>5
<1>9. r.value = v /\ high_water_mark = Max(Values(marks))
  BY DEF Curve
<1> HIDE DEF v, r
<1>10. Max(Values(marks')) = IF v > high_water_mark THEN v ELSE high_water_mark
  BY <1>1, <1>3, <1>4, <1>9, ValuesAdd
<1>11. Max(Values(marks')) \in Int
  BY <1>2, <1>10 DEF Curve
<1> QED
  BY <1>1, <1>3, <1>4, <1>6, <1>7, <1>8, <1>10, <1>11 DEF v, r

\* mark_to_market sets the equity to the value, costs or no costs.
LEMMA CurveMark ==
    ASSUME Account, Histories, Curve, Mark
    PROVE  Curve'
<1> DEFINE v == Holdings!TotalPortfolioValue
           r == [kind |-> "mark", value |-> v]
           n == Len(marks) + 1
<1>1. Valued("mark") /\ Tracker!MarkToMarket(v)
  BY DEF Mark
<1>2. /\ r \in MarkRecord /\ marks' = Append(marks, r)
      /\ fills' = fills /\ fee' = fee /\ fills \in Seq(FillRecord)
      /\ \A i \in DOMAIN fills' : fills'[i].marks <= Len(marks) /\ fills'[i].marks <= Len(marks')
      /\ Max(Values(marks')) = (IF v > high_water_mark THEN v ELSE high_water_mark)
      /\ Max(Values(marks')) \in Int
  BY <1>1, ValuedFacts
<1>3. v \in Int
  BY Totals
<1>4. /\ current_equity' = v
      /\ high_water_mark' = IF v > high_water_mark THEN v ELSE high_water_mark
      /\ daily_returns' = Append(daily_returns, <<current_equity, v>>)
      /\ total_costs' = total_costs /\ total_volume' = total_volume /\ trades' = trades
      /\ daily_pnl' = daily_pnl
  BY <1>1 DEF Tracker!MarkToMarket, Tracker!RaiseHighWater
<1>5. r.kind = "mark" /\ r.value = v /\ marks \in Seq(MarkRecord)
  BY DEF Histories
<1> HIDE DEF r, v
<1>6. LastMark(marks') = n /\ ValueAt(marks', n) = v
  BY <1>2, <1>5, ValuesAdd
<1>7. Cardinality(Since(fills', n)) = 0
  <2>1. Len(marks) \in Nat /\ \A i \in DOMAIN fills' : fills'[i].marks \in Nat
    BY <1>2, <1>5, RecordParts
  <2>2. Since(fills', n) = {}
    BY <1>2, <2>1 DEF Since
  <2> QED
    BY <2>2, FS_EmptySet
<1>8. current_equity' = ValueAt(marks', LastMark(marks')) - fee' * Cardinality(Since(fills', LastMark(marks')))
  <2>1. fee' \in Nat
    BY <1>2, CurveParts
  <2>2. \A x \in Int, y \in Nat : x = x - y * 0
    OBVIOUS
  <2> QED
    BY <1>3, <1>4, <1>6, <1>7, <2>1, <2>2
<1>9. daily_returns' \in Seq(Int \X Int)
  <2>1. <<current_equity, v>> \in Int \X Int /\ daily_returns \in Seq(Int \X Int)
    BY <1>3 DEF Curve
  <2> QED
    BY <1>4, <2>1
<1>10. /\ high_water_mark' = Max(Values(marks')) /\ high_water_mark' \in Int
       /\ current_equity' \in Int
  BY <1>2, <1>3, <1>4
<1>11. /\ total_costs' \in Nat /\ total_volume' \in Nat /\ trades' \in Nat
       /\ daily_pnl' \in Seq([open_equity : Int, close_equity : Int])
  BY <1>4 DEF Curve
<1>12. \A i \in DOMAIN fills' : fills'[i].marks <= Len(marks')
  BY <1>2
<1> QED
  BY <1>8, <1>9, <1>10, <1>11, <1>12 DEF Curve

\* end_of_day records the day's return and raises the high-water mark.
LEMMA CurveEndOfDay ==
    ASSUME Account, Histories, Curve, EndOfDay
    PROVE  Curve'
<1> DEFINE v == Holdings!TotalPortfolioValue
           r == [kind |-> "close", value |-> v]
           l == LastMark(marks)
           open == IF daily_pnl = << >> THEN Capital ELSE daily_pnl[Len(daily_pnl)].close_equity
           day == [open_equity |-> open, close_equity |-> v]
<1>1. Valued("close") /\ Tracker!EndOfDay(v)
  BY DEF EndOfDay
<1>2. /\ r \in MarkRecord /\ marks' = Append(marks, r)
      /\ fills' = fills /\ fee' = fee /\ fills \in Seq(FillRecord)
      /\ \A i \in DOMAIN fills' : fills'[i].marks <= Len(marks) /\ fills'[i].marks <= Len(marks')
      /\ Max(Values(marks')) = (IF v > high_water_mark THEN v ELSE high_water_mark)
      /\ Max(Values(marks')) \in Int
  BY <1>1, ValuedFacts
<1>3. v \in Int
  BY Totals
<1>4. /\ current_equity' = current_equity
      /\ high_water_mark' = (IF v > high_water_mark THEN v ELSE high_water_mark)
      /\ daily_returns' = daily_returns
      /\ total_costs' = total_costs /\ total_volume' = total_volume /\ trades' = trades
      /\ daily_pnl' = Append(daily_pnl, day)
  BY <1>1 DEF Tracker!EndOfDay, Tracker!RaiseHighWater
<1>5. r.kind # "mark" /\ r.value = v /\ marks \in Seq(MarkRecord)
  BY DEF Histories
<1>6. open \in Int
  <2>1. daily_pnl \in Seq([open_equity : Int, close_equity : Int])
    BY DEF Curve
  <2>2. CASE daily_pnl = << >>
    BY <2>2, AccountsAssumption
  <2>3. CASE daily_pnl # << >>
    <3> DEFINE R == [open_equity : Int, close_equity : Int]
    <3>1. daily_pnl \in Seq(R) /\ R = [open_equity : Int, close_equity : Int]
      BY <2>1
    <3> HIDE DEF R
    <3>2. daily_pnl[Len(daily_pnl)] \in R
      <4>1. DOMAIN daily_pnl = 1 .. Len(daily_pnl) /\ Len(daily_pnl) \in Nat
        BY <3>1
      <4>2. Len(daily_pnl) # 0
        BY <2>3, <3>1
      <4>3. Len(daily_pnl) \in DOMAIN daily_pnl
        BY <4>1, <4>2
      <4>4. daily_pnl \in Seq(R)
        BY <3>1
      <4> QED
        BY <4>3, <4>4, LastElement
    <3>3. daily_pnl[Len(daily_pnl)].close_equity \in Int
      BY <3>1, <3>2
    <3> QED
      BY <2>3, <3>3
  <2> QED
    BY <2>2, <2>3
<1>7. daily_pnl' \in Seq([open_equity : Int, close_equity : Int])
  <2>1. day \in [open_equity : Int, close_equity : Int]
    BY <1>3, <1>6
  <2> HIDE DEF day
  <2> QED
    BY <1>4, <2>1 DEF Curve
<1> HIDE DEF r, v, day
<1>8. LastMark(marks') = l /\ ValueAt(marks', l) = ValueAt(marks, l)
  <2>1. l \in Marked(marks) \cup {0}
    BY <1>5, LastMarkFacts
  <2>2. l \in DOMAIN marks \cup {0}
    BY <2>1 DEF Marked
  <2> QED
    BY <1>2, <1>5, <2>2, ValuesAdd
<1>9. current_equity' = ValueAt(marks', LastMark(marks')) - fee' * Cardinality(Since(fills', LastMark(marks')))
  BY <1>2, <1>4, <1>8 DEF Curve
<1>10. /\ high_water_mark' = Max(Values(marks')) /\ high_water_mark' \in Int
  BY <1>2, <1>4
<1>11. /\ total_costs' \in Nat /\ total_volume' \in Nat /\ trades' \in Nat
       /\ daily_returns' \in Seq(Int \X Int) /\ current_equity' \in Int
  BY <1>4 DEF Curve
<1>12. \A i \in DOMAIN fills' : fills'[i].marks <= Len(marks')
  BY <1>2
<1> QED
  BY <1>7, <1>9, <1>10, <1>11, <1>12 DEF Curve

\* The other steps leave the tracker as it is.
LEMMA CurveSame ==
    ASSUME Curve, UNCHANGED <<trackerVars, fills, marks, fee>>
    PROVE  Curve'
<1>1. /\ current_equity' = current_equity /\ high_water_mark' = high_water_mark
      /\ total_costs' = total_costs /\ total_volume' = total_volume /\ trades' = trades
      /\ daily_pnl' = daily_pnl /\ daily_returns' = daily_returns
      /\ fills' = fills /\ marks' = marks /\ fee' = fee
  BY DEF trackerVars
<1> QED
  BY <1>1 DEF Curve

-----------------------------------------------------------------------------
(* The markout                                                             *)

\* An element no other is below is the minimum.
LEMMA MinIs ==
    ASSUME NEW S, NEW m \in S, \A x \in S : x \in Int /\ m <= x
    PROVE  Min(S) = m
<1> DEFINE Bottom(x) == x \in S /\ \A y \in S : x =< y
<1>1. m \in Int
  OBVIOUS
<1>2. Bottom(m)
  BY <1>1
<1>3. \A x : Bottom(x) => x = m
  BY <1>1
<1>4. Min(S) = CHOOSE x \in S : \A y \in S : x =< y
  BY DEF Min
<1>5. Bottom(Min(S))
  BY <1>2, <1>4
<1> QED
  BY <1>3, <1>5

\* A set of natural numbers that is not empty has a minimum.
LEMMA MinExists ==
    ASSUME NEW S, S # {}, \A x \in S : x \in Nat
    PROVE  Min(S) \in S /\ \A x \in S : Min(S) <= x
<1>1. PICK z \in S : TRUE
  OBVIOUS
<1> DEFINE Good == { n \in Nat : (\E x \in S : x <= n) => \E m \in S : \A x \in S : m <= x }
<1>2. 0 \in Good
  BY DEF Good
<1>3. ASSUME NEW n \in Nat, n \in Good
      PROVE  n + 1 \in Good
  <2> SUFFICES ASSUME NEW x \in S, x <= n + 1
               PROVE  \E m \in S : \A y \in S : m <= y
    OBVIOUS
  <2>1. CASE \E y \in S : y <= n
    BY <1>3, <2>1
  <2>2. CASE \A y \in S : ~(y <= n)
    <3>1. x \in Nat /\ \A y \in S : y \in Nat
      OBVIOUS
    <3>2. \A y \in S : x <= y
      BY <2>2, <3>1
    <3> QED
      BY <3>2
  <2> QED
    BY <2>1, <2>2
<1>4. z \in Nat /\ z <= z
  OBVIOUS
<1>5. z \in Good
  <2> HIDE DEF Good
  <2> QED
    BY <1>2, <1>3, <1>4, NatSetInduction
<1>6. PICK m \in S : \A x \in S : m <= x
  BY <1>4, <1>5
<1>7. Min(S) = m
  BY <1>6, MinIs
<1> QED
  BY <1>6, <1>7

\* h maps S one to one onto T.
OneToOne(h, S, T) ==
    /\ \A x \in S : h[x] \in T
    /\ \A x, y \in S : h[x] = h[y] => x = y
    /\ \A z \in T : \E x \in S : h[x] = z

\* Sets that are mapped one to one have as many elements.
LEMMA SameNumber ==
    ASSUME NEW S, IsFiniteSet(S), NEW T, NEW h, OneToOne(h, S, T)
    PROVE  IsFiniteSet(T) /\ Cardinality(T) = Cardinality(S)
<1> DEFINE g == [x \in S |-> h[x]]
<1>1. g \in Bijection(S, T)
  BY DEF OneToOne, Bijection, Injection, Surjection, IsInjective
<1>2. ExistsBijection(S, T)
  <2> HIDE DEF g
  <2> QED
    BY <1>1 DEF ExistsBijection
<1> QED
  BY <1>2, FS_Bijection

-----------------------------------------------------------------------------
\* The horizons; the mids that answer fill i at a horizon: those recorded after it, at or past
\* its time; the fills that have an answer, those of them that had a price, what each moved, weighed and won; its pending
\* evaluation, the evaluations awaited, and the summary of a horizon, all from the histories.
Ahead == 1 .. Len(Horizons)

Answers(F, M, i, h) == { j \in DOMAIN M : j > F[i].mids /\ M[j].ts >= F[i].ts + Horizons[h] }
Answered(F, M, h) == { i \in DOMAIN F : Answers(F, M, i, h) # {} }
Resolved(F, M, h) == { i \in Answered(F, M, h) : F[i].price > 0 }
MoveIn(F, M, h) ==
    [i \in Resolved(F, M, h) |->
        Holdings!Signed(F[i].side, 1) * (M[Min(Answers(F, M, i, h))].mid - F[i].price)]
WeightIn(F) == [i \in DOMAIN F |-> F[i].qty]
Wins(F, M, h) == { i \in Resolved(F, M, h) : MoveIn(F, M, h)[i] > 0 }

Evaluation(F, i, h) ==
    [fill |-> i, resolve_time |-> F[i].ts + Horizons[h], horizon_index |-> h,
     sign |-> IF F[i].side = "Buy" THEN 1 ELSE -1, fill_price |-> F[i].price, quantity |-> F[i].qty]

Awaited(F, M, e) ==
    \E i \in DOMAIN F : \E h \in Ahead : Answers(F, M, i, h) = {} /\ e = Evaluation(F, i, h)

Summary(F, M, h) ==
    [count |-> Cardinality(Resolved(F, M, h)),
     sum_per_share |-> SumFunctionOnSet(MoveIn(F, M, h), Resolved(F, M, h)),
     sum_weight |-> SumFunctionOnSet(WeightIn(F), Resolved(F, M, h)),
     wins |-> Cardinality(Wins(F, M, h))]

\* Fills and mids are in the order of time.
InOrder(F, M, t) ==
    /\ F \in Seq(FillRecord) /\ M \in Seq(MidRecord) /\ t \in Nat
    /\ \A i \in DOMAIN F : F[i].ts <= t /\ F[i].mids <= Len(M)
    /\ \A j \in DOMAIN M : M[j].ts <= t

\* The types of the horizons.
LEMMA HorizonType ==
    /\ \A h \in Ahead : Horizons[h] \in Nat
    /\ IsFiniteSet(Ahead) /\ Len(Horizons) \in Nat
<1>1. Horizons \in Seq(Nat)
  BY AccountsAssumption
<1>2. DOMAIN Horizons = Ahead /\ Len(Horizons) \in Nat
  BY <1>1 DEF Ahead
<1>3. \A h \in Ahead : Horizons[h] \in Nat
  BY <1>1, <1>2, LastElement
<1>4. IsFiniteSet(Ahead)
  BY <1>2, FS_Interval DEF Ahead
<1> QED
  BY <1>2, <1>3, <1>4

\* The types of the histories' fields.
LEMMA OrderParts ==
    ASSUME NEW F, NEW M, NEW t, InOrder(F, M, t)
    PROVE  /\ \A i \in DOMAIN F : F[i].ts \in Nat /\ F[i].ts <= t /\ F[i].mids \in Nat /\ F[i].mids <= Len(M)
           /\ \A j \in DOMAIN M : M[j].ts \in Nat /\ M[j].ts <= t /\ M[j].mid \in Nat /\ j \in Nat /\ j <= Len(M)
           /\ t \in Nat /\ Len(M) \in Nat /\ F \in Seq(FillRecord) /\ M \in Seq(MidRecord)
<1>1. F \in Seq(FillRecord) /\ M \in Seq(MidRecord) /\ t \in Nat
  BY DEF InOrder
<1>2. \A i \in DOMAIN F : F[i].ts \in Nat /\ F[i].mids \in Nat
  BY <1>1, RecordParts
<1>3. DOMAIN M = 1 .. Len(M) /\ Len(M) \in Nat
  BY <1>1, DomainFinite
<1>4. \A j \in DOMAIN M : M[j] \in MidRecord
  BY <1>1, LastElement
<1>5. \A j \in DOMAIN M : M[j].ts \in Nat /\ M[j].mid \in Nat
  BY <1>4 DEF MidRecord
<1> QED
  BY <1>1, <1>2, <1>3, <1>5 DEF InOrder

\* The resolved fills can be counted.
LEMMA ResolvedFinite ==
    ASSUME NEW F \in Seq(FillRecord), NEW M, NEW h
    PROVE  /\ IsFiniteSet(Resolved(F, M, h)) /\ Resolved(F, M, h) \in SUBSET DOMAIN F
           /\ IsFiniteSet(Wins(F, M, h)) /\ Wins(F, M, h) \in SUBSET Resolved(F, M, h)
           /\ Cardinality(Resolved(F, M, h)) \in 0 .. Len(F)
           /\ Cardinality(Wins(F, M, h)) \in 0 .. Cardinality(Resolved(F, M, h))
<1>1. DOMAIN F = 1 .. Len(F) /\ Len(F) \in Nat /\ IsFiniteSet(DOMAIN F)
  BY DomainFinite
<1>2. Cardinality(DOMAIN F) = Len(F)
  <2> DEFINE n == Len(F)
  <2>1. DOMAIN F = 1 .. n /\ n \in Int /\ 1 \in Int /\ ~ (1 > n + 1) /\ n - 1 + 1 = n
    BY <1>1
  <2> HIDE DEF n
  <2>2. Cardinality(1 .. n) = n - 1 + 1
    <3>1. Cardinality(1 .. n) = IF 1 > n THEN 0 ELSE n - 1 + 1
      BY <2>1, FS_Interval
    <3>2. 1 > n => n = 0
      BY <2>1
    <3> QED
      BY <3>1, <3>2
  <2> QED
    BY <2>1, <2>2 DEF n
<1>3. Resolved(F, M, h) \in SUBSET DOMAIN F
  BY DEF Resolved, Answered
<1>4. /\ IsFiniteSet(Resolved(F, M, h)) /\ Cardinality(Resolved(F, M, h)) \in Nat
      /\ Cardinality(Resolved(F, M, h)) <= Len(F)
  BY <1>1, <1>2, <1>3, FS_Subset, FS_CardinalityType
<1>5. Wins(F, M, h) \in SUBSET Resolved(F, M, h)
  BY DEF Wins
<1>6. /\ IsFiniteSet(Wins(F, M, h)) /\ Cardinality(Wins(F, M, h)) \in Nat
      /\ Cardinality(Wins(F, M, h)) <= Cardinality(Resolved(F, M, h))
  BY <1>4, <1>5, FS_Subset, FS_CardinalityType
<1> QED
  BY <1>1, <1>3, <1>4, <1>5, <1>6

\* The first answer exists, and the move is an integer.
LEMMA MoveType ==
    ASSUME NEW F, NEW M, NEW t, InOrder(F, M, t), NEW h, NEW i \in Resolved(F, M, h)
    PROVE  /\ Min(Answers(F, M, i, h)) \in Answers(F, M, i, h)
           /\ \A j \in Answers(F, M, i, h) : Min(Answers(F, M, i, h)) <= j /\ j \in DOMAIN M /\ j \in Nat
           /\ MoveIn(F, M, h)[i]
                = Holdings!Signed(F[i].side, 1) * (M[Min(Answers(F, M, i, h))].mid - F[i].price)
           /\ MoveIn(F, M, h)[i] \in Int
<1>1. Answers(F, M, i, h) # {} /\ i \in DOMAIN F
  BY DEF Resolved, Answered
<1>2. \A j \in Answers(F, M, i, h) : j \in DOMAIN M /\ j \in Nat
  BY OrderParts DEF Answers
<1>3. /\ Min(Answers(F, M, i, h)) \in Answers(F, M, i, h)
      /\ \A j \in Answers(F, M, i, h) : Min(Answers(F, M, i, h)) <= j
  BY <1>1, <1>2, MinExists
<1>4. MoveIn(F, M, h)[i]
        = Holdings!Signed(F[i].side, 1) * (M[Min(Answers(F, M, i, h))].mid - F[i].price)
  BY DEF MoveIn
<1> DEFINE a == M[Min(Answers(F, M, i, h))].mid
           b == F[i].price
           c == Holdings!Signed(F[i].side, 1)
<1>5. a \in Int
  BY <1>2, <1>3, OrderParts
<1>6. b \in Int /\ c \in Int
  <2>1. F[i].side \in {"Buy", "Sell"} /\ F[i].price \in Nat
    BY <1>1, OrderParts, RecordParts
  <2> QED
    BY <2>1, SignedFacts
<1>7. c * (a - b) \in Int
  <2> HIDE DEF a, b, c
  <2> QED
    BY <1>5, <1>6
<1> QED
  BY <1>2, <1>3, <1>4, <1>7

-----------------------------------------------------------------------------
(* A fill and the markout                                                  *)

\* The analysis of the histories F and M: pend awaits the rest, acc sums up the resolved.
Analyzed(F, M, pend, acc, n, t) ==
    /\ InOrder(F, M, t)
    /\ n = Len(F)
    /\ IsFiniteSet(pend) /\ \A e : e \in pend <=> Awaited(F, M, e)
    /\ acc = [h \in Ahead |-> Summary(F, M, h)]

\* The image of a finite set is finite.
LEMMA Image ==
    ASSUME NEW S, IsFiniteSet(S), NEW f, NEW T, \A z \in T : \E x \in S : z = f[x],
           \A x \in S : f[x] \in T
    PROVE  IsFiniteSet(T)
<1> DEFINE g == [x \in S |-> f[x]]
<1>1. g \in Surjection(S, T)
  BY DEF Surjection
<1> HIDE DEF g
<1> QED
  BY <1>1, FS_Surjection

\* G has one fill more than F, the n-th, and no mid of M answers it.
Unanswered(F, G, M, n) ==
    \A h : /\ Answers(G, M, n, h) = {}
           /\ \A i \in DOMAIN F : /\ Answers(G, M, i, h) = Answers(F, M, i, h)
                                  /\ Evaluation(G, i, h) = Evaluation(F, i, h)
           /\ Summary(G, M, h) = Summary(F, M, h)

\* A new fill has no answer yet, and changes none.
LEMMA FillUnanswered ==
    ASSUME NEW F, NEW M, NEW t, InOrder(F, M, t), NEW r \in FillRecord, r.mids = Len(M), r.ts = t
    PROVE  LET G == Append(F, r)
               n == Len(F) + 1
           IN  /\ InOrder(G, M, t)
               /\ DOMAIN G = DOMAIN F \cup {n} /\ n \notin DOMAIN F /\ Len(G) = n
               /\ Unanswered(F, G, M, n)
               /\ G[n] = r
<1> DEFINE G == Append(F, r)
           n == Len(F) + 1
<1>1. F \in Seq(FillRecord) /\ M \in Seq(MidRecord)
  BY OrderParts
<1>2. /\ G \in Seq(FillRecord) /\ Len(G) = n /\ G[n] = r
      /\ DOMAIN G = DOMAIN F \cup {n} /\ n \notin DOMAIN F
      /\ \A i \in DOMAIN F : G[i] = F[i]
  BY <1>1, AppendFacts
<1> HIDE DEF G, n
<1>3. InOrder(G, M, t)
  <2>1. \A i \in DOMAIN G : G[i].ts <= t /\ G[i].mids <= Len(M)
    <3>1. t <= t /\ Len(M) <= Len(M)
      BY OrderParts
    <3> QED
      BY <1>2, <3>1, OrderParts
  <2> QED
    BY <1>2, <2>1 DEF InOrder
<1>4. ASSUME NEW h
      PROVE  /\ Answers(G, M, n, h) = {}
             /\ \A i \in DOMAIN F : /\ Answers(G, M, i, h) = Answers(F, M, i, h)
                                    /\ Evaluation(G, i, h) = Evaluation(F, i, h)
  <2>1. \A j \in DOMAIN M : ~(j > Len(M))
    BY OrderParts
  <2>2. Answers(G, M, n, h) = {}
    BY <1>2, <2>1 DEF Answers
  <2>3. \A i \in DOMAIN F : Answers(G, M, i, h) = Answers(F, M, i, h)
    BY <1>2 DEF Answers
  <2>4. \A i \in DOMAIN F : Evaluation(G, i, h) = Evaluation(F, i, h)
    BY <1>2 DEF Evaluation
  <2> QED
    BY <2>2, <2>3, <2>4
<1>5. ASSUME NEW h
      PROVE  Summary(G, M, h) = Summary(F, M, h)
  <2>1. Resolved(G, M, h) = Resolved(F, M, h)
    BY <1>2, <1>4 DEF Resolved, Answered
  <2>2. \A i \in Resolved(F, M, h) : i \in DOMAIN F
    BY DEF Resolved, Answered
  <2>3. MoveIn(G, M, h) = MoveIn(F, M, h)
    BY <1>2, <1>4, <2>1, <2>2 DEF MoveIn
  <2>4. Wins(G, M, h) = Wins(F, M, h)
    BY <2>1, <2>3 DEF Wins
  <2>5. SumFunctionOnSet(WeightIn(G), Resolved(F, M, h)) = SumFunctionOnSet(WeightIn(F), Resolved(F, M, h))
    <3>1. IsFiniteSet(Resolved(F, M, h))
      BY <1>1, ResolvedFinite
    <3>2. \A i \in Resolved(F, M, h) : WeightIn(F)[i] \in Int
      <4>1. \A i \in DOMAIN F : F[i].qty \in Nat \ {0}
        BY <1>1, RecordParts
      <4> QED
        BY <2>2, <4>1 DEF WeightIn
    <3>3. \A i \in Resolved(F, M, h) : WeightIn(G)[i] = WeightIn(F)[i]
      BY <1>2, <2>2 DEF WeightIn
    <3> QED
      BY <3>1, <3>2, <3>3, SumEqual
  <2> QED
    BY <2>1, <2>3, <2>4, <2>5 DEF Summary
<1>6. Unanswered(F, G, M, n)
  BY <1>4, <1>5 DEF Unanswered
<1> QED
  BY <1>2, <1>3, <1>6 DEF G, n

\* MarkoutAnalyzer::on_fill adds one evaluation per horizon.
LEMMA AnalyzedFill ==
    ASSUME NEW F, NEW M, NEW pend, NEW acc, NEW k, NEW t, Analyzed(F, M, pend, acc, k, t),
           NEW r \in FillRecord, r.mids = Len(M), r.ts = t,
           NEW new, new = { [fill |-> k + 1, resolve_time |-> t + Horizons[h], horizon_index |-> h,
                             sign |-> IF r.side = "Buy" THEN 1 ELSE -1, fill_price |-> r.price,
                             quantity |-> r.qty] : h \in 1 .. Len(Horizons) }
    PROVE  Analyzed(Append(F, r), M, pend \cup new, acc, k + 1, t)
<1> DEFINE G == Append(F, r)
           n == Len(F) + 1
<1>1. /\ InOrder(F, M, t) /\ k = Len(F) /\ IsFiniteSet(pend)
      /\ \A e : e \in pend <=> Awaited(F, M, e)
      /\ acc = [h \in Ahead |-> Summary(F, M, h)]
  BY DEF Analyzed
<1>2. /\ InOrder(G, M, t)
      /\ DOMAIN G = DOMAIN F \cup {n} /\ n \notin DOMAIN F /\ Len(G) = n
      /\ Unanswered(F, G, M, n) /\ G[n] = r
  BY <1>1, FillUnanswered
<1>3. k + 1 = n
  BY <1>1
<1> HIDE DEF G, n
<1>4. \A e : e \in new <=> \E h \in Ahead : e = Evaluation(G, n, h)
  BY <1>2, <1>3 DEF Ahead, Evaluation
<1>5. IsFiniteSet(new)
  <2> DEFINE f == [h \in Ahead |-> Evaluation(G, n, h)]
  <2>1. (\A z \in new : \E h \in Ahead : z = f[h]) /\ \A h \in Ahead : f[h] \in new
    BY <1>4
  <2> HIDE DEF f
  <2> QED
    BY <2>1, HorizonType, Image
<1>6. IsFiniteSet(pend \cup new)
  BY <1>1, <1>5, FS_Union
<1>7. ASSUME NEW e
      PROVE  e \in pend \cup new <=> Awaited(G, M, e)
  <2>1. Awaited(F, M, e) => Awaited(G, M, e)
    BY <1>2 DEF Awaited, Unanswered
  <2>2. (\E h \in Ahead : e = Evaluation(G, n, h)) => Awaited(G, M, e)
    BY <1>2 DEF Awaited, Unanswered
  <2>3. Awaited(G, M, e) => Awaited(F, M, e) \/ \E h \in Ahead : e = Evaluation(G, n, h)
    BY <1>2 DEF Awaited, Unanswered
  <2> QED
    BY <1>1, <1>4, <2>1, <2>2, <2>3
<1>8. acc = [h \in Ahead |-> Summary(G, M, h)]
  BY <1>1, <1>2 DEF Unanswered
<1> QED
  BY <1>2, <1>3, <1>6, <1>7, <1>8 DEF Analyzed, G

-----------------------------------------------------------------------------
(* A mid and the fills it answers                                          *)

\* The fills that a mid at u answers first.
Fresh(F, M, u, h) ==
    { i \in DOMAIN F : /\ Answers(F, M, i, h) = {} /\ F[i].ts + Horizons[h] <= u
                       /\ F[i].price > 0 }

\* A mid answers every fill whose time has come.
LEMMA MidAnswers ==
    ASSUME NEW F, NEW M, NEW t, InOrder(F, M, t), NEW r \in MidRecord, r.ts >= t, NEW h \in Ahead
    PROVE  LET N == Append(M, r)
               n == Len(M) + 1
           IN  \A i \in DOMAIN F :
                  Answers(F, N, i, h) = Answers(F, M, i, h)
                                        \cup (IF F[i].ts + Horizons[h] <= r.ts THEN {n} ELSE {})
<1> DEFINE N == Append(M, r)
           n == Len(M) + 1
<1>1. M \in Seq(MidRecord) /\ Len(M) \in Nat
  BY OrderParts
<1>2. /\ N[n] = r /\ DOMAIN N = DOMAIN M \cup {n} /\ n \notin DOMAIN M
      /\ \A j \in DOMAIN M : N[j] = M[j]
  BY <1>1, AppendFacts
<1>3. SUFFICES ASSUME NEW i \in DOMAIN F
               PROVE  Answers(F, N, i, h) = Answers(F, M, i, h)
                                        \cup (IF F[i].ts + Horizons[h] <= r.ts THEN {n} ELSE {})
  OBVIOUS
<1> DEFINE due == F[i].ts + Horizons[h]
<1>4. n > F[i].mids /\ due \in Nat /\ r.ts \in Nat
  <2>1. F[i].ts \in Nat /\ F[i].mids \in Nat /\ F[i].mids <= Len(M)
    BY OrderParts
  <2>2. Horizons[h] \in Nat
    BY HorizonType
  <2>3. r.ts \in Nat
    BY DEF MidRecord
  <2> QED
    BY <1>1, <2>1, <2>2, <2>3
<1>5. N[n].ts >= due <=> due <= r.ts
  BY <1>2, <1>4
<1> HIDE DEF N, n
<1>6. Answers(F, N, i, h) = { j \in DOMAIN M \cup {n} : j > F[i].mids /\ N[j].ts >= due }
  BY <1>2 DEF Answers
<1>7. Answers(F, M, i, h) = { j \in DOMAIN M : j > F[i].mids /\ N[j].ts >= due }
  BY <1>2 DEF Answers
<1> HIDE DEF due
<1>8. Answers(F, N, i, h) = Answers(F, M, i, h) \cup (IF due <= r.ts THEN {n} ELSE {})
  BY <1>4, <1>5, <1>6, <1>7
<1> QED
  BY <1>8 DEF due, N, n

\* What the mid resolves.
LEMMA MidResolves ==
    ASSUME NEW F, NEW M, NEW t, InOrder(F, M, t), NEW r \in MidRecord, r.ts >= t, NEW h \in Ahead
    PROVE  LET N == Append(M, r)
               new == Fresh(F, M, r.ts, h)
           IN  /\ InOrder(F, N, r.ts)
               /\ Resolved(F, N, h) = Resolved(F, M, h) \cup new /\ Resolved(F, M, h) \cap new = {}
               /\ \A i \in Resolved(F, M, h) : MoveIn(F, N, h)[i] = MoveIn(F, M, h)[i]
               /\ \A i \in new : MoveIn(F, N, h)[i] = Holdings!Signed(F[i].side, 1) * (r.mid - F[i].price)
<1> DEFINE N == Append(M, r)
           n == Len(M) + 1
           new == Fresh(F, M, r.ts, h)
<1>1. M \in Seq(MidRecord) /\ Len(M) \in Nat /\ t \in Nat
  BY OrderParts
<1>2. /\ N[n] = r /\ DOMAIN N = DOMAIN M \cup {n} /\ n \notin DOMAIN M /\ Len(N) = n
      /\ \A j \in DOMAIN M : N[j] = M[j]
      /\ N \in Seq(MidRecord)
  BY <1>1, AppendFacts
<1>3. \A i \in DOMAIN F :
         Answers(F, N, i, h) = Answers(F, M, i, h)
                               \cup (IF F[i].ts + Horizons[h] <= r.ts THEN {n} ELSE {})
  BY MidAnswers
<1>4. r.ts \in Nat
  BY DEF MidRecord
<1> HIDE DEF N
<1>5. InOrder(F, N, r.ts)
  <2>1. \A i \in DOMAIN F : F[i].ts <= r.ts /\ F[i].mids <= n
    BY <1>1, <1>4, OrderParts
  <2>2. \A j \in DOMAIN N : N[j].ts <= r.ts
    BY <1>1, <1>2, <1>4, OrderParts
  <2>3. F \in Seq(FillRecord)
    BY OrderParts
  <2> QED
    BY <1>2, <1>4, <2>1, <2>2, <2>3 DEF InOrder
<1>6. Resolved(F, N, h) = Resolved(F, M, h) \cup new /\ Resolved(F, M, h) \cap new = {}
  BY <1>3 DEF Resolved, Answered, Fresh
<1>7. ASSUME NEW i \in Resolved(F, M, h)
      PROVE  MoveIn(F, N, h)[i] = MoveIn(F, M, h)[i]
  <2> DEFINE m == Min(Answers(F, M, i, h))
  <2>1. /\ m \in Answers(F, M, i, h)
        /\ \A j \in Answers(F, M, i, h) : m <= j /\ j \in DOMAIN M /\ j \in Nat
        /\ MoveIn(F, M, h)[i] = Holdings!Signed(F[i].side, 1) * (M[m].mid - F[i].price)
    BY MoveType
  <2> HIDE DEF m
  <2>2. i \in DOMAIN F
    BY DEF Resolved, Answered
  <2>3. m <= n /\ m \in DOMAIN M /\ m \in Nat
    BY <1>1, <2>1, OrderParts
  <2>4. m \in Answers(F, N, i, h) /\ \A j \in Answers(F, N, i, h) : j \in Int /\ m <= j
    <3>1. n \in Int
      BY <1>1
    <3> HIDE DEF n
    <3> QED
      BY <1>3, <2>1, <2>2, <2>3, <3>1
  <2>5. Min(Answers(F, N, i, h)) = m
    BY <2>4, MinIs
  <2>6. MoveIn(F, N, h)[i] = Holdings!Signed(F[i].side, 1) * (N[m].mid - F[i].price)
    BY <1>6, <2>5 DEF MoveIn
  <2> QED
    BY <1>2, <2>1, <2>3, <2>6
<1>8. ASSUME NEW i \in new
      PROVE  MoveIn(F, N, h)[i] = Holdings!Signed(F[i].side, 1) * (r.mid - F[i].price)
  <2>1. i \in DOMAIN F /\ Answers(F, M, i, h) = {} /\ F[i].ts + Horizons[h] <= r.ts
    BY DEF Fresh
  <2>2. Answers(F, N, i, h) = {n}
    BY <1>3, <2>1
  <2>3. n \in {n} /\ \A x \in {n} : x \in Int /\ n <= x
    BY <1>1
  <2>4. Min(Answers(F, N, i, h)) = n
    <3> HIDE DEF n
    <3> QED
      BY <2>2, <2>3, MinIs
  <2> QED
    BY <1>2, <1>6, <2>4 DEF MoveIn
<1> QED
  BY <1>5, <1>6, <1>7, <1>8 DEF N

-----------------------------------------------------------------------------
(* A mid and what is awaited                                               *)

\* The evaluations of pend that a mid at u resolves.
Due(pend, u, h) == { p \in pend : p.resolve_time <= u /\ p.horizon_index = h /\ p.fill_price > 0 }

\* What those evaluations moved, which gained, and their quantities.
PerShare(S, mid) == [p \in S |-> p.sign * (mid - p.fill_price)]
Gainful(S, mid) == { p \in S : p.sign * (mid - p.fill_price) > 0 }
Quantities(S) == [p \in S |-> p.quantity]

\* The evaluation each fill has at a horizon.
EvaluationOf(F, h) == [i \in DOMAIN F |-> Evaluation(F, i, h)]

\* The fields of an evaluation.
LEMMA EvaluationParts ==
    ASSUME NEW F \in Seq(FillRecord), NEW i \in DOMAIN F, NEW h
    PROVE  LET p == EvaluationOf(F, h)[i]
           IN  /\ p = Evaluation(F, i, h)
               /\ p.fill = i /\ p.horizon_index = h /\ p.resolve_time = F[i].ts + Horizons[h]
               /\ p.fill_price = F[i].price /\ p.quantity = F[i].qty
               /\ p.sign = Holdings!Signed(F[i].side, 1)
<1>1. F[i].price \in Nat
  BY RecordParts
<1> QED
  BY <1>1 DEF EvaluationOf, Evaluation, Holdings!Signed

\* They are those of the fills that it answers first.
LEMMA DueFresh ==
    ASSUME NEW F, NEW M, NEW t, InOrder(F, M, t), NEW pend, \A e : e \in pend <=> Awaited(F, M, e),
           NEW u, NEW h \in Ahead
    PROVE  OneToOne(EvaluationOf(F, h), Fresh(F, M, u, h), Due(pend, u, h))
<1> DEFINE e == EvaluationOf(F, h)
           S == Fresh(F, M, u, h)
           T == Due(pend, u, h)
<1>1. F \in Seq(FillRecord)
  BY OrderParts
<1>2. ASSUME NEW i \in DOMAIN F
      PROVE  /\ e[i] = Evaluation(F, i, h) /\ e[i].fill = i /\ e[i].horizon_index = h
             /\ e[i].resolve_time = F[i].ts + Horizons[h] /\ e[i].fill_price = F[i].price
  BY <1>1, EvaluationParts
<1>3. \A i \in S : /\ i \in DOMAIN F /\ Answers(F, M, i, h) = {}
                   /\ F[i].ts + Horizons[h] <= u /\ F[i].price > 0
  BY DEF Fresh
<1> HIDE DEF e
<1>4. ASSUME NEW i \in S
      PROVE  e[i] \in T
  <2>1. Awaited(F, M, e[i])
    BY <1>2, <1>3 DEF Awaited
  <2> QED
    BY <1>2, <1>3, <2>1 DEF Due
<1>5. ASSUME NEW i \in S, NEW k \in S, e[i] = e[k]
      PROVE  i = k
  BY <1>2, <1>3, <1>5
<1>6. ASSUME NEW p \in T
      PROVE  \E i \in S : e[i] = p
  <2>1. Awaited(F, M, p) /\ p.resolve_time <= u /\ p.horizon_index = h /\ p.fill_price > 0
    BY DEF Due
  <2>2. PICK i \in DOMAIN F : \E g \in Ahead : Answers(F, M, i, g) = {} /\ p = Evaluation(F, i, g)
    BY <2>1 DEF Awaited
  <2>3. PICK g \in Ahead : Answers(F, M, i, g) = {} /\ p = Evaluation(F, i, g)
    BY <2>2
  <2>4. g = h /\ F[i].ts + Horizons[h] <= u /\ F[i].price > 0
    BY <2>1, <2>3 DEF Evaluation
  <2>5. i \in S /\ e[i] = p
    BY <1>2, <2>3, <2>4 DEF Fresh
  <2> QED
    BY <2>5
<1> HIDE DEF S, T
<1>7. OneToOne(e, S, T)
  BY <1>4, <1>5, <1>6 DEF OneToOne
<1> QED
  BY <1>7 DEF e, S, T

\* The fills a mid answers first can be summed over.
LEMMA FreshFinite ==
    ASSUME NEW F \in Seq(FillRecord), NEW M, NEW u, NEW h
    PROVE  IsFiniteSet(Fresh(F, M, u, h)) /\ \A i \in Fresh(F, M, u, h) : i \in DOMAIN F
<1>1. Fresh(F, M, u, h) \in SUBSET DOMAIN F
  BY DEF Fresh
<1> QED
  BY <1>1, DomainFinite, FS_Subset

\* One more horizon's totals.
Resolving(pend, u, h, mid, before) ==
    LET S == Due(pend, u, h)
    IN  [count |-> before.count + Cardinality(S),
         sum_per_share |-> before.sum_per_share + SumFunctionOnSet(PerShare(S, mid), S),
         sum_weight |-> before.sum_weight + SumFunctionOnSet(Quantities(S), S),
         wins |-> before.wins + Cardinality(Gainful(S, mid))]

\* The mid adds what it resolves to the summary of the horizon.
LEMMA SummaryMid ==
    ASSUME NEW F, NEW M, NEW t, InOrder(F, M, t), NEW pend, \A e : e \in pend <=> Awaited(F, M, e),
           NEW r \in MidRecord, r.ts >= t, NEW h \in Ahead
    PROVE  Summary(F, Append(M, r), h) = Resolving(pend, r.ts, h, r.mid, Summary(F, M, h))
<1> DEFINE N == Append(M, r)
           S == Fresh(F, M, r.ts, h)
           T == Due(pend, r.ts, h)
           R == Resolved(F, M, h)
           Q == Resolved(F, N, h)
           e == EvaluationOf(F, h)
           move == MoveIn(F, N, h)
           old == MoveIn(F, M, h)
           share == PerShare(T, r.mid)
<1>1. F \in Seq(FillRecord)
  BY OrderParts
<1>2. /\ InOrder(F, N, r.ts)
      /\ Q = R \cup S /\ R \cap S = {}
      /\ \A i \in R : move[i] = old[i]
      /\ \A i \in S : move[i] = Holdings!Signed(F[i].side, 1) * (r.mid - F[i].price)
  BY MidResolves
<1>3. OneToOne(e, S, T)
  BY DueFresh
<1>4. /\ IsFiniteSet(R) /\ IsFiniteSet(S)
      /\ \A i \in R : i \in DOMAIN F
      /\ \A i \in S : i \in DOMAIN F
  BY <1>1, ResolvedFinite, FreshFinite
<1>5. \A i \in Q : move[i] \in Int
  BY <1>2, MoveType
<1>6. \A i \in R : old[i] \in Int
  BY MoveType
<1>7. \A i \in DOMAIN F : /\ e[i].fill_price = F[i].price /\ e[i].quantity = F[i].qty
                          /\ e[i].sign = Holdings!Signed(F[i].side, 1)
  BY <1>1, EvaluationParts
<1>8. \A p \in T : share[p] = p.sign * (r.mid - p.fill_price)
  BY DEF PerShare
<1>9. Wins(F, N, h) = { i \in Q : move[i] > 0 } /\ Wins(F, M, h) = { i \in R : old[i] > 0 }
  BY DEF Wins
<1>10. Gainful(T, r.mid) = { p \in T : share[p] > 0 }
  BY DEF PerShare, Gainful
<1> HIDE DEF N, S, T, R, Q, e, move, old, share
<1>11. \A i \in S : e[i] \in T /\ share[e[i]] = move[i]
  BY <1>2, <1>3, <1>4, <1>7, <1>8 DEF OneToOne
<1>12. Cardinality(Q) = Cardinality(R) + Cardinality(T)
  <2>1. Cardinality(T) = Cardinality(S)
    BY <1>3, <1>4, SameNumber
  <2>2. Cardinality(R \cup S) = Cardinality(R) + Cardinality(S) - Cardinality({})
    BY <1>2, <1>4, FS_Union
  <2>3. Cardinality(R) \in Nat /\ Cardinality(S) \in Nat /\ Cardinality({}) = 0
    BY <1>4, FS_CardinalityType, FS_EmptySet
  <2> QED
    BY <1>2, <2>1, <2>2, <2>3
<1>13. SumFunctionOnSet(move, Q) = SumFunctionOnSet(old, R) + SumFunctionOnSet(share, T)
  <2>1. \A i \in R \cup S : move[i] \in Int
    BY <1>2, <1>5
  <2>2. SumFunctionOnSet(move, R \cup S) = SumFunctionOnSet(move, R) + SumFunctionOnSet(move, S)
    BY <1>2, <1>4, <2>1, SumDisjoint
  <2>3. SumFunctionOnSet(move, R) = SumFunctionOnSet(old, R)
    BY <1>2, <1>4, <1>6, SumEqual
  <2>4. Reindexed(e, S, move, T, share)
    <3>1. ASSUME NEW p \in T
          PROVE  share[p] \in Int /\ \E i \in S : e[i] = p
      <4>1. PICK i \in S : e[i] = p
        BY <1>3 DEF OneToOne
      <4>2. move[i] \in Int /\ share[p] = move[i]
        BY <1>2, <1>5, <1>11, <4>1
      <4> QED
        BY <4>1, <4>2
    <3> QED
      BY <1>3, <1>11, <3>1 DEF Reindexed, OneToOne
  <2>5. SumFunctionOnSet(move, S) = SumFunctionOnSet(share, T)
    BY <1>4, <2>4, SumReindex
  <2> QED
    BY <1>2, <2>2, <2>3, <2>5
<1>14. SumFunctionOnSet(WeightIn(F), Q) = SumFunctionOnSet(WeightIn(F), R) + SumFunctionOnSet(Quantities(T), T)
  <2>1. \A i \in DOMAIN F : WeightIn(F)[i] = F[i].qty /\ F[i].qty \in Int
    BY <1>1, RecordParts DEF WeightIn
  <2>2. \A i \in R \cup S : WeightIn(F)[i] \in Int
    BY <1>4, <2>1
  <2>3. SumFunctionOnSet(WeightIn(F), R \cup S) = SumFunctionOnSet(WeightIn(F), R) + SumFunctionOnSet(WeightIn(F), S)
    BY <1>2, <1>4, <2>2, SumDisjoint
  <2>4. Reindexed(e, S, WeightIn(F), T, Quantities(T))
    <3>1. \A p \in T : Quantities(T)[p] = p.quantity
      BY DEF Quantities
    <3>2. ASSUME NEW i \in S
          PROVE  e[i] \in T /\ WeightIn(F)[i] = Quantities(T)[e[i]] /\ Quantities(T)[e[i]] \in Int
      BY <1>4, <1>7, <1>11, <2>1, <3>1
    <3>3. \A p \in T : Quantities(T)[p] \in Int /\ \E i \in S : e[i] = p
      BY <1>3, <3>2 DEF OneToOne
    <3> QED
      BY <1>3, <3>2, <3>3 DEF Reindexed, OneToOne
  <2>5. SumFunctionOnSet(WeightIn(F), S) = SumFunctionOnSet(Quantities(T), T)
    BY <1>4, <2>4, SumReindex
  <2> QED
    BY <1>2, <2>3, <2>5
<1>15. Cardinality(Wins(F, N, h)) = Cardinality(Wins(F, M, h)) + Cardinality(Gainful(T, r.mid))
  <2> DEFINE V == { i \in S : move[i] > 0 }
             W == { i \in R : old[i] > 0 }
             G == { p \in T : share[p] > 0 }
  <2>1. IsFiniteSet(V) /\ IsFiniteSet(W) /\ W \cap V = {}
    BY <1>2, <1>4, FS_Subset
  <2>2. Wins(F, N, h) = W \cup V /\ Wins(F, M, h) = W /\ Gainful(T, r.mid) = G
    BY <1>2, <1>9, <1>10
  <2>3. OneToOne(e, V, G)
    BY <1>3, <1>11 DEF OneToOne
  <2> HIDE DEF V, W, G
  <2>4. Cardinality(G) = Cardinality(V)
    BY <2>1, <2>3, SameNumber
  <2>5. Cardinality(W \cup V) = Cardinality(W) + Cardinality(V) - Cardinality({})
    BY <2>1, FS_Union
  <2>6. Cardinality(W) \in Nat /\ Cardinality(V) \in Nat /\ Cardinality({}) = 0
    BY <2>1, FS_CardinalityType, FS_EmptySet
  <2> QED
    BY <2>2, <2>4, <2>5, <2>6
<1> QED
  BY <1>12, <1>13, <1>14, <1>15 DEF Summary, Resolving, N, T, R, Q, move, old, share

-----------------------------------------------------------------------------
(* The steps of the markout                                                *)

\* MarkoutAnalyzer::on_mid.
LEMMA AnalyzedMid ==
    ASSUME NEW F, NEW M, NEW pend, NEW acc, NEW n, NEW t, Analyzed(F, M, pend, acc, n, t),
           NEW r \in MidRecord, r.ts >= t,
           NEW left, left = { p \in pend : ~(p.resolve_time <= r.ts) },
           NEW new, new = [h \in Ahead |-> Resolving(pend, r.ts, h, r.mid, acc[h])]
    PROVE  Analyzed(F, Append(M, r), left, new, n, r.ts)
<1> DEFINE N == Append(M, r)
           k == Len(M) + 1
<1>1. /\ InOrder(F, M, t) /\ n = Len(F) /\ IsFiniteSet(pend)
      /\ \A e : e \in pend <=> Awaited(F, M, e)
      /\ acc = [h \in Ahead |-> Summary(F, M, h)]
  BY DEF Analyzed
<1>2. \A h \in Ahead : \A i \in DOMAIN F :
         Answers(F, N, i, h) = Answers(F, M, i, h)
                               \cup (IF F[i].ts + Horizons[h] <= r.ts THEN {k} ELSE {})
  BY <1>1, MidAnswers
<1>3. \A h \in Ahead : \A i \in DOMAIN F : Evaluation(F, i, h).resolve_time = F[i].ts + Horizons[h]
  BY DEF Evaluation
<1>4. InOrder(F, N, r.ts)
  <2>1. CASE Ahead = {}
    <3>1. M \in Seq(MidRecord) /\ t \in Nat /\ r.ts \in Nat /\ F \in Seq(FillRecord) /\ Len(M) \in Nat
      BY <1>1, OrderParts DEF MidRecord
    <3>2. /\ N[k] = r /\ DOMAIN N = DOMAIN M \cup {k} /\ Len(N) = k /\ N \in Seq(MidRecord)
          /\ \A j \in DOMAIN M : N[j] = M[j]
      BY <3>1, AppendFacts
    <3>3. \A i \in DOMAIN F : F[i].ts <= r.ts /\ F[i].mids <= k
      BY <1>1, <3>1, OrderParts
    <3> HIDE DEF N, k
    <3>4. \A j \in DOMAIN N : N[j].ts <= r.ts
      BY <1>1, <3>1, <3>2, OrderParts
    <3> QED
      BY <3>1, <3>2, <3>3, <3>4 DEF InOrder
  <2>2. CASE Ahead # {}
    <3>1. PICK h \in Ahead : TRUE
      BY <2>2
    <3> QED
      BY <1>1, <3>1, MidResolves
  <2> QED
    BY <2>1, <2>2
<1> HIDE DEF N, k
<1>5. IsFiniteSet(left)
  BY <1>1, FS_Subset
<1>6. ASSUME NEW e
      PROVE  e \in left <=> Awaited(F, N, e)
  <2>1. ASSUME e \in left
        PROVE  Awaited(F, N, e)
    <3>1. Awaited(F, M, e) /\ ~(e.resolve_time <= r.ts)
      BY <1>1, <2>1
    <3>2. PICK i \in DOMAIN F : \E h \in Ahead : Answers(F, M, i, h) = {} /\ e = Evaluation(F, i, h)
      BY <3>1 DEF Awaited
    <3>3. PICK h \in Ahead : Answers(F, M, i, h) = {} /\ e = Evaluation(F, i, h)
      BY <3>2
    <3>4. ~(F[i].ts + Horizons[h] <= r.ts)
      BY <1>3, <3>1, <3>3
    <3>5. Answers(F, N, i, h) = {}
      BY <1>2, <3>3, <3>4
    <3> QED
      BY <3>3, <3>5 DEF Awaited
  <2>2. ASSUME Awaited(F, N, e)
        PROVE  e \in left
    <3>2. PICK i \in DOMAIN F : \E h \in Ahead : Answers(F, N, i, h) = {} /\ e = Evaluation(F, i, h)
      BY <2>2 DEF Awaited
    <3>3. PICK h \in Ahead : Answers(F, N, i, h) = {} /\ e = Evaluation(F, i, h)
      BY <3>2
    <3>4. Answers(F, M, i, h) = {} /\ ~(F[i].ts + Horizons[h] <= r.ts)
      BY <1>2, <3>3
    <3>5. ~(e.resolve_time <= r.ts)
      BY <1>3, <3>3, <3>4
    <3>6. Awaited(F, M, e)
      BY <3>3, <3>4 DEF Awaited
    <3> QED
      BY <1>1, <3>5, <3>6
  <2> QED
    BY <2>1, <2>2
<1>7. new = [h \in Ahead |-> Summary(F, N, h)]
  <2>1. ASSUME NEW h \in Ahead
        PROVE  Resolving(pend, r.ts, h, r.mid, acc[h]) = Summary(F, N, h)
    <3>1. acc[h] = Summary(F, M, h)
      BY <1>1
    <3>2. Summary(F, N, h) = Resolving(pend, r.ts, h, r.mid, Summary(F, M, h))
      BY <1>1, SummaryMid DEF N
    <3> QED
      BY <3>1, <3>2
  <2> QED
    BY <2>1
<1> QED
  BY <1>1, <1>4, <1>5, <1>6, <1>7 DEF Analyzed, N

\* No fill, no mid: after the constructor and after reset.
LEMMA AnalyzedNothing ==
    ASSUME NEW F, F = << >>, NEW M, M = << >>, NEW acc, acc = Analysis!EmptyAccum
    PROVE  Analyzed(F, M, {}, acc, 0, 0)
<1>1. DOMAIN F = {} /\ DOMAIN M = {} /\ Len(F) = 0 /\ F \in Seq(FillRecord) /\ M \in Seq(MidRecord)
  OBVIOUS
<1>2. InOrder(F, M, 0)
  BY <1>1 DEF InOrder
<1>3. IsFiniteSet({}) /\ \A e : e \in {} <=> Awaited(F, M, e)
  BY <1>1, FS_EmptySet DEF Awaited
<1>4. ASSUME NEW h
      PROVE  Summary(F, M, h) = [count |-> 0, sum_per_share |-> 0, sum_weight |-> 0, wins |-> 0]
  <2>1. Resolved(F, M, h) = {} /\ Wins(F, M, h) = {}
    BY <1>1 DEF Resolved, Answered, Wins
  <2> QED
    BY <2>1, SumEmpty, FS_EmptySet DEF Summary
<1>5. acc = [h \in Ahead |-> Summary(F, M, h)]
  BY <1>4 DEF Analysis!EmptyAccum, Analysis!Accum, Ahead
<1> QED
  BY <1>1, <1>2, <1>3, <1>5 DEF Analyzed

\* The library's operators are the same in the module's instance.
LEMMA AnalysisLibrary ==
    /\ \A S : Analysis!IsFiniteSet(S) <=> IsFiniteSet(S)
    /\ \A S : Analysis!Cardinality(S) = Cardinality(S)
    /\ \A f : Analysis!SumFunction(f) = SumFunctionOnSet(f, DOMAIN f)
<1>1. \A S : Analysis!IsFiniteSet(S) <=> IsFiniteSet(S)
  BY DEF Analysis!IsFiniteSet, IsFiniteSet
<1>2. \A S : Analysis!Cardinality(S) = Cardinality(S)
  BY DEF Analysis!Cardinality, Cardinality, Analysis!IsFiniteSet, IsFiniteSet
<1>3. \A f : Analysis!SumFunction(f) = SumFunctionOnSet(f, DOMAIN f)
  BY DEF Analysis!SumFunction, Analysis!SumFunctionOnSet, SumFunctionOnSet, Analysis!FoldFunctionOnSet,
         Analysis!MapThenFoldSet, FoldFunctionOnSet, MapThenFoldSet
<1> QED
  BY <1>1, <1>2, <1>3

\* The part of the invariant about MarkoutAnalyzer.
Resolution == Analyzed(fills, mids, pending, accum, num_fills, now)

\* Init.
LEMMA ResolutionInit == Init => Resolution
<1> SUFFICES ASSUME Init
             PROVE  Resolution
  OBVIOUS
<1>1. fills = << >> /\ mids = << >> /\ pending = {} /\ accum = Analysis!EmptyAccum /\ num_fills = 0 /\ now = 0
  BY DEF Init, Analysis!Init
<1> QED
  BY <1>1, AnalyzedNothing DEF Resolution

\* MarkoutAnalyzer::reset.
LEMMA ResolutionReset ==
    ASSUME Reset
    PROVE  Resolution'
<1>1. /\ fills' = << >> /\ mids' = << >> /\ pending' = {} /\ accum' = Analysis!EmptyAccum
      /\ num_fills' = 0 /\ now' = 0
  BY DEF Reset, Analysis!Reset
<1>2. Analyzed(fills', mids', {}, accum', 0, 0)
  BY <1>1, AnalyzedNothing
<1> QED
  BY <1>1, <1>2 DEF Resolution

\* A fill.
LEMMA ResolutionOnFill ==
    ASSUME Account, Histories, Resolution,
           NEW s \in scenario.symbols, NEW side \in {"Buy", "Sell"},
           NEW qty \in scenario.quantities, NEW price \in scenario.prices,
           OnFill(s, side, qty, price)
    PROVE  Resolution'
<1> DEFINE r == FillOf(s, side, qty, price)
           new == { [fill |-> num_fills + 1, resolve_time |-> now + Horizons[h], horizon_index |-> h,
                     sign |-> IF r.side = "Buy" THEN 1 ELSE -1, fill_price |-> r.price,
                     quantity |-> r.qty] : h \in 1 .. Len(Horizons) }
<1>1. r \in FillRecord /\ fills' = Append(fills, r)
  BY AccountOnFill
<1>2. r.mids = Len(mids) /\ r.ts = now /\ r.side = side /\ r.price = price /\ r.qty = qty
  BY DEF FillOf
<1>3. /\ num_fills' = num_fills + 1 /\ accum' = accum /\ mids' = mids /\ now' = now
      /\ pending' = pending \cup new
  BY <1>2 DEF OnFill, Analysis!RecordFill
<1>4. Analyzed(fills, mids, pending, accum, num_fills, now)
  BY DEF Resolution
<1> HIDE DEF r
<1>5. Analyzed(Append(fills, r), mids, pending \cup new, accum, num_fills + 1, now)
  BY <1>1, <1>2, <1>4, AnalyzedFill
<1> QED
  BY <1>1, <1>3, <1>5 DEF Resolution

\* A tick's mid price.
LEMMA ResolutionOnTick ==
    ASSUME Account, Histories, Resolution, NEW s \in scenario.symbols, NEW mid \in scenario.prices,
           NEW wait \in scenario.waits, OnTick(s, mid, wait)
    PROVE  Resolution' /\ Histories'
<1> DEFINE r == [ts |-> now', mid |-> mid]
<1>1. now' \in Nat /\ now' >= now /\ mid \in Nat
  BY AccountOnTick
<1>2. r \in MidRecord /\ r.ts = now' /\ r.mid = mid
  BY <1>1 DEF MidRecord
<1>3. /\ mids' = Append(mids, r) /\ fills' = fills /\ marks' = marks /\ num_fills' = num_fills
      /\ Analysis!OnMid(now', mid)
  BY DEF OnTick, Analysis!OnMid
<1>4. Analyzed(fills, mids, pending, accum, num_fills, now)
  BY DEF Resolution
<1> HIDE DEF r
<1>5. pending' = { p \in pending : ~(p.resolve_time <= r.ts) }
  BY <1>2, <1>3 DEF Analysis!OnMid, Analysis!Elapsed
<1>6. accum' = [h \in Ahead |-> Resolving(pending, r.ts, h, r.mid, accum[h])]
  <2>1. DOMAIN accum = Ahead
    BY <1>4 DEF Analyzed
  <2> DEFINE D(h) == { p \in Analysis!Elapsed(now') : p.horizon_index = h /\ p.fill_price > 0 }
  <2>2. accum' = [h \in Ahead |->
                    [count |-> accum[h].count + Analysis!Cardinality(D(h)),
                     sum_per_share |-> accum[h].sum_per_share
                                       + Analysis!SumFunction([p \in D(h) |-> p.sign * (mid - p.fill_price)]),
                     sum_weight |-> accum[h].sum_weight + Analysis!SumFunction([p \in D(h) |-> p.quantity]),
                     wins |-> accum[h].wins
                              + Analysis!Cardinality({ p \in D(h) : p.sign * (mid - p.fill_price) > 0 })]]
    BY <1>3, <2>1 DEF Analysis!OnMid
  <2>3. \A h : D(h) = Due(pending, r.ts, h)
    BY <1>2 DEF Analysis!Elapsed, Due
  <2> HIDE DEF D
  <2>4. ASSUME NEW h \in Ahead
        PROVE  accum'[h] = Resolving(pending, r.ts, h, r.mid, accum[h])
    <3> DEFINE S == Due(pending, r.ts, h)
    <3>1. accum'[h] =
            [count |-> accum[h].count + Cardinality(S),
             sum_per_share |-> accum[h].sum_per_share + SumFunctionOnSet(PerShare(S, mid), S),
             sum_weight |-> accum[h].sum_weight + SumFunctionOnSet(Quantities(S), S),
             wins |-> accum[h].wins + Cardinality(Gainful(S, mid))]
      BY <2>2, <2>3, AnalysisLibrary DEF PerShare, Gainful, Quantities
    <3> QED
      BY <1>2, <3>1 DEF Resolving
  <2> QED
    BY <2>2, <2>4
<1>7. Analyzed(fills, Append(mids, r), pending', accum', num_fills, r.ts)
  BY <1>1, <1>2, <1>4, <1>5, <1>6, AnalyzedMid
<1>8. Histories'
  BY <1>2, <1>3 DEF Histories
<1> QED
  BY <1>2, <1>3, <1>7, <1>8 DEF Resolution

\* The other steps leave the analysis as it is.
LEMMA ResolutionSame ==
    ASSUME Resolution, UNCHANGED <<markoutVars, fills, mids, now>>
    PROVE  Resolution'
<1>1. /\ pending' = pending /\ accum' = accum /\ num_fills' = num_fills
      /\ fills' = fills /\ mids' = mids /\ now' = now
  BY DEF markoutVars
<1> QED
  BY <1>1 DEF Resolution

-----------------------------------------------------------------------------
(* The inductive invariant                                                 *)

\* The inductive invariant: the accounts, the types of the histories, the equity curve and the
\* markout, each determined by the histories of fills, mids and marks.
AccountsInv == Account /\ Histories /\ Curve /\ Resolution

\* It holds at the start.
LEMMA AccountsInvInit == Init => AccountsInv
<1> SUFFICES ASSUME Init
             PROVE  AccountsInv
  OBVIOUS
<1>1. Histories
  <2>1. mids = << >> /\ marks = << >>
    BY DEF Init
  <2> QED
    BY <2>1 DEF Histories
<1> QED
  BY <1>1, AccountInit, CurveInit, ResolutionInit DEF AccountsInv

\* Every step keeps it.
LEMMA AccountsInvNext == AccountsInv /\ [Next]_vars => AccountsInv'
<1> SUFFICES ASSUME AccountsInv, [Next]_vars
             PROVE  AccountsInv'
  OBVIOUS
<1>1. Account /\ Histories /\ Curve /\ Resolution
  BY DEF AccountsInv
<1>2. ASSUME NEW s \in scenario.symbols, NEW side \in {"Buy", "Sell"},
             NEW qty \in scenario.quantities, NEW price \in scenario.prices,
             OnFill(s, side, qty, price)
      PROVE  AccountsInv'
  <2>1. Account'
    BY <1>1, <1>2, AccountOnFill
  <2>2. Curve'
    BY <1>1, <1>2, CurveOnFill
  <2>3. Resolution'
    BY <1>1, <1>2, ResolutionOnFill
  <2>4. Histories'
    BY <1>1, <1>2 DEF OnFill, Histories
  <2> QED
    BY <2>1, <2>2, <2>3, <2>4 DEF AccountsInv
<1>3. ASSUME NEW s \in scenario.symbols, NEW mid \in scenario.prices, NEW wait \in scenario.waits,
             OnTick(s, mid, wait)
      PROVE  AccountsInv'
  <2>1. Account'
    BY <1>1, <1>3, AccountOnTick
  <2>2. UNCHANGED <<trackerVars, fills, marks, fee>>
    BY <1>3 DEF OnTick, setting
  <2>3. Curve'
    BY <1>1, <2>2, CurveSame
  <2>4. Resolution' /\ Histories'
    BY <1>1, <1>3, ResolutionOnTick
  <2> QED
    BY <2>1, <2>3, <2>4 DEF AccountsInv
<1>4. ASSUME NEW kind \in {"mark", "close"}, Valued(kind)
      PROVE  Account' /\ Histories' /\ Resolution'
  <2>1. Account' /\ Histories'
    BY <1>1, <1>4, ValuedFacts
  <2>2. UNCHANGED <<markoutVars, fills, mids, now>>
    BY <1>4 DEF Valued
  <2> QED
    BY <1>1, <2>1, <2>2, ResolutionSame
<1>5. ASSUME Mark
      PROVE  AccountsInv'
  <2>1. Valued("mark")
    BY <1>5 DEF Mark
  <2>2. Curve'
    BY <1>1, <1>5, CurveMark
  <2> QED
    BY <1>4, <2>1, <2>2 DEF AccountsInv
<1>6. ASSUME EndOfDay
      PROVE  AccountsInv'
  <2>1. Valued("close")
    BY <1>6 DEF EndOfDay
  <2>2. Curve'
    BY <1>1, <1>6, CurveEndOfDay
  <2> QED
    BY <1>4, <2>1, <2>2 DEF AccountsInv
<1>7. ASSUME UNCHANGED <<trackerVars, markoutVars, fee, now, fills, mids, marks>>, Account'
      PROVE  AccountsInv'
  <2>1. Curve'
    BY <1>1, <1>7, CurveSame
  <2>2. Resolution'
    BY <1>1, <1>7, ResolutionSame
  <2>3. Histories'
    BY <1>1, <1>7 DEF Histories
  <2> QED
    BY <1>7, <2>1, <2>2, <2>3 DEF AccountsInv
<1>8. ASSUME NEW amount \in scenario.amounts, Transfer(amount)
      PROVE  AccountsInv'
  <2>1. Account'
    BY <1>1, <1>8, AccountTransfer
  <2>2. UNCHANGED <<trackerVars, markoutVars, fee, now, fills, mids, marks>>
    BY <1>8 DEF Transfer, setting
  <2> QED
    BY <1>7, <2>1, <2>2
<1>9. ASSUME NEW s \in scenario.symbols, Query(s)
      PROVE  AccountsInv'
  <2>1. Account'
    BY <1>1, <1>9, AccountQuery
  <2>2. UNCHANGED <<trackerVars, markoutVars, fee, now, fills, mids, marks>>
    BY <1>9 DEF Query, setting, history
  <2> QED
    BY <1>7, <2>1, <2>2
<1>10. ASSUME Reset
       PROVE  AccountsInv'
  <2>1. Histories'
    BY <1>10 DEF Reset, Histories
  <2> QED
    BY <1>1, <1>10, <2>1, AccountReset, CurveReset, ResolutionReset DEF AccountsInv
<1>11. ASSUME UNCHANGED vars
       PROVE  AccountsInv'
  <2>1. UNCHANGED <<positionVars, setting, now, fills, moved>>
    BY <1>11 DEF vars, history
  <2>2. Account'
    BY <1>1, <2>1, AccountSame
  <2>3. UNCHANGED <<trackerVars, markoutVars, fee, now, fills, mids, marks>>
    BY <1>11 DEF vars, history, setting
  <2> QED
    BY <1>7, <2>2, <2>3
<1> QED
  BY <1>2, <1>3, <1>5, <1>6, <1>8, <1>9, <1>10, <1>11 DEF Next

\* The accounts, the curve and the markout are at all times what the histories of
\* fills, mids and marks determine.
THEOREM AccountsAreConsistent == Spec => []AccountsInv
  BY AccountsInvInit, AccountsInvNext, PTL DEF Spec

-----------------------------------------------------------------------------
(* What follows                                                            *)

\* The accounts give the types of the positions,
LEMMA PositionsAreTyped ==
    ASSUME Account
    PROVE  Holdings!PositionsTyped
<1>1. Held(positions, fills) /\ Balanced
  BY DEF Account
<1>2. \A s \in DOMAIN positions : s \in Symbols /\ positions[s] \in Holdings!Position
  BY <1>1 DEF Held, Kept
<1> QED
  BY <1>1, <1>2 DEF Holdings!PositionsTyped, Balanced

\* the curve those of the tracker,
LEMMA TrackerIsTyped ==
    ASSUME Curve
    PROVE  Tracker!TrackerTyped
  BY DEF Curve, Tracker!TrackerTyped

\* and the markout its own.
LEMMA MarkoutIsTyped ==
    ASSUME Resolution
    PROVE  Analysis!MarkoutTyped
<1>1. Analyzed(fills, mids, pending, accum, num_fills, now)
  BY DEF Resolution
<1>2. /\ InOrder(fills, mids, now) /\ num_fills = Len(fills) /\ IsFiniteSet(pending)
      /\ \A e : e \in pending <=> Awaited(fills, mids, e)
      /\ accum = [h \in Ahead |-> Summary(fills, mids, h)]
  BY <1>1 DEF Analyzed
<1>3. fills \in Seq(FillRecord)
  BY <1>2, OrderParts
<1>4. DOMAIN fills = 1 .. num_fills
  BY <1>2, <1>3, DomainFinite
<1>5. ASSUME NEW p \in pending
      PROVE  p.fill \in 1 .. num_fills /\ p.horizon_index \in 1 .. Len(Horizons)
  <2>1. Awaited(fills, mids, p)
    BY <1>2
  <2> QED
    BY <1>4, <2>1 DEF Awaited, Evaluation, Ahead
<1>6. ASSUME NEW h \in 1 .. Len(Horizons)
      PROVE  /\ accum[h].count \in 0 .. num_fills
             /\ accum[h].wins \in 0 .. accum[h].count
             /\ accum[h].sum_per_share \in Int /\ accum[h].sum_weight \in Nat
  <2> DEFINE R == Resolved(fills, mids, h)
  <2>1. /\ accum[h].count = Cardinality(R) /\ accum[h].wins = Cardinality(Wins(fills, mids, h))
        /\ accum[h].sum_per_share = SumFunctionOnSet(MoveIn(fills, mids, h), R)
        /\ accum[h].sum_weight = SumFunctionOnSet(WeightIn(fills), R)
    BY <1>2 DEF Summary, Ahead
  <2>2. /\ Cardinality(R) \in 0 .. num_fills /\ IsFiniteSet(R) /\ \A i \in R : i \in DOMAIN fills
        /\ Cardinality(Wins(fills, mids, h)) \in 0 .. Cardinality(R)
    BY <1>2, <1>3, ResolvedFinite
  <2>3. \A i \in R : MoveIn(fills, mids, h)[i] \in Int
    BY <1>2, MoveType
  <2>4. \A i \in R : WeightIn(fills)[i] \in Nat
    BY <1>3, <2>2, RecordParts DEF WeightIn
  <2> HIDE DEF R
  <2>5. SumFunctionOnSet(MoveIn(fills, mids, h), R) \in Int
    BY <2>2, <2>3, SumType
  <2>6. SumFunctionOnSet(WeightIn(fills), R) \in Nat
    BY <2>2, <2>4, SumNat
  <2> QED
    BY <2>1, <2>2, <2>5, <2>6
<1> QED
  BY <1>2, <1>5, <1>6, AnalysisLibrary DEF Analysis!MarkoutTyped

\* The fields of the position manager, the tracker and the analyzer keep their types,
\* for every horizon, capital, set of symbols and scenario.
THEOREM TypesKept == Spec => []TypeOK
<1>1. AccountsInv => TypeOK
  BY PositionsAreTyped, TrackerIsTyped, MarkoutIsTyped DEF AccountsInv, TypeOK, Account, Setting
<1> QED
  BY <1>1, AccountsAreConsistent, PTL

\* The portfolio's value is always the capital, the transfers and the gain on every fill,
\* however fills added to, reduced or crossed a position, and the realized and the
\* unrealized totals add up to that gain without a rest.
THEOREM ValueAccountedFor == Spec => []ValueIsAccountedFor
<1>1. AccountsInv => ValueIsAccountedFor
  BY AccountValue DEF AccountsInv
<1> QED
  BY <1>1, AccountsAreConsistent, PTL

\* What the invariant says of the equity is what EquityFollowsMarks claims.
LEMMA EquityFollows == AccountsInv => EquityFollowsMarks
  BY DEF AccountsInv, Curve, EquityFollowsMarks, LastMark, Marked, ValueAt, Values, Since

\* The equity is always the last marked value less the costs of the fills since, and the
\* high-water mark the largest value seen (PnLTracker::mark_to_market and on_fill).
THEOREM EquityKept == Spec => []EquityFollowsMarks
  BY EquityFollows, AccountsAreConsistent, PTL

\* What the invariant says of the analysis is what MarkoutsResolveOnce claims.
LEMMA ResolvedOnce == Resolution => MarkoutsResolveOnce
<1> SUFFICES ASSUME Resolution
             PROVE  MarkoutsResolveOnce
  OBVIOUS
<1>1. Analyzed(fills, mids, pending, accum, num_fills, now)
  BY DEF Resolution
<1>2. /\ InOrder(fills, mids, now)
      /\ \A e : e \in pending <=> Awaited(fills, mids, e)
      /\ accum = [h \in Ahead |-> Summary(fills, mids, h)]
  BY <1>1 DEF Analyzed
<1>3. DOMAIN Horizons = Ahead
  <2>1. Horizons \in Seq(Nat)
    BY AccountsAssumption
  <2> QED
    BY <2>1 DEF Ahead
<1>4. ASSUME NEW h \in Ahead
      PROVE  /\ accum[h].count = Cardinality(Resolved(fills, mids, h))
             /\ accum[h].sum_per_share = SumFunction(MoveIn(fills, mids, h))
             /\ accum[h].wins = Cardinality(Wins(fills, mids, h))
             /\ { p.fill : p \in { q \in pending : q.horizon_index = h } }
                  = DOMAIN fills \ Answered(fills, mids, h)
  <2>1. /\ accum[h].count = Cardinality(Resolved(fills, mids, h))
        /\ accum[h].wins = Cardinality(Wins(fills, mids, h))
        /\ accum[h].sum_per_share = SumFunctionOnSet(MoveIn(fills, mids, h), Resolved(fills, mids, h))
    BY <1>2 DEF Summary
  <2>2. DOMAIN MoveIn(fills, mids, h) = Resolved(fills, mids, h)
    BY DEF MoveIn
  <2>3. ASSUME NEW q \in pending, q.horizon_index = h
        PROVE  q.fill \in DOMAIN fills \ Answered(fills, mids, h)
    <3>1. Awaited(fills, mids, q)
      BY <1>2
    <3> QED
      BY <2>3, <3>1 DEF Awaited, Evaluation, Answered
  <2>4. ASSUME NEW i \in DOMAIN fills \ Answered(fills, mids, h)
        PROVE  \E q \in pending : q.horizon_index = h /\ q.fill = i
    <3>1. Awaited(fills, mids, Evaluation(fills, i, h))
      BY DEF Awaited, Answered
    <3>2. Evaluation(fills, i, h).horizon_index = h /\ Evaluation(fills, i, h).fill = i
      BY DEF Evaluation
    <3> QED
      BY <1>2, <3>1, <3>2
  <2> QED
    BY <2>1, <2>2, <2>3, <2>4 DEF SumFunction
<1> DEFINE answers(h, i) == { j \in DOMAIN mids : /\ j > fills[i].mids
                                                  /\ mids[j].ts >= fills[i].ts + Horizons[h] }
           answered(h) == { i \in DOMAIN fills : answers(h, i) # {} }
           resolved(h) == { i \in answered(h) : fills[i].price > 0 }
           move(h, i) == Holdings!Signed(fills[i].side, 1)
                         * (mids[Min(answers(h, i))].mid - fills[i].price)
<1>5. ASSUME NEW h \in Ahead
      PROVE  /\ accum[h].count = Cardinality(resolved(h))
             /\ accum[h].sum_per_share = SumFunction([i \in resolved(h) |-> move(h, i)])
             /\ accum[h].wins = Cardinality({ i \in resolved(h) : move(h, i) > 0 })
             /\ { p.fill : p \in { q \in pending : q.horizon_index = h } } = DOMAIN fills \ answered(h)
  <2>1. \A i : Answers(fills, mids, i, h) = answers(h, i)
    BY DEF Answers
  <2> HIDE DEF answers
  <2>6. Answered(fills, mids, h) = answered(h)
    BY <2>1 DEF Answered
  <2> HIDE DEF answered
  <2>2. Resolved(fills, mids, h) = resolved(h)
    BY <2>6 DEF Resolved
  <2>3. MoveIn(fills, mids, h) = [i \in resolved(h) |-> move(h, i)]
    BY <2>1, <2>2 DEF MoveIn
  <2> HIDE DEF resolved
  <2>4. Wins(fills, mids, h) = { i \in resolved(h) : move(h, i) > 0 }
    <3>1. \A i \in resolved(h) : MoveIn(fills, mids, h)[i] = move(h, i)
      BY <2>3
    <3> HIDE DEF move
    <3> QED
      BY <2>2, <3>1 DEF Wins
  <2> HIDE DEF move
  <2> QED
    BY <1>4, <2>2, <2>3, <2>4, <2>6
<1> QED
  BY <1>3, <1>5 DEF MarkoutsResolveOnce, SumOf

\* Every fill is evaluated exactly once at each horizon, at the first mid at or past its
\* time, and what is awaited is exactly what has no such mid yet.
THEOREM MarkoutsResolved == Spec => []MarkoutsResolveOnce
<1>1. AccountsInv => MarkoutsResolveOnce
  BY ResolvedOnce DEF AccountsInv
<1> QED
  BY <1>1, AccountsAreConsistent, PTL

-----------------------------------------------------------------------------
(* Fractions in lowest terms                                               *)

\* Quotient and rest are unique.
LEMMA RestIs ==
    ASSUME NEW b \in Nat \ {0}, NEW q \in Int, NEW r \in Nat, r < b, NEW a \in Nat, a = b * q + r
    PROVE  a % b = r
<1> DEFINE p == a \div b
           s == a % b
<1>1. p \in Int /\ s \in Nat /\ s < b /\ a = b * p + s
  BY Remainder
<1> HIDE DEF p, s
<1>2. b * (q - p) = s - r
  <2>1. b * (q - p) = b * q - b * p
    BY <1>1
  <2>2. b * q \in Int /\ b * p \in Int
    BY <1>1
  <2> QED
    BY <1>1, <2>1, <2>2
<1>3. q - p \in Int
  BY <1>1
<1> DEFINE e == q - p
<1> HIDE DEF e
<1>4. e \in Int /\ b * e = s - r
  BY <1>2, <1>3 DEF e
<1>5. ~ (e >= 1)
  <2> SUFFICES ASSUME e >= 1 PROVE FALSE
    OBVIOUS
  <2>1. b * e >= b
    BY <1>4
  <2> QED
    BY <1>1, <1>4, <2>1
<1>6. ~ (e <= -1)
  <2> SUFFICES ASSUME e <= -1 PROVE FALSE
    OBVIOUS
  <2>1. b * e <= -b
    BY <1>4
  <2> QED
    BY <1>1, <1>4, <2>1
<1>7. e = 0
  BY <1>4, <1>5, <1>6
<1>8. s = r
  BY <1>1, <1>4, <1>7
<1> QED
  BY <1>8 DEF s

\* The rest of scaled numbers.
LEMMA RestScaled ==
    ASSUME NEW a \in Nat, NEW b \in Nat \ {0}, NEW k \in Nat \ {0}
    PROVE  (k * a) % (k * b) = k * (a % b)
<1> DEFINE q == a \div b
           r == a % b
<1>1. q \in Nat /\ r \in Nat /\ r < b /\ a = b * q + r
  BY Remainder
<1> HIDE DEF q, r
<1>2. k * a \in Nat /\ k * b \in Nat \ {0} /\ k * r \in Nat
  BY <1>1
<1>3. k * r < k * b
  <2>1. k * (b - r) >= 1
    BY <1>1
  <2>2. k * (b - r) = k * b - k * r
    BY <1>1
  <2> QED
    BY <1>1, <1>2, <2>1, <2>2
<1>4. k * a = (k * b) * q + k * r
  <2>1. k * (b * q + r) = k * (b * q) + k * r
    BY <1>1
  <2>2. k * (b * q) = (k * b) * q
    BY <1>1
  <2> QED
    BY <1>1, <2>1, <2>2
<1>5. (k * a) % (k * b) = k * r
  <2> DEFINE A == k * a
             B == k * b
             R == k * r
  <2>1. A \in Nat /\ B \in Nat \ {0} /\ R \in Nat /\ R < B /\ A = B * q + R /\ q \in Int
    BY <1>1, <1>2, <1>3, <1>4
  <2> HIDE DEF A, B, R
  <2>2. A % B = R
    BY <2>1, RestIs
  <2> QED
    BY <2>2 DEF A, B, R
<1> QED
  BY <1>5 DEF r

\* The greatest common divisor of scaled numbers, along Euclid's steps.
LEMMA GcdScaled ==
    ASSUME NEW a \in Nat, NEW b \in Nat, NEW k \in Nat \ {0}
    PROVE  Gcd[<<k * a, k * b>>] = k * Gcd[<<a, b>>]
<1> DEFINE Fine(x, y) == Gcd[<<k * x, k * y>>] = k * Gcd[<<x, y>>]
           Good == { n \in Nat : \A y \in 0 .. n : \A x \in Nat : Fine(x, y) }
<1>1. ASSUME NEW x \in Nat
      PROVE  Fine(x, 0)
  <2>1. Gcd[<<x, 0>>] = x
    BY GcdAt
  <2>2. k * x \in Nat /\ k * 0 = 0
    OBVIOUS
  <2>3. Gcd[<<k * x, 0>>] = k * x
    BY <2>2, GcdAt
  <2> QED
    BY <2>1, <2>2, <2>3
<1>2. ASSUME NEW x \in Nat, NEW y \in Nat \ {0}, Fine(y, x % y)
      PROVE  Fine(x, y)
  <2>1. Gcd[<<x, y>>] = Gcd[<<y, x % y>>]
    BY GcdAt
  <2>2. k * x \in Nat /\ k * y \in Nat /\ k * y # 0
    BY PositiveProduct
  <2>3. Gcd[<<k * x, k * y>>] = Gcd[<<k * y, (k * x) % (k * y)>>]
    BY <2>2, GcdAt
  <2>4. (k * x) % (k * y) = k * (x % y)
    BY RestScaled
  <2> QED
    BY <1>2, <2>1, <2>3, <2>4
<1> HIDE DEF Fine
<1>3. 0 \in Good
  BY <1>1
<1>4. ASSUME NEW n \in Nat, n \in Good
      PROVE  n + 1 \in Good
  <2>1. ASSUME NEW x \in Nat
        PROVE  Fine(x, n + 1)
    <3>1. x % (n + 1) \in 0 .. n
      BY Remainder
    <3>2. Fine(n + 1, x % (n + 1))
      BY <1>4, <3>1
    <3> QED
      BY <1>2, <3>2
  <2>2. \A y \in 0 .. n + 1 : y \in 0 .. n \/ y = n + 1
    OBVIOUS
  <2> QED
    BY <1>4, <2>1, <2>2
<1>5. b \in Good
  <2> HIDE DEF Good
  <2> QED
    BY <1>3, <1>4, NatSetInduction
<1>6. Fine(a, b)
  BY <1>5
<1> QED
  BY <1>6 DEF Fine

\* A common factor cancels when a fraction is reduced.
LEMMA RatioScaled ==
    ASSUME NEW n \in Int, NEW d \in Nat \ {0}, NEW k \in Nat \ {0}
    PROVE  Ratio(k * n, k * d) = Ratio(n, d)
<1> DEFINE m == Magnitude(n)
           g == Gcd[<<m, d>>]
<1>1. m \in Nat /\ Magnitude(d) = d /\ (n >= 0 => m = n) /\ (n < 0 => m = -n)
  BY MagnitudeFacts
<1> HIDE DEF m
<1>2. k * n \in Int /\ k * d \in Nat \ {0} /\ k * m \in Nat
  BY <1>1, PositiveProduct
<1>3. Magnitude(k * n) = k * m
  <2>1. CASE n >= 0
    <3>1. k * n >= 0 /\ m = n
      BY <1>1, <2>1
    <3> QED
      BY <1>2, <3>1, MagnitudeFacts
  <2>2. CASE n < 0
    <3>1. k * (-n) >= 1 /\ m = -n
      BY <1>1, <2>2
    <3>2. k * (-n) = -(k * n)
      OBVIOUS
    <3>3. k * n < 0
      BY <1>2, <3>1, <3>2
    <3> QED
      BY <1>2, <3>1, <3>2, <3>3, MagnitudeFacts
  <2> QED
    BY <2>1, <2>2
<1>4. Magnitude(k * d) = k * d
  BY <1>2, MagnitudeFacts
<1>5. Gcd[<<k * m, k * d>>] = k * g
  BY <1>1, GcdScaled
<1>6. g \in Nat /\ g # 0 /\ Divides(g, m) /\ Divides(g, d)
  BY <1>1, GcdFacts
<1>7. Divides(g, n)
  BY <1>6, DivisorOfMagnitude DEF m
<1>8. Ratio(n, d) = <<n \div g, d \div g>>
  <2>1. Ratio(n, d) = <<(1 * n) \div g, d \div g>>
    BY <1>1 DEF Ratio, m
  <2> HIDE DEF g
  <2> QED
    BY <2>1
<1>9. Ratio(k * n, k * d) = <<(k * n) \div (k * g), (k * d) \div (k * g)>>
  <2> DEFINE N == k * n
             D == k * d
  <2>1. ~ (D < 0) /\ Magnitude(N) = k * m /\ Magnitude(D) = D /\ Gcd[<<k * m, D>>] = k * g
        /\ N \in Int
    BY <1>2, <1>3, <1>4, <1>5
  <2> HIDE DEF N, D, g
  <2>2. Ratio(N, D) = <<(1 * N) \div (k * g), D \div (k * g)>>
    BY <2>1 DEF Ratio
  <2>3. 1 * N = N
    BY <2>1
  <2>4. Ratio(N, D) = <<N \div (k * g), D \div (k * g)>>
    BY <2>2, <2>3
  <2> QED
    BY <2>4 DEF N, D
<1> HIDE DEF g
<1>10. k * g \in Nat \ {0}
  BY <1>6, PositiveProduct
<1>11. ASSUME NEW x \in Int, Divides(g, x)
       PROVE  (k * x) \div (k * g) = x \div g
  <2>1. PICK y \in Int : x = g * y
    BY <1>11 DEF Divides
  <2>2. x \div g = y
    BY <1>6, <2>1, DivExact
  <2>3. k * x = (k * g) * y
    <3>1. k * (g * y) = (k * g) * y
      BY <1>6
    <3> QED
      BY <2>1, <3>1
  <2>4. ((k * g) * y) \div (k * g) = y
    <3> DEFINE h == k * g
    <3>1. h \in Nat \ {0}
      BY <1>10
    <3> HIDE DEF h
    <3>2. (h * y) \div h = y
      BY <3>1, DivExact
    <3> QED
      BY <3>2 DEF h
  <2> QED
    BY <2>2, <2>3, <2>4
<1>12. (k * n) \div (k * g) = n \div g /\ (k * d) \div (k * g) = d \div g
  BY <1>6, <1>7, <1>11
<1> QED
  BY <1>8, <1>9, <1>12

\* Equal fractions have the same lowest terms: Ratio is a normal form.
LEMMA SameRatio ==
    ASSUME NEW n \in Int, NEW d \in Nat \ {0}, NEW m \in Int, NEW e \in Nat \ {0}, n * e = m * d
    PROVE  Ratio(n, d) = Ratio(m, e)
<1>1. Ratio(e * n, e * d) = Ratio(n, d)
  BY RatioScaled
<1>2. Ratio(d * m, d * e) = Ratio(m, e)
  BY RatioScaled
<1>3. e * n = d * m /\ e * d = d * e
  OBVIOUS
<1> QED
  BY <1>1, <1>2, <1>3

-----------------------------------------------------------------------------
(* Their order                                                             *)

\* x is at most y.
AtMost(x, y) == x[1] * y[2] <= y[1] * x[2]

\* LessThan is the strict order of AtMost.
LEMMA OrderIs ==
    ASSUME NEW x \in Fraction, NEW y \in Fraction
    PROVE  ~ LessThan(x, y) <=> AtMost(y, x)
<1> DEFINE p == x[1] * y[2]
           q == y[1] * x[2]
<1>1. p \in Int /\ q \in Int
  BY DEF Fraction
<1>2. LessThan(x, y) <=> p < q
  BY DEF LessThan
<1>3. AtMost(y, x) <=> q <= p
  BY DEF AtMost
<1> HIDE DEF p, q
<1> QED
  BY <1>1, <1>2, <1>3

\* A positive factor keeps the order.
LEMMA LessTimes ==
    ASSUME NEW k \in Nat \ {0}, NEW u \in Int, NEW v \in Int
    PROVE  (k * u <= k * v) <=> u <= v
<1>1. CASE u <= v
  <2>1. k * (v - u) >= 0
    BY <1>1
  <2>2. k * (v - u) = k * v - k * u
    OBVIOUS
  <2> QED
    BY <1>1, <2>1, <2>2
<1>2. CASE u >= v + 1
  <2>1. k * (u - v) >= 1
    BY <1>2
  <2>2. k * (u - v) = k * u - k * v
    OBVIOUS
  <2> QED
    BY <1>2, <2>1, <2>2
<1> QED
  BY <1>1, <1>2

\* The order in any terms.
LEMMA AtMostIs ==
    ASSUME NEW x, NEW n, NEW d, Is(x, n, d), NEW y, NEW m, NEW e, Is(y, m, e)
    PROVE  AtMost(x, y) <=> n * e <= m * d
<1> DEFINE p == x[1]
           q == x[2]
           r == y[1]
           s == y[2]
<1>1. /\ p \in Int /\ q \in Nat \ {0} /\ r \in Int /\ s \in Nat \ {0}
      /\ n \in Int /\ d \in Nat \ {0} /\ m \in Int /\ e \in Nat \ {0}
      /\ p * d = n * q /\ r * e = m * s
  BY IsParts
<1>2. AtMost(x, y) <=> p * s <= r * q
  BY DEF AtMost
<1> HIDE DEF p, q, r, s
<1>3. d * e \in Nat \ {0} /\ q * s \in Nat \ {0}
  BY <1>1, PositiveProduct
<1>4. (d * e) * (p * s) = (q * s) * (n * e)
  <2>1. (d * e) * (p * s) = (p * d) * (e * s)
    BY <1>1
  <2>2. (n * q) * (e * s) = (q * s) * (n * e)
    BY <1>1
  <2> QED
    BY <1>1, <2>1, <2>2
<1>5. (d * e) * (r * q) = (q * s) * (m * d)
  <2>1. (d * e) * (r * q) = (r * e) * (d * q)
    BY <1>1
  <2>2. (m * s) * (d * q) = (q * s) * (m * d)
    BY <1>1
  <2> QED
    BY <1>1, <2>1, <2>2
<1>6. p * s \in Int /\ r * q \in Int /\ n * e \in Int /\ m * d \in Int
  BY <1>1
<1>7. (p * s <= r * q) <=> (d * e) * (p * s) <= (d * e) * (r * q)
  BY <1>3, <1>6, LessTimes
<1>8. (n * e <= m * d) <=> (q * s) * (n * e) <= (q * s) * (m * d)
  BY <1>3, <1>6, LessTimes
<1> QED
  BY <1>2, <1>4, <1>5, <1>7, <1>8

\* The order is transitive,
LEMMA AtMostTransitive ==
    ASSUME NEW x \in Fraction, NEW y \in Fraction, NEW z \in Fraction, AtMost(x, y), AtMost(y, z)
    PROVE  AtMost(x, z)
<1> DEFINE p == x[1]
           q == x[2]
           r == y[1]
           s == y[2]
           t == z[1]
           u == z[2]
<1>1. /\ p \in Int /\ q \in Nat \ {0} /\ r \in Int /\ s \in Nat \ {0}
      /\ t \in Int /\ u \in Nat \ {0}
  BY DEF Fraction
<1>2. p * s <= r * q /\ r * u <= t * s
  BY DEF AtMost
<1>3. AtMost(x, z) <=> p * u <= t * q
  BY DEF AtMost
<1> HIDE DEF p, q, r, s, t, u
<1>4. p * s \in Int /\ r * q \in Int /\ r * u \in Int /\ t * s \in Int /\ p * u \in Int /\ t * q \in Int
  BY <1>1
<1>5. u * (p * s) <= u * (r * q) /\ q * (r * u) <= q * (t * s)
  BY <1>1, <1>2, <1>4, LessTimes
<1>6. u * (p * s) = s * (p * u) /\ u * (r * q) = q * (r * u) /\ q * (t * s) = s * (t * q)
  BY <1>1
<1>7. s * (p * u) <= s * (t * q)
  <2>1. s * (p * u) \in Int /\ s * (t * q) \in Int /\ q * (r * u) \in Int
    BY <1>1, <1>4
  <2> QED
    BY <1>5, <1>6, <2>1
<1> QED
  BY <1>1, <1>3, <1>4, <1>7, LessTimes

\* reflexive and total,
LEMMA AtMostTotal ==
    ASSUME NEW x \in Fraction, NEW y \in Fraction
    PROVE  AtMost(x, x) /\ (AtMost(x, y) \/ AtMost(y, x))
<1> DEFINE p == x[1] * y[2]
           q == y[1] * x[2]
<1>1. p \in Int /\ q \in Int /\ x[1] * x[2] \in Int
  BY DEF Fraction
<1>2. (AtMost(x, y) <=> p <= q) /\ (AtMost(y, x) <=> q <= p)
  BY DEF AtMost
<1>3. AtMost(x, x)
  BY <1>1 DEF AtMost
<1> HIDE DEF p, q
<1> QED
  BY <1>1, <1>2, <1>3

\* A fraction as Ratio gives it.
Lowest(x) == \E n \in Int : \E d \in Nat \ {0} : x = Ratio(n, d)

\* A fraction in lowest terms is a fraction,
LEMMA LowestFraction ==
    ASSUME NEW x, Lowest(x)
    PROVE  x \in Fraction
<1>1. PICK n \in Int : \E d \in Nat \ {0} : x = Ratio(n, d)
  BY DEF Lowest
<1>2. PICK d \in Nat \ {0} : x = Ratio(n, d)
  BY <1>1
<1>3. Is(x, n, d)
  BY <1>2, RatioIs
<1> QED
  BY <1>3, IsFraction

\* and the order tells two of them apart.
LEMMA LowestSame ==
    ASSUME NEW x, NEW y, Lowest(x), Lowest(y), AtMost(x, y), AtMost(y, x)
    PROVE  x = y
<1>1. PICK n \in Int : \E d \in Nat \ {0} : x = Ratio(n, d)
  BY DEF Lowest
<1>2. PICK d \in Nat \ {0} : x = Ratio(n, d)
  BY <1>1
<1>3. PICK m \in Int : \E e \in Nat \ {0} : y = Ratio(m, e)
  BY DEF Lowest
<1>4. PICK e \in Nat \ {0} : y = Ratio(m, e)
  BY <1>3
<1>5. Is(x, n, d) /\ Is(y, m, e)
  BY <1>2, <1>4, RatioIs
<1>6. n * e <= m * d /\ m * d <= n * e
  BY <1>5, AtMostIs
<1>7. n * e \in Int /\ m * d \in Int
  OBVIOUS
<1>8. n * e = m * d
  BY <1>6, <1>7
<1> QED
  BY <1>2, <1>4, <1>8, SameRatio

\* A finite set of fractions has a largest.
LEMMA LargestExists ==
    ASSUME NEW S, IsFiniteSet(S), S # {}, \A x \in S : x \in Fraction
    PROVE  \E m \in S : \A x \in S : AtMost(x, m)
<1> DEFINE Good == { T \in SUBSET S : T = {} \/ \E m \in T : \A x \in T : AtMost(x, m) }
<1>1. {} \in Good
  OBVIOUS
<1>2. ASSUME NEW T \in SUBSET S, NEW x \in S \ T, T \in Good
      PROVE  T \cup {x} \in Good
  <2>1. CASE T = {}
    <3>1. AtMost(x, x)
      BY AtMostTotal
    <3> QED
      BY <2>1, <3>1
  <2>2. CASE T # {}
    <3>1. PICK m \in T : \A y \in T : AtMost(y, m)
      BY <1>2, <2>2
    <3>2. m \in Fraction /\ x \in Fraction /\ \A y \in T : y \in Fraction
      OBVIOUS
    <3>3. \E k \in T \cup {x} : \A y \in T \cup {x} : AtMost(y, k)
      <4>1. CASE AtMost(x, m)
        BY <3>1, <4>1
      <4>2. CASE AtMost(m, x)
        <5>1. \A y \in T : AtMost(y, x)
          BY <3>1, <3>2, <4>2, AtMostTransitive
        <5>2. AtMost(x, x)
          BY AtMostTotal
        <5> QED
          BY <5>1, <5>2
      <4> QED
        BY <3>2, <4>1, <4>2, AtMostTotal
    <3> QED
      BY <3>3
  <2> QED
    BY <2>1, <2>2
<1>3. S \in Good
  <2> HIDE DEF Good
  <2> QED
    BY <1>1, <1>2, ElementInduction
<1> QED
  BY <1>3

-----------------------------------------------------------------------------
(* The loop of calculate_stats                                             *)

\* The fractions of the tracker are those above.
LEMMA TrackerGcd == Tracker!Gcd = Gcd
  BY DEF Tracker!Gcd, Gcd

\* Its reduction,
LEMMA TrackerRatio == \A n, d : Tracker!Ratio(n, d) = Ratio(n, d)
  BY TrackerGcd DEF Tracker!Ratio, Tracker!Magnitude, Ratio, Magnitude

\* and its operations.
LEMMA TrackerFractions ==
    /\ \A n : Tracker!Whole(n) = Whole(n)
    /\ \A x, y : /\ Tracker!Plus(x, y) = Plus(x, y)
                 /\ Tracker!Minus(x, y) = Minus(x, y)
                 /\ Tracker!Times(x, y) = Times(x, y)
                 /\ Tracker!Over(x, y) = Over(x, y)
                 /\ Tracker!LessThan(x, y) = LessThan(x, y)
                 /\ Tracker!Larger(x, y) = Larger(x, y)
  BY TrackerRatio DEF Tracker!Whole, Whole, Tracker!Plus, Plus, Tracker!Minus, Minus,
     Tracker!Times, Times, Tracker!Over, Over, Tracker!LessThan, LessThan, Tracker!Larger, Larger

\* What the loop starts from, what round k makes of round k - 1, and functions that hold the
\* first n rounds, or all of them.
LoopStart == [running |-> Whole(Capital), peak |-> Whole(Capital),
              max_dd |-> Whole(0), current |-> 0, longest |-> 0]
LoopRound(g, k) == IF k = 0 THEN LoopStart ELSE Tracker!Round(g[k - 1], daily_returns[k])
LoopTo(g, n) == g = [k \in 0 .. n |-> LoopRound(g, k)]
IsLoop(g) == g = [k \in Nat |-> LoopRound(g, k)]

\* Two such functions agree on the rounds both hold,
LEMMA LoopUnique ==
    ASSUME NEW m \in Nat, NEW n \in Nat, NEW g, NEW h, LoopTo(g, m), LoopTo(h, n),
           NEW k \in Nat, k <= m, k <= n
    PROVE  g[k] = h[k]
<1> DEFINE Good == { i \in Nat : i <= m /\ i <= n => g[i] = h[i] }
<1>1. \A i \in Nat : i <= m => g[i] = LoopRound(g, i)
  BY DEF LoopTo
<1>2. \A i \in Nat : i <= n => h[i] = LoopRound(h, i)
  BY DEF LoopTo
<1>3. 0 \in Good
  <2>1. g[0] = LoopStart /\ h[0] = LoopStart
    BY <1>1, <1>2 DEF LoopRound
  <2> QED
    BY <2>1
<1>4. ASSUME NEW i \in Nat, i \in Good
      PROVE  i + 1 \in Good
  <2> SUFFICES ASSUME i + 1 <= m, i + 1 <= n
               PROVE  g[i + 1] = h[i + 1]
    OBVIOUS
  <2>1. g[i] = h[i]
    BY <1>4
  <2>2. g[i + 1] = LoopRound(g, i + 1) /\ h[i + 1] = LoopRound(h, i + 1)
    BY <1>1, <1>2
  <2>3. i + 1 # 0 /\ (i + 1) - 1 = i
    OBVIOUS
  <2>4. LoopRound(g, i + 1) = LoopRound(h, i + 1)
    BY <2>1, <2>3 DEF LoopRound
  <2> QED
    BY <2>2, <2>4
<1>5. k \in Good
  <2> HIDE DEF Good
  <2> QED
    BY <1>3, <1>4, NatSetInduction
<1> QED
  BY <1>5

\* one exists for every number of rounds,
LEMMA LoopToExists ==
    ASSUME NEW n \in Nat
    PROVE  \E g : LoopTo(g, n)
<1> DEFINE Good == { i \in Nat : \E g : LoopTo(g, i) }
<1>1. 0 \in Good
  <2> DEFINE g == [k \in 0 .. 0 |-> LoopStart]
  <2>1. \A k \in 0 .. 0 : LoopRound(g, k) = LoopStart
    BY DEF LoopRound
  <2>2. LoopTo(g, 0)
    BY <2>1 DEF LoopTo
  <2> QED
    BY <2>2
<1>2. ASSUME NEW i \in Nat, i \in Good
      PROVE  i + 1 \in Good
  <2>1. PICK g : LoopTo(g, i)
    BY <1>2
  <2> DEFINE h == [k \in 0 .. i + 1 |-> IF k = i + 1 THEN LoopRound(g, i + 1) ELSE g[k]]
  <2>2. \A k \in 0 .. i : h[k] = g[k] /\ g[k] = LoopRound(g, k)
    BY <2>1 DEF LoopTo
  <2>3. h[i + 1] = LoopRound(g, i + 1)
    OBVIOUS
  <2>4. ASSUME NEW k \in 0 .. i + 1
        PROVE  LoopRound(h, k) = LoopRound(g, k)
    <3>1. CASE k = 0
      BY <3>1 DEF LoopRound
    <3>2. CASE k # 0
      <4>1. k - 1 \in 0 .. i
        BY <3>2
      <4>2. h[k - 1] = g[k - 1]
        BY <2>2, <4>1
      <4> HIDE DEF h
      <4> QED
        BY <4>2 DEF LoopRound
    <3> QED
      BY <3>1, <3>2
  <2>5. ASSUME NEW k \in 0 .. i + 1
        PROVE  h[k] = LoopRound(h, k)
    <3> HIDE DEF h
    <3>1. CASE k = i + 1
      BY <2>3, <2>4, <3>1
    <3>2. CASE k # i + 1
      <4>1. k \in 0 .. i
        BY <3>2
      <4> QED
        BY <2>2, <2>4, <4>1
    <3> QED
      BY <3>1, <3>2
  <2>6. h = [k \in 0 .. i + 1 |-> h[k]]
    OBVIOUS
  <2>7. h = [k \in 0 .. i + 1 |-> LoopRound(h, k)]
    <3> HIDE DEF h
    <3> QED
      BY <2>5, <2>6
  <2>8. LoopTo(h, i + 1)
    BY <2>7 DEF LoopTo
  <2> QED
    BY <2>8
<1>3. n \in Good
  <2> HIDE DEF Good
  <2> QED
    BY <1>1, <1>2, NatSetInduction
<1> QED
  BY <1>3

\* and so one holds all of them.
LEMMA LoopExists == \E g : IsLoop(g)
<1> DEFINE part(n) == CHOOSE g : LoopTo(g, n)
           g == [k \in Nat |-> part(k)[k]]
<1>1. ASSUME NEW n \in Nat
      PROVE  LoopTo(part(n), n)
  BY LoopToExists
<1>2. ASSUME NEW k \in Nat
      PROVE  g[k] = LoopRound(g, k)
  <2>1. g[k] = part(k)[k]
    OBVIOUS
  <2>2. part(k)[k] = LoopRound(part(k), k)
    <3>1. LoopTo(part(k), k) /\ k \in 0 .. k
      BY <1>1
    <3> HIDE DEF part
    <3> QED
      BY <3>1 DEF LoopTo
  <2>3. CASE k = 0
    BY <2>1, <2>2, <2>3 DEF LoopRound
  <2>4. CASE k # 0
    <3>1. k - 1 \in Nat /\ k - 1 <= k /\ k - 1 <= k - 1
      BY <2>4
    <3>2. LoopTo(part(k), k) /\ LoopTo(part(k - 1), k - 1)
      BY <1>1, <3>1
    <3>3. g[k - 1] = part(k - 1)[k - 1]
      BY <3>1
    <3> HIDE DEF part, g
    <3>4. part(k)[k - 1] = part(k - 1)[k - 1]
      BY <3>1, <3>2, LoopUnique
    <3> QED
      BY <2>1, <2>2, <2>4, <3>3, <3>4 DEF LoopRound
  <2> QED
    BY <2>3, <2>4
<1>3. g = [k \in Nat |-> LoopRound(g, k)]
  <2>1. g = [k \in Nat |-> g[k]]
    OBVIOUS
  <2> HIDE DEF g
  <2> QED
    BY <1>2, <2>1
<1> QED
  BY <1>3 DEF IsLoop

\* The loop does what it says, round by round.
LEMMA LoopAt ==
    /\ Tracker!Drawdown[0] = LoopStart
    /\ \A k \in Nat \ {0} : Tracker!Drawdown[k] = Tracker!Round(Tracker!Drawdown[k - 1], daily_returns[k])
<1>1. LoopStart = [running |-> Tracker!Whole(Capital), peak |-> Tracker!Whole(Capital),
                   max_dd |-> Tracker!Whole(0), current |-> 0, longest |-> 0]
  BY TrackerFractions DEF LoopStart
<1>2. Tracker!Drawdown = CHOOSE g : g = [k \in Nat |-> LoopRound(g, k)]
  BY <1>1 DEF Tracker!Drawdown, LoopRound
<1>3. Tracker!Drawdown = [k \in Nat |-> LoopRound(Tracker!Drawdown, k)]
  BY <1>2, LoopExists DEF IsLoop
<1>4. \A k \in Nat : Tracker!Drawdown[k] = LoopRound(Tracker!Drawdown, k)
  BY <1>3
<1> QED
  BY <1>4 DEF LoopRound

-----------------------------------------------------------------------------
(* One round of the loop                                                   *)

\* A fraction above zero.
Positive(x) == x \in Fraction /\ x[1] > 0

\* Its terms are positive,
LEMMA PositiveParts ==
    ASSUME NEW x, Positive(x)
    PROVE  x \in Fraction /\ x[1] \in Nat \ {0} /\ x[2] \in Nat \ {0} /\ Is(x, x[1], x[2])
<1>1. x \in Fraction /\ x[1] \in Int /\ x[2] \in Nat \ {0} /\ x[1] > 0
  BY DEF Positive, Fraction
<1> QED
  BY <1>1, FractionIs

\* in any terms.
LEMMA PositiveIs ==
    ASSUME NEW x, NEW n, NEW d, Is(x, n, d), n > 0
    PROVE  Positive(x)
<1> DEFINE p == x[1]
           q == x[2]
<1>1. x \in Fraction /\ p \in Int /\ q \in Nat \ {0} /\ n \in Nat \ {0} /\ d \in Nat \ {0} /\ p * d = n * q
  BY IsParts
<1>2. Positive(x) <=> p > 0
  BY <1>1 DEF Positive
<1> HIDE DEF p, q
<1>3. n * q \in Nat \ {0}
  BY <1>1, PositiveProduct
<1>4. ~ (p <= 0)
  <2> SUFFICES ASSUME p <= 0 PROVE FALSE
    OBVIOUS
  <2>1. (-p) * d >= 0 /\ (-p) * d = -(p * d)
    BY <1>1
  <2>2. p * d \in Int
    BY <1>1
  <2> QED
    BY <1>1, <1>3, <2>1, <2>2
<1> QED
  BY <1>1, <1>2, <1>4

\* The running value, grown by a return from e to w.
LEMMA GrowthIs ==
    ASSUME NEW x, Positive(x), NEW w \in Nat \ {0}, NEW e \in Nat \ {0}
    PROVE  /\ Is(Times(x, Ratio(w, e)), x[1] * w, x[2] * e)
           /\ Positive(Times(x, Ratio(w, e)))
<1> DEFINE y == Ratio(w, e)
           p == x[1]
           q == x[2]
           r == y[1]
           s == y[2]
<1>1. p \in Nat \ {0} /\ q \in Nat \ {0}
  BY PositiveParts
<1>2. Is(y, w, e)
  BY RatioIs
<1>3. r \in Int /\ s \in Nat \ {0} /\ r * e = w * s
  BY <1>2, IsParts
<1>4. Times(x, y) = Ratio(p * r, q * s)
  BY DEF Times
<1> HIDE DEF y, p, q, r, s
<1>5. p * r \in Int /\ q * s \in Nat \ {0} /\ p * w \in Nat \ {0} /\ q * e \in Nat \ {0}
  BY <1>1, <1>3, PositiveProduct
<1>6. (p * r) * (q * e) = (p * w) * (q * s)
  <2>1. (p * r) * (q * e) = (p * q) * (r * e)
    BY <1>1, <1>3
  <2>2. (p * q) * (w * s) = (p * w) * (q * s)
    BY <1>1, <1>3
  <2> QED
    BY <1>3, <2>1, <2>2
<1>7. Is(Ratio(p * r, q * s), p * w, q * e)
  <2> DEFINE n == p * r
             m == q * s
             c == p * w
             d == q * e
  <2>1. n \in Int /\ m \in Nat \ {0} /\ c \in Int /\ d \in Nat \ {0} /\ n * d = c * m
    BY <1>5, <1>6
  <2> HIDE DEF n, m, c, d
  <2>2. Is(Ratio(n, m), c, d)
    BY <2>1, RatioIsOther
  <2> QED
    BY <2>2 DEF n, m, c, d
<1>8. Is(Times(x, y), p * w, q * e)
  BY <1>4, <1>7
<1>9. Positive(Times(x, y))
  <2> DEFINE c == p * w
  <2>1. c > 0 /\ Is(Times(x, y), c, q * e)
    BY <1>5, <1>8
  <2> HIDE DEF c
  <2> QED
    BY <2>1, PositiveIs
<1> QED
  BY <1>8, <1>9 DEF y, p, q

\* The fall from x to y, as a part of x.
FallFrom(x, y) == Over(Minus(x, y), x)

\* The arithmetic of the next lemma.
LEMMA FallArithmetic ==
    ASSUME NEW P \in Int, NEW Q \in Int, NEW r \in Int, NEW s \in Int, NEW m1 \in Int, NEW m2 \in Int,
           m1 * (Q * s) = (P * s - r * Q) * m2
    PROVE  (m1 * Q) * (P * s) = (P * s - r * Q) * (m2 * P)
<1> DEFINE f == P * s - r * Q
<1>1. f \in Int /\ m1 * (Q * s) = f * m2
  OBVIOUS
<1> HIDE DEF f
<1>2. (m1 * Q) * (P * s) = (m1 * (Q * s)) * P
  OBVIOUS
<1>3. (f * m2) * P = f * (m2 * P)
  BY <1>1
<1>4. (m1 * Q) * (P * s) = f * (m2 * P)
  BY <1>1, <1>2, <1>3
<1> QED
  BY <1>4 DEF f

\* The terms of a fall.
LEMMA FallIs ==
    ASSUME NEW x, NEW y, Positive(x), Positive(y)
    PROVE  /\ Is(FallFrom(x, y), x[1] * y[2] - y[1] * x[2], x[1] * y[2])
           /\ Lowest(FallFrom(x, y))
<1> DEFINE P == x[1]
           Q == x[2]
           r == y[1]
           s == y[2]
           m == Minus(x, y)
           u == m[1]
           v == m[2]
           f == P * s - r * Q
<1>1. P \in Nat \ {0} /\ Q \in Nat \ {0} /\ r \in Nat \ {0} /\ s \in Nat \ {0}
  BY PositiveParts
<1>2. Is(m, f, Q * s)
  <2>1. P * s + (-r) * Q \in Int /\ Q * s \in Nat \ {0}
    BY <1>1, PositiveProduct
  <2>2. P * s + (-r) * Q = f
    BY <1>1
  <2>3. m = Ratio(P * s + (-r) * Q, Q * s)
    BY DEF Minus, Plus
  <2> HIDE DEF m, P, Q, r, s
  <2> QED
    BY <2>1, <2>2, <2>3, RatioIs
<1>3. u \in Int /\ v \in Nat \ {0} /\ u * (Q * s) = f * v /\ f \in Int
  BY <1>2, IsParts
<1>4. FallFrom(x, y) = Ratio(u * Q, v * P)
  BY DEF FallFrom, Over
<1> HIDE DEF u, v, P, Q, r, s, m
<1>5. u * Q \in Int /\ v * P \in Nat \ {0} /\ P * s \in Nat \ {0}
  BY <1>1, <1>3, PositiveProduct
<1>6. (u * Q) * (P * s) = f * (v * P)
  BY <1>1, <1>3, FallArithmetic
<1>7. Is(Ratio(u * Q, v * P), f, P * s)
  <2> DEFINE n == u * Q
             k == v * P
             d == P * s
  <2>1. n \in Int /\ k \in Nat \ {0} /\ f \in Int /\ d \in Nat \ {0} /\ n * d = f * k
    BY <1>3, <1>5, <1>6
  <2> HIDE DEF n, k, d, f
  <2>2. Is(Ratio(n, k), f, d)
    BY <2>1, RatioIsOther
  <2> QED
    BY <2>2 DEF n, k, d
<1>8. Lowest(FallFrom(x, y))
  BY <1>4, <1>5 DEF Lowest
<1> QED
  BY <1>4, <1>7, <1>8 DEF P, Q, r, s

\* The fall is at most that from a to b, if x * b is at most y * a.
LEMMA FallAtMost ==
    ASSUME NEW x, NEW y, Positive(x), Positive(y), NEW a \in Nat \ {0}, NEW b \in Nat \ {0},
           (x[1] * y[2]) * b <= (y[1] * x[2]) * a
    PROVE  AtMost(FallFrom(x, y), Ratio(a - b, a))
<1> DEFINE u == x[1] * y[2]
           v == y[1] * x[2]
<1>1. u \in Nat \ {0} /\ v \in Nat \ {0}
  <2>1. x[1] \in Nat \ {0} /\ x[2] \in Nat \ {0} /\ y[1] \in Nat \ {0} /\ y[2] \in Nat \ {0}
    BY PositiveParts
  <2> QED
    BY <2>1, PositiveProduct
<1>2. Is(FallFrom(x, y), u - v, u)
  BY FallIs
<1>3. Is(Ratio(a - b, a), a - b, a)
  BY RatioIs
<1>4. u * b <= v * a
  OBVIOUS
<1> HIDE DEF u, v
<1>5. (u - v) * a <= (a - b) * u
  <2>1. (u - v) * a = u * a - v * a /\ (a - b) * u = u * a - u * b
    BY <1>1
  <2>2. u * a \in Int /\ v * a \in Int /\ u * b \in Int
    BY <1>1
  <2> QED
    BY <1>4, <2>1, <2>2
<1> QED
  BY <1>2, <1>3, <1>5, AtMostIs

-----------------------------------------------------------------------------
(* The loop with costs                                                     *)

\* What the loop holds.
LoopState == [running : Fraction, peak : Fraction, max_dd : Fraction, current : Int, longest : Int]

\* The part of a that is lost when it falls to b.
Fall(a, b) == Ratio(a - b, a)

\* Its terms, when a and b are values.
LEMMA FallFacts ==
    ASSUME NEW a \in Nat \ {0}, NEW b \in Nat \ {0}
    PROVE  Is(Fall(a, b), a - b, a) /\ Lowest(Fall(a, b)) /\ Fall(a, b) \in Fraction
<1>1. a - b \in Int
  OBVIOUS
<1>2. Is(Fall(a, b), a - b, a)
  BY <1>1, RatioIs DEF Fall
<1>3. Lowest(Fall(a, b))
  BY <1>1 DEF Lowest, Fall
<1> QED
  BY <1>2, <1>3, IsFraction

\* A fall from a to b is at most one from c to d if d / c is at most b / a.
LEMMA FallCompared ==
    ASSUME NEW a \in Nat \ {0}, NEW b \in Nat \ {0}, NEW c \in Nat \ {0}, NEW d \in Nat \ {0},
           d * a <= b * c
    PROVE  AtMost(Fall(a, b), Fall(c, d))
<1>1. (a - b) * c <= (c - d) * a
  <2>1. (a - b) * c = a * c - b * c /\ (c - d) * a = a * c - d * a
    OBVIOUS
  <2>2. a * c \in Int /\ b * c \in Int /\ d * a \in Int
    OBVIOUS
  <2> QED
    BY <2>1, <2>2
<1>2. Is(Fall(a, b), a - b, a) /\ Is(Fall(c, d), c - d, c)
  BY FallFacts
<1> QED
  BY <1>1, <1>2, AtMostIs

\* p over r is at most a over b.
Under(p, r, b, a) == (p[1] * r[2]) * b <= (r[1] * p[2]) * a

\* The arithmetic of the next lemma.
LEMMA UnderArithmetic ==
    ASSUME NEW p \in Nat \ {0}, NEW q \in Nat \ {0}, NEW r \in Nat \ {0}, NEW s \in Nat \ {0},
           NEW a \in Nat \ {0}, NEW b \in Nat \ {0}, NEW w \in Nat \ {0}, NEW e \in Nat \ {0}, e <= b,
           (p * s) * b <= (r * q) * a,
           NEW u \in Nat \ {0}, NEW z \in Nat \ {0}, u * (s * e) = (r * w) * z
    PROVE  (p * z) * w <= (u * q) * a
<1> DEFINE k == s * e
           m == p * s
           n == r * q
           f == w * z
<1>1. k \in Nat \ {0} /\ m \in Nat \ {0} /\ n \in Nat \ {0} /\ f \in Nat \ {0}
  BY PositiveProduct
<1>2. m * e <= n * a
  <2>1. m * e <= m * b
    <3> HIDE DEF m
    <3> QED
      BY <1>1
  <2>2. m * e \in Int /\ m * b \in Int /\ n * a \in Int
    BY <1>1
  <2> HIDE DEF m, n
  <2> QED
    BY <2>1, <2>2 DEF m, n
<1>3. f * (m * e) <= f * (n * a)
  <2> DEFINE x == m * e
             y == n * a
  <2>1. x \in Int /\ y \in Int /\ x <= y
    BY <1>1, <1>2
  <2> HIDE DEF x, y, m, n, f
  <2>2. f * x <= f * y
    BY <1>1, <2>1
  <2> QED
    BY <2>2 DEF x, y
<1>4. f * (m * e) = k * ((p * z) * w)
  OBVIOUS
<1>5. f * (n * a) = k * ((u * q) * a)
  <2>1. f * (n * a) = ((r * w) * z) * (q * a)
    OBVIOUS
  <2>2. (u * (s * e)) * (q * a) = k * ((u * q) * a)
    OBVIOUS
  <2> HIDE DEF k, m, n, f
  <2> QED
    BY <2>1, <2>2
<1>6. (p * z) * w \in Int /\ (u * q) * a \in Int
  OBVIOUS
<1>7. k * ((p * z) * w) <= k * ((u * q) * a)
  <2> HIDE DEF k, m, n, f
  <2> QED
    BY <1>3, <1>4, <1>5
<1> HIDE DEF k, m, n, f
<1> QED
  BY <1>1, <1>6, <1>7, LessTimes

\* A return that starts from e, at most b, leaves the peak as far above.
LEMMA UnderGrown ==
    ASSUME NEW p, NEW r, Positive(p), Positive(r), NEW a \in Nat \ {0}, NEW b \in Nat \ {0},
           NEW w \in Nat \ {0}, NEW e \in Nat \ {0}, e <= b, Under(p, r, b, a)
    PROVE  Under(p, Times(r, Ratio(w, e)), w, a)
<1> DEFINE t == Times(r, Ratio(w, e))
<1>1. Is(t, r[1] * w, r[2] * e) /\ Positive(t)
  BY GrowthIs
<1> HIDE DEF t
<1>2. t[1] * (r[2] * e) = (r[1] * w) * t[2]
  BY <1>1, IsParts
<1>3. t[1] \in Nat \ {0} /\ t[2] \in Nat \ {0}
  BY <1>1, PositiveParts
<1>4. p[1] \in Nat \ {0} /\ p[2] \in Nat \ {0} /\ r[1] \in Nat \ {0} /\ r[2] \in Nat \ {0}
  BY PositiveParts
<1>5. (p[1] * r[2]) * b <= (r[1] * p[2]) * a
  BY DEF Under
<1>6. (p[1] * t[2]) * w <= (t[1] * p[2]) * a
  BY <1>2, <1>3, <1>4, <1>5, UnderArithmetic
<1> QED
  BY <1>6 DEF Under, t

\* One round, in its two cases.
Grown(s, r) == Times(s.running, Ratio(r[2], r[1]))

\* The round keeps the state's types and either raises the peak or looks at the fall from it.
LEMMA RoundFacts ==
    ASSUME NEW s \in LoopState, Positive(s.running), Positive(s.peak),
           NEW r, r[1] \in Nat \ {0}, r[2] \in Nat \ {0}
    PROVE  /\ Positive(Grown(s, r))
           /\ Tracker!Round(s, r) \in LoopState
           /\ Tracker!Round(s, r).running = Grown(s, r)
           /\ \/ /\ LessThan(s.peak, Grown(s, r))
                 /\ Tracker!Round(s, r).peak = Grown(s, r)
                 /\ Tracker!Round(s, r).max_dd = s.max_dd
              \/ /\ ~ LessThan(s.peak, Grown(s, r))
                 /\ Tracker!Round(s, r).peak = s.peak
                 /\ Tracker!Round(s, r).max_dd = Larger(s.max_dd, FallFrom(s.peak, Grown(s, r)))
<1> DEFINE g == Grown(s, r)
           d == FallFrom(s.peak, g)
           t == Tracker!Round(s, r)
<1>1. Positive(g)
  BY GrowthIs DEF Grown
<1>2. g \in Fraction /\ d \in Fraction
  <2>1. g \in Fraction
    BY <1>1 DEF Positive
  <2> HIDE DEF g
  <2>2. d \in Fraction
    BY <1>1, FallIs, LowestFraction
  <2> QED
    BY <2>1, <2>2
<1>3. Larger(s.max_dd, d) \in Fraction
  BY <1>2 DEF Larger, LoopState
<1>4. t = IF LessThan(s.peak, g)
          THEN [s EXCEPT !.running = g, !.peak = g, !.current = 0,
                         !.longest = IF s.current > @ THEN s.current ELSE @]
          ELSE [s EXCEPT !.running = g, !.current = @ + 1, !.max_dd = Larger(@, d)]
  BY TrackerRatio, TrackerFractions DEF Tracker!Round, Grown, FallFrom
<1>5. /\ s.peak \in Fraction /\ s.max_dd \in Fraction /\ s.current \in Int /\ s.longest \in Int
      /\ s = [running |-> s.running, peak |-> s.peak, max_dd |-> s.max_dd,
              current |-> s.current, longest |-> s.longest]
  BY DEF LoopState
<1> HIDE DEF g, d, t
<1>6. CASE LessThan(s.peak, g)
  <2>1. t = [s EXCEPT !.running = g, !.peak = g, !.current = 0,
                      !.longest = IF s.current > @ THEN s.current ELSE @]
    BY <1>4, <1>6
  <2> DEFINE l == IF s.current > s.longest THEN s.current ELSE s.longest
  <2>3. l \in Int
    BY <1>5
  <2>4. t = [running |-> g, peak |-> g, max_dd |-> s.max_dd, current |-> 0, longest |-> l]
    BY <1>5, <2>1
  <2> HIDE DEF l
  <2>2. t \in LoopState /\ t.running = g /\ t.peak = g /\ t.max_dd = s.max_dd
    BY <1>2, <1>5, <2>3, <2>4 DEF LoopState
  <2> QED
    BY <1>1, <1>6, <2>2 DEF g, t
<1>7. CASE ~ LessThan(s.peak, g)
  <2>1. t = [s EXCEPT !.running = g, !.current = @ + 1, !.max_dd = Larger(@, d)]
    BY <1>4, <1>7
  <2> DEFINE c == s.current + 1
             m == Larger(s.max_dd, d)
  <2>3. c \in Int /\ m \in Fraction
    BY <1>3, <1>5
  <2>4. t = [running |-> g, peak |-> s.peak, max_dd |-> m, current |-> c, longest |-> s.longest]
    BY <1>5, <2>1
  <2> HIDE DEF c, m
  <2>5. t \in LoopState /\ t.running = g /\ t.peak = s.peak /\ t.max_dd = m
    BY <1>2, <1>5, <2>3, <2>4 DEF LoopState
  <2>2. t \in LoopState /\ t.running = g /\ t.peak = s.peak /\ t.max_dd = Larger(s.max_dd, d)
    BY <2>5 DEF m
  <2> QED
    BY <1>1, <1>7, <2>2 DEF g, d, t
<1> QED
  BY <1>6, <1>7

\* The values, and returns that go from one to the next and may start lower.
Worths(v, n) == \A j \in 0 .. n : v[j] \in Nat \ {0}
Returns(R, v, n) == \A k \in 1 .. n : R[k][1] \in Nat \ {0} /\ R[k][1] <= v[k - 1] /\ R[k][2] = v[k]

\* After k rounds: the peak is no further above than one of the values was,
\* and so was the largest fall.
HighEnough(p, r, v, k) == \E j \in 0 .. k : Under(p, r, v[k], v[j])
DeepEnough(m, v, k) == \E i \in 0 .. k : \E j \in 0 .. i : AtMost(m, Fall(v[j], v[i]))
Bounded(s, v, k) ==
    /\ s \in LoopState /\ Positive(s.running) /\ Positive(s.peak)
    /\ HighEnough(s.peak, s.running, v, k) /\ DeepEnough(s.max_dd, v, k)

\* Before the first round.
LEMMA BoundedStart ==
    ASSUME NEW v, Worths(v, 0), v[0] = Capital
    PROVE  Bounded(LoopStart, v, 0)
<1>1. Capital \in Nat \ {0}
  BY AccountsAssumption
<1> DEFINE c == Whole(Capital)
<1>2. c[1] = Capital /\ c[2] = 1 /\ c \in Fraction /\ Whole(0) \in Fraction
  BY <1>1, WholeFraction DEF Whole
<1>3. Positive(c)
  BY <1>1, <1>2 DEF Positive
<1>4. 0 \in 0 .. 0
  OBVIOUS
<1>5. Under(c, c, v[0], v[0])
  BY <1>1, <1>2 DEF Under
<1>6. AtMost(Whole(0), Fall(Capital, Capital))
  <2>1. Is(Fall(Capital, Capital), 0, Capital)
    <3>1. Capital - Capital = 0
      BY <1>1
    <3> QED
      BY <1>1, <3>1, FallFacts
  <2>2. Is(Whole(0), 0, 1)
    BY ZeroIs
  <2>3. 0 * Capital <= 0 * 1
    BY <1>1
  <2> QED
    BY <2>1, <2>2, <2>3, AtMostIs
<1>7. HighEnough(c, c, v, 0)
  BY <1>4, <1>5 DEF HighEnough
<1>8. DeepEnough(Whole(0), v, 0)
  BY <1>4, <1>6 DEF DeepEnough
<1>9. LoopStart \in LoopState
  BY <1>2 DEF LoopStart, LoopState
<1>10. LoopStart.running = c /\ LoopStart.peak = c /\ LoopStart.max_dd = Whole(0)
  BY DEF LoopStart
<1> HIDE DEF c
<1> QED
  BY <1>3, <1>7, <1>8, <1>9, <1>10 DEF Bounded

\* One more value to look at changes nothing.
LEMMA DeepEnoughLater ==
    ASSUME NEW k \in Nat, NEW v, NEW m, DeepEnough(m, v, k)
    PROVE  DeepEnough(m, v, k + 1)
<1>1. PICK i \in 0 .. k : \E j \in 0 .. i : AtMost(m, Fall(v[j], v[i]))
  BY DEF DeepEnough
<1>2. i \in 0 .. k + 1
  OBVIOUS
<1> QED
  BY <1>1, <1>2 DEF DeepEnough

\* A round keeps the bound: the value has not fallen further than its last return says.
LEMMA BoundedRound ==
    ASSUME NEW k \in Nat, NEW v, Worths(v, k + 1), NEW s, Bounded(s, v, k),
           NEW r, r[1] \in Nat \ {0}, r[1] <= v[k], r[2] = v[k + 1]
    PROVE  Bounded(Tracker!Round(s, r), v, k + 1)
<1> DEFINE t == Tracker!Round(s, r)
           g == Grown(s, r)
           w == v[k + 1]
<1>1. s \in LoopState /\ Positive(s.running) /\ Positive(s.peak)
  BY DEF Bounded
<1>2. k + 1 \in 0 .. k + 1 /\ k \in 0 .. k + 1 /\ \A j \in 0 .. k : j \in 0 .. k + 1
  OBVIOUS
<1>3. w \in Nat \ {0} /\ v[k] \in Nat \ {0} /\ \A j \in 0 .. k : v[j] \in Nat \ {0}
  BY <1>2 DEF Worths
<1>4. /\ Positive(g) /\ t \in LoopState /\ t.running = g
      /\ \/ t.peak = g /\ t.max_dd = s.max_dd
         \/ t.peak = s.peak /\ t.max_dd = Larger(s.max_dd, FallFrom(s.peak, g))
  BY <1>1, <1>3, RoundFacts
<1>5. PICK j \in 0 .. k : Under(s.peak, s.running, v[k], v[j])
  BY DEF Bounded, HighEnough
<1>6. Under(s.peak, g, w, v[j])
  BY <1>1, <1>3, <1>5, UnderGrown DEF Grown
<1>7. DeepEnough(s.max_dd, v, k + 1)
  BY DeepEnoughLater DEF Bounded
<1> HIDE DEF t, g, w
<1>8. CASE t.peak = g /\ t.max_dd = s.max_dd
  <2>1. Under(g, g, w, w)
    <3>1. g[1] \in Nat \ {0} /\ g[2] \in Nat \ {0}
      BY <1>4, PositiveParts
    <3>2. g[1] * g[2] \in Nat
      BY <3>1
    <3>3. (g[1] * g[2]) * w \in Nat
      BY <1>3, <3>2
    <3> QED
      BY <3>3 DEF Under
  <2>2. HighEnough(g, g, v, k + 1)
    BY <1>2, <2>1 DEF HighEnough, w
  <2> QED
    BY <1>4, <1>7, <1>8, <2>2 DEF Bounded, t
<1>9. CASE t.peak = s.peak /\ t.max_dd = Larger(s.max_dd, FallFrom(s.peak, g))
  <2>1. HighEnough(s.peak, g, v, k + 1)
    BY <1>2, <1>5, <1>6 DEF HighEnough, w
  <2>2. AtMost(FallFrom(s.peak, g), Fall(v[j], w))
    BY <1>1, <1>3, <1>4, <1>5, <1>6, FallAtMost DEF Under, Fall
  <2>3. DeepEnough(FallFrom(s.peak, g), v, k + 1)
    <3>1. k + 1 \in 0 .. k + 1 /\ j \in 0 .. k + 1
      BY <1>2, <1>5
    <3> QED
      BY <2>2, <3>1 DEF DeepEnough, w
  <2>4. t.max_dd = s.max_dd \/ t.max_dd = FallFrom(s.peak, g)
    BY <1>9 DEF Larger
  <2>5. DeepEnough(t.max_dd, v, k + 1)
    BY <1>7, <2>3, <2>4
  <2> QED
    BY <1>1, <1>4, <1>9, <2>1, <2>5 DEF Bounded, t
<1> QED
  BY <1>4, <1>8, <1>9

\* After all rounds the largest fall found is at most one between two of the values.
LEMMA LoopBounded ==
    ASSUME NEW n \in Nat, NEW v, Worths(v, n), v[0] = Capital, Returns(daily_returns, v, n)
    PROVE  Bounded(Tracker!Drawdown[n], v, n)
<1> DEFINE Good == { k \in Nat : k <= n => Bounded(Tracker!Drawdown[k], v, k) }
<1>1. 0 \in Good
  <2>1. Worths(v, 0)
    BY DEF Worths
  <2>2. Bounded(LoopStart, v, 0)
    BY <2>1, BoundedStart
  <2> QED
    BY <2>2, LoopAt
<1>2. ASSUME NEW k \in Nat, k \in Good
      PROVE  k + 1 \in Good
  <2> SUFFICES ASSUME k + 1 <= n
               PROVE  Bounded(Tracker!Drawdown[k + 1], v, k + 1)
    OBVIOUS
  <2>1. Bounded(Tracker!Drawdown[k], v, k)
    BY <1>2
  <2>2. Worths(v, k + 1)
    BY DEF Worths
  <2>3. k + 1 \in 1 .. n /\ k + 1 \in Nat \ {0} /\ (k + 1) - 1 = k
    OBVIOUS
  <2> DEFINE r == daily_returns[k + 1]
  <2>4. r[1] \in Nat \ {0} /\ r[1] <= v[k] /\ r[2] = v[k + 1]
    BY <2>3 DEF Returns
  <2>5. Tracker!Drawdown[k + 1] = Tracker!Round(Tracker!Drawdown[k], r)
    <3>1. Tracker!Drawdown[k + 1] = Tracker!Round(Tracker!Drawdown[(k + 1) - 1], daily_returns[k + 1])
      BY <2>3, LoopAt
    <3> QED
      BY <2>3, <3>1
  <2> HIDE DEF r
  <2> QED
    BY <2>1, <2>2, <2>4, <2>5, BoundedRound
<1>3. n \in Good
  <2> HIDE DEF Good
  <2> QED
    BY <1>1, <1>2, NatSetInduction
<1> QED
  BY <1>3

-----------------------------------------------------------------------------
(* The loop without costs                                                  *)

\* The terms of a whole number.
LEMMA WholeParts ==
    ASSUME NEW a \in Nat \ {0}
    PROVE  /\ Whole(a)[1] = a /\ Whole(a)[2] = 1 /\ Positive(Whole(a))
           /\ Is(Whole(a), a, 1) /\ Lowest(Whole(a))
<1>1. Whole(a)[1] = a /\ Whole(a)[2] = 1 /\ Whole(a) \in Fraction
  BY DEF Whole, Fraction
<1>2. Positive(Whole(a))
  BY <1>1 DEF Positive
<1>3. Is(Whole(a), a, 1)
  BY <1>1 DEF Is
<1>4. Ratio(a * 1, 1) = Whole(a)
  BY RatioWhole
<1>5. a * 1 \in Int /\ 1 \in Nat \ {0}
  OBVIOUS
<1>6. Lowest(Whole(a))
  BY <1>4, <1>5 DEF Lowest
<1> QED
  BY <1>1, <1>2, <1>3, <1>6

\* A value grown by the return to the next is the next.
LEMMA WholeGrown ==
    ASSUME NEW a \in Nat \ {0}, NEW w \in Nat \ {0}
    PROVE  Times(Whole(a), Ratio(w, a)) = Whole(w)
<1> DEFINE r == Ratio(w, a)
           n == a * r[1]
           d == 1 * r[2]
<1>1. Is(r, w, a)
  BY RatioIs
<1>2. r[1] \in Int /\ r[2] \in Nat \ {0} /\ r[1] * a = w * r[2]
  BY <1>1, IsParts
<1>3. Times(Whole(a), r) = Ratio(n, d)
  BY WholeParts DEF Times
<1>4. n \in Int /\ d \in Nat \ {0} /\ n * 1 = w * d
  <2> HIDE DEF r
  <2>1. n = r[1] * a /\ d = r[2]
    BY <1>2
  <2> QED
    BY <1>2, <2>1
<1>5. w * 1 \in Int /\ 1 \in Nat \ {0} /\ w \in Int
  OBVIOUS
<1> HIDE DEF n, d
<1>6. Ratio(n, d) = Ratio(w, 1)
  BY <1>4, <1>5, SameRatio
<1>7. Ratio(w * 1, 1) = Whole(w) /\ w * 1 = w
  BY RatioWhole
<1> QED
  BY <1>3, <1>6, <1>7 DEF r

\* The fall the loop computes between two values.
LEMMA FallOfWholes ==
    ASSUME NEW a \in Nat \ {0}, NEW b \in Nat \ {0}
    PROVE  FallFrom(Whole(a), Whole(b)) = Fall(a, b)
<1> DEFINE x == FallFrom(Whole(a), Whole(b))
<1>1. /\ Whole(a)[1] = a /\ Whole(a)[2] = 1 /\ Positive(Whole(a))
      /\ Whole(b)[1] = b /\ Whole(b)[2] = 1 /\ Positive(Whole(b))
  BY WholeParts
<1>2. Is(x, a * 1 - b * 1, a * 1) /\ Lowest(x)
  BY <1>1, FallIs
<1>3. a * 1 - b * 1 = a - b /\ a * 1 = a
  OBVIOUS
<1>4. Is(x, a - b, a)
  BY <1>2, <1>3
<1>5. Is(Fall(a, b), a - b, a) /\ Lowest(Fall(a, b))
  BY FallFacts
<1> HIDE DEF x
<1>6. (a - b) * a <= (a - b) * a
  OBVIOUS
<1>7. AtMost(x, Fall(a, b)) /\ AtMost(Fall(a, b), x)
  BY <1>4, <1>5, <1>6, AtMostIs
<1>8. x = Fall(a, b)
  BY <1>2, <1>5, <1>7, LowestSame
<1> QED
  BY <1>8 DEF x

\* The order of whole numbers.
LEMMA WholeOrder ==
    ASSUME NEW a \in Nat \ {0}, NEW b \in Nat \ {0}
    PROVE  LessThan(Whole(a), Whole(b)) <=> a < b
  BY WholeParts DEF LessThan

\* The larger of two fractions.
LEMMA LargerFacts ==
    ASSUME NEW x \in Fraction, NEW y \in Fraction
    PROVE  /\ Larger(x, y) \in {x, y}
           /\ AtMost(x, Larger(x, y)) /\ AtMost(y, Larger(x, y))
<1>1. CASE LessThan(x, y)
  <2>1. Larger(x, y) = y
    BY <1>1 DEF Larger
  <2>2. AtMost(x, y)
    <3>1. x[1] \in Int /\ x[2] \in Int /\ y[1] \in Int /\ y[2] \in Int
      BY DEF Fraction
    <3> QED
      BY <1>1, <3>1 DEF LessThan, AtMost
  <2> QED
    BY <2>1, <2>2, AtMostTotal
<1>2. CASE ~ LessThan(x, y)
  <2>1. Larger(x, y) = x
    BY <1>2 DEF Larger
  <2>2. AtMost(y, x)
    BY <1>2, OrderIs
  <2> QED
    BY <2>1, <2>2, AtMostTotal
<1> QED
  BY <1>1, <1>2

\* After k rounds: the peak is the largest value, max_dd a fall between two values, and none is
\* larger.
Tallest(p, v, k) == \E j \in 0 .. k : p = Whole(v[j]) /\ \A i \in 0 .. k : v[i] <= v[j]
Lost(m, v, k) == \E i \in 0 .. k : \E j \in 0 .. i : m = Fall(v[j], v[i])
Deepest(m, v, k) == \A i \in 0 .. k : \A j \in 0 .. i : AtMost(Fall(v[j], v[i]), m)
Exact(s, v, k) ==
    /\ s \in LoopState /\ s.running = Whole(v[k])
    /\ Tallest(s.peak, v, k) /\ Lost(s.max_dd, v, k) /\ Deepest(s.max_dd, v, k)

\* Nothing is lost where it started.
LEMMA NoFall ==
    ASSUME NEW a \in Nat \ {0}
    PROVE  Fall(a, a) = Whole(0)
<1>1. a - a = 0 /\ 0 * a = 0
  OBVIOUS
<1>2. Ratio(0 * a, a) = Whole(0)
  BY RatioWhole
<1> QED
  BY <1>1, <1>2 DEF Fall

\* Before the first round.
LEMMA ExactStart ==
    ASSUME NEW v, Worths(v, 0), v[0] = Capital
    PROVE  Exact(LoopStart, v, 0)
<1>1. Capital \in Nat \ {0}
  BY AccountsAssumption
<1> DEFINE c == Whole(Capital)
<1>2. c \in Fraction /\ Whole(0) \in Fraction
  BY <1>1, WholeFraction
<1>3. 0 \in 0 .. 0 /\ \A i \in 0 .. 0 : i = 0
  OBVIOUS
<1>4. Fall(Capital, Capital) = Whole(0) /\ AtMost(Whole(0), Whole(0))
  BY <1>1, <1>2, NoFall, AtMostTotal
<1>5. Tallest(c, v, 0)
  BY <1>1, <1>3 DEF Tallest
<1>6. Lost(Whole(0), v, 0)
  BY <1>3, <1>4 DEF Lost
<1>7. Deepest(Whole(0), v, 0)
  BY <1>3, <1>4 DEF Deepest
<1>8. LoopStart \in LoopState
  BY <1>2 DEF LoopStart, LoopState
<1>9. LoopStart.running = c /\ LoopStart.peak = c /\ LoopStart.max_dd = Whole(0)
  BY DEF LoopStart
<1> HIDE DEF c
<1> QED
  BY <1>5, <1>6, <1>7, <1>8, <1>9 DEF Exact, c

\* A fall that was found stays one;
LEMMA LostLater ==
    ASSUME NEW k \in Nat, NEW v, NEW m, Lost(m, v, k)
    PROVE  Lost(m, v, k + 1)
<1>1. PICK i \in 0 .. k : \E j \in 0 .. i : m = Fall(v[j], v[i])
  BY DEF Lost
<1>2. i \in 0 .. k + 1
  OBVIOUS
<1> QED
  BY <1>1, <1>2 DEF Lost

\* it stays the largest if no fall to the new value is larger.
LEMMA DeepestLater ==
    ASSUME NEW k \in Nat, NEW v, NEW m, Deepest(m, v, k),
           \A j \in 0 .. k + 1 : AtMost(Fall(v[j], v[k + 1]), m)
    PROVE  Deepest(m, v, k + 1)
<1> SUFFICES ASSUME NEW i \in 0 .. k + 1, NEW j \in 0 .. i
             PROVE  AtMost(Fall(v[j], v[i]), m)
  BY DEF Deepest
<1>1. CASE i = k + 1
  BY <1>1
<1>2. CASE i # k + 1
  <2>1. i \in 0 .. k
    BY <1>2
  <2> QED
    BY <2>1 DEF Deepest
<1> QED
  BY <1>1, <1>2

\* A round, for a value above the peak and for one that is not: the fall from the peak is the
\* largest to the new value.
LEMMA ExactRound ==
    ASSUME NEW k \in Nat, NEW v, Worths(v, k + 1), NEW s, Exact(s, v, k),
           NEW r, r[1] = v[k], r[2] = v[k + 1]
    PROVE  Exact(Tracker!Round(s, r), v, k + 1)
<1> DEFINE t == Tracker!Round(s, r)
           w == v[k + 1]
           a == v[k]
<1>1. k + 1 \in 0 .. k + 1 /\ k \in 0 .. k + 1 /\ 0 \in 0 .. k /\ \A j \in 0 .. k : j \in 0 .. k + 1
  OBVIOUS
<1>2. w \in Nat \ {0} /\ a \in Nat \ {0} /\ \A j \in 0 .. k + 1 : v[j] \in Nat \ {0}
  BY <1>1 DEF Worths
<1>3. PICK p \in 0 .. k : s.peak = Whole(v[p]) /\ \A i \in 0 .. k : v[i] <= v[p]
  BY DEF Exact, Tallest
<1>4. s \in LoopState /\ s.running = Whole(a) /\ Lost(s.max_dd, v, k) /\ Deepest(s.max_dd, v, k)
  BY DEF Exact
<1> DEFINE b == v[p]
<1>5. b \in Nat \ {0}
  BY <1>1, <1>2, <1>3
<1>6. Grown(s, r) = Whole(w)
  BY <1>2, <1>4, WholeGrown DEF Grown
<1>7. FallFrom(Whole(b), Whole(w)) = Fall(b, w)
  BY <1>2, <1>5, FallOfWholes
<1>8. /\ t \in LoopState /\ t.running = Whole(w)
      /\ \/ b < w /\ t.peak = Whole(w) /\ t.max_dd = s.max_dd
         \/ w <= b /\ t.peak = Whole(b) /\ t.max_dd = Larger(s.max_dd, Fall(b, w))
  <2>1. Positive(s.running) /\ Positive(s.peak)
    BY <1>2, <1>3, <1>4, <1>5, WholeParts
  <2>2. r[1] \in Nat \ {0} /\ r[2] \in Nat \ {0}
    BY <1>2
  <2>3. /\ t \in LoopState /\ t.running = Grown(s, r)
        /\ \/ /\ LessThan(s.peak, Grown(s, r))
              /\ t.peak = Grown(s, r) /\ t.max_dd = s.max_dd
           \/ /\ ~ LessThan(s.peak, Grown(s, r))
              /\ t.peak = s.peak
              /\ t.max_dd = Larger(s.max_dd, FallFrom(s.peak, Grown(s, r)))
    BY <1>4, <2>1, <2>2, RoundFacts
  <2>4. LessThan(Whole(b), Whole(w)) <=> b < w
    BY <1>2, <1>5, WholeOrder
  <2>5. ~ (b < w) <=> w <= b
    BY <1>2, <1>5
  <2>6. s.peak = Whole(b)
    BY <1>3
  <2> HIDE DEF t, w, a, b
  <2> QED
    BY <1>6, <1>7, <2>3, <2>4, <2>5, <2>6
<1>9. s.max_dd \in Fraction /\ Fall(b, w) \in Fraction
  BY <1>2, <1>4, <1>5, FallFacts DEF LoopState
<1>10. AtMost(Whole(0), s.max_dd)
  <2>1. 0 \in 0 .. 0 /\ v[0] \in Nat \ {0}
    BY <1>1, <1>2
  <2>2. AtMost(Fall(v[0], v[0]), s.max_dd)
    BY <1>1, <1>4, <2>1 DEF Deepest
  <2> QED
    BY <2>1, <2>2, NoFall
<1>11. Lost(s.max_dd, v, k + 1)
  BY <1>4, LostLater
<1>12. Fall(w, w) = Whole(0)
  BY <1>2, NoFall
<1>13. Whole(0) \in Fraction
  BY WholeFraction
<1> HIDE DEF t
<1>14. CASE b < w /\ t.peak = Whole(w) /\ t.max_dd = s.max_dd
  <2>1. ASSUME NEW i \in 0 .. k + 1
        PROVE  v[i] <= w
    <3>1. CASE i = k + 1
      BY <1>2, <3>1
    <3>2. CASE i # k + 1
      <4>1. i \in 0 .. k
        BY <3>2
      <4>2. v[i] <= b /\ v[i] \in Nat
        BY <1>1, <1>2, <1>3, <4>1
      <4> QED
        BY <1>2, <1>5, <1>14, <4>2
    <3> QED
      BY <3>1, <3>2
  <2>2. Tallest(Whole(w), v, k + 1)
    BY <1>1, <2>1 DEF Tallest
  <2>3. ASSUME NEW j \in 0 .. k + 1
        PROVE  AtMost(Fall(v[j], w), s.max_dd)
    <3> DEFINE c == v[j]
    <3>1. c \in Nat \ {0} /\ c <= w
      BY <1>2, <2>1
    <3> HIDE DEF c, w, b
    <3>2. w * c <= w * w
      BY <1>2, <3>1
    <3>3. AtMost(Fall(c, w), Fall(w, w))
      BY <1>2, <3>1, <3>2, FallCompared
    <3>4. Fall(c, w) \in Fraction
      BY <1>2, <3>1, FallFacts
    <3>5. AtMost(Fall(c, w), s.max_dd)
      BY <1>9, <1>10, <1>12, <1>13, <3>3, <3>4, AtMostTransitive
    <3> QED
      BY <3>5 DEF c
  <2>4. Deepest(s.max_dd, v, k + 1)
    BY <1>4, <2>3, DeepestLater
  <2> QED
    BY <1>8, <1>11, <1>14, <2>2, <2>4 DEF Exact, t
<1>15. CASE w <= b /\ t.peak = Whole(b) /\ t.max_dd = Larger(s.max_dd, Fall(b, w))
  <2> DEFINE d == t.max_dd
  <2>1. d \in {s.max_dd, Fall(b, w)} /\ AtMost(s.max_dd, d) /\ AtMost(Fall(b, w), d) /\ d \in Fraction
    <3>1. \/ d = s.max_dd
          \/ d = Fall(b, w)
      BY <1>9, <1>15, LargerFacts
    <3> QED
      BY <1>9, <1>15, <3>1, LargerFacts
  <2>2. ASSUME NEW i \in 0 .. k + 1
        PROVE  v[i] <= b
    <3>1. CASE i = k + 1
      BY <1>15, <3>1
    <3>2. CASE i # k + 1
      <4>1. i \in 0 .. k
        BY <3>2
      <4> QED
        BY <1>3, <4>1
    <3> QED
      BY <3>1, <3>2
  <2>3. p \in 0 .. k + 1
    BY <1>1, <1>3
  <2>4. Tallest(Whole(b), v, k + 1)
    BY <2>2, <2>3 DEF Tallest
  <2>5. Lost(Fall(b, w), v, k + 1)
    <3>1. k + 1 \in 0 .. k + 1 /\ p \in 0 .. k + 1
      BY <1>1, <2>3
    <3> QED
      BY <3>1 DEF Lost
  <2>6. Lost(d, v, k + 1)
    BY <1>11, <2>1, <2>5
  <2> HIDE DEF d
  <2>7. ASSUME NEW j \in 0 .. k + 1
        PROVE  AtMost(Fall(v[j], w), d)
    <3> DEFINE c == v[j]
    <3>1. c \in Nat \ {0} /\ c <= b
      BY <1>2, <2>2
    <3> HIDE DEF c, w, b
    <3>2. w * c <= w * b
      BY <1>2, <1>5, <3>1
    <3>3. AtMost(Fall(c, w), Fall(b, w))
      BY <1>2, <1>5, <3>1, <3>2, FallCompared
    <3>4. Fall(c, w) \in Fraction
      BY <1>2, <3>1, FallFacts
    <3>5. AtMost(Fall(c, w), d)
      BY <1>9, <2>1, <3>3, <3>4, AtMostTransitive
    <3> QED
      BY <3>5 DEF c
  <2>8. Deepest(d, v, k)
    <3> SUFFICES ASSUME NEW i \in 0 .. k, NEW j \in 0 .. i
                 PROVE  AtMost(Fall(v[j], v[i]), d)
      BY DEF Deepest
    <3>1. j \in 0 .. k + 1 /\ i \in 0 .. k + 1
      OBVIOUS
    <3>2. AtMost(Fall(v[j], v[i]), s.max_dd)
      BY <1>4 DEF Deepest
    <3>3. Fall(v[j], v[i]) \in Fraction
      BY <1>2, <3>1, FallFacts
    <3> QED
      BY <1>9, <2>1, <3>2, <3>3, AtMostTransitive
  <2>9. Deepest(d, v, k + 1)
    BY <2>7, <2>8, DeepestLater
  <2> QED
    BY <1>8, <1>15, <2>4, <2>6, <2>9 DEF Exact, t, d
<1> QED
  BY <1>8, <1>14, <1>15

\* Returns that start where the last one ended.
Free(R, v, n) == \A k \in 1 .. n : R[k][1] = v[k - 1] /\ R[k][2] = v[k]

\* After all rounds the largest fall found is the largest between two of the values.
LEMMA LoopExact ==
    ASSUME NEW n \in Nat, NEW v, Worths(v, n), v[0] = Capital, Free(daily_returns, v, n)
    PROVE  Exact(Tracker!Drawdown[n], v, n)
<1> DEFINE Good == { k \in Nat : k <= n => Exact(Tracker!Drawdown[k], v, k) }
<1>1. 0 \in Good
  <2>1. Worths(v, 0)
    BY DEF Worths
  <2>2. Exact(LoopStart, v, 0)
    BY <2>1, ExactStart
  <2> QED
    BY <2>2, LoopAt
<1>2. ASSUME NEW k \in Nat, k \in Good
      PROVE  k + 1 \in Good
  <2> SUFFICES ASSUME k + 1 <= n
               PROVE  Exact(Tracker!Drawdown[k + 1], v, k + 1)
    OBVIOUS
  <2>1. Exact(Tracker!Drawdown[k], v, k)
    BY <1>2
  <2>2. Worths(v, k + 1)
    BY DEF Worths
  <2>3. k + 1 \in 1 .. n /\ k + 1 \in Nat \ {0} /\ (k + 1) - 1 = k
    OBVIOUS
  <2> DEFINE r == daily_returns[k + 1]
  <2>4. r[1] = v[k] /\ r[2] = v[k + 1]
    BY <2>3 DEF Free
  <2>5. Tracker!Drawdown[k + 1] = Tracker!Round(Tracker!Drawdown[k], r)
    <3>1. Tracker!Drawdown[k + 1] = Tracker!Round(Tracker!Drawdown[(k + 1) - 1], daily_returns[k + 1])
      BY <2>3, LoopAt
    <3> QED
      BY <2>3, <3>1
  <2> HIDE DEF r
  <2> QED
    BY <2>1, <2>2, <2>4, <2>5, ExactRound
<1>3. n \in Good
  <2> HIDE DEF Good
  <2> QED
    BY <1>1, <1>2, NatSetInduction
<1> QED
  BY <1>3

-----------------------------------------------------------------------------
(* The returns and the marks                                               *)

\* The k-th return ends at the mark at[k].
Chained(at, R, M, f) ==
    /\ \A k \in 0 .. Len(R) : at[k] \in Marked(M) \cup {0}
    /\ at[0] = 0 /\ at[Len(R)] = LastMark(M)
    /\ \A i \in Marked(M) : \E k \in 0 .. Len(R) : at[k] = i
    /\ \A k \in 0 .. Len(R) : \A j \in 0 .. Len(R) : j < k => at[j] < at[k]
    /\ \A k \in 1 .. Len(R) :
          /\ R[k][2] = ValueAt(M, at[k]) /\ R[k][1] <= ValueAt(M, at[k - 1])
          /\ f = 0 => R[k][1] = ValueAt(M, at[k - 1])
ChainOf(R, M, f) == \E at : Chained(at, R, M, f)
Chain == ChainOf(daily_returns, marks, fee)

\* Before the first mark.
LEMMA ChainStart ==
    ASSUME NEW f
    PROVE  ChainOf(<< >>, << >>, f)
<1> DEFINE at == [k \in {0} |-> 0]
<1>1. Marked(<< >>) = {} /\ LastMark(<< >>) = 0
  <2>1. Marked(<< >>) = {}
    BY DEF Marked
  <2>2. Marked(<< >>) \cup {0} = {0}
    BY <2>1
  <2> QED
    BY <2>1, <2>2, MaxOne DEF LastMark
<1>2. Len(<< >>) = 0 /\ 0 .. 0 = {0} /\ 1 .. 0 = {} /\ at[0] = 0
  OBVIOUS
<1>3. Chained(at, << >>, << >>, f)
  BY <1>1, <1>2 DEF Chained
<1> QED
  BY <1>3 DEF ChainOf

\* A day's end is no mark.
LEMMA ChainClose ==
    ASSUME NEW R, NEW M \in Seq(MarkRecord), NEW r \in MarkRecord, r.kind # "mark", NEW f,
           ChainOf(R, M, f), Len(R) \in Nat
    PROVE  ChainOf(R, Append(M, r), f)
<1> DEFINE N == Append(M, r)
<1>1. /\ DOMAIN N = DOMAIN M \cup {Len(M) + 1} /\ N[Len(M) + 1] = r
      /\ \A i \in DOMAIN M : N[i] = M[i]
  BY AppendFacts
<1>2. Marked(N) = Marked(M)
  BY <1>1 DEF Marked
<1>3. LastMark(N) = LastMark(M) /\ \A i \in DOMAIN M \cup {0} : ValueAt(N, i) = ValueAt(M, i)
  BY ValuesAdd
<1> HIDE DEF N
<1>4. PICK at : Chained(at, R, M, f)
  BY DEF ChainOf
<1>5. \A k \in 0 .. Len(R) : at[k] \in DOMAIN M \cup {0}
  BY <1>4 DEF Chained, Marked
<1>6. \A k \in 1 .. Len(R) : k \in 0 .. Len(R) /\ k - 1 \in 0 .. Len(R)
  OBVIOUS
<1>7. \A k \in 1 .. Len(R) : ValueAt(N, at[k]) = ValueAt(M, at[k]) /\ ValueAt(N, at[k - 1]) = ValueAt(M, at[k - 1])
  BY <1>3, <1>5, <1>6
<1>8. Chained(at, R, N, f)
  BY <1>2, <1>3, <1>4, <1>7 DEF Chained
<1> QED
  BY <1>8 DEF ChainOf, N

\* A mark ends one more return, which starts at most from the value of the last.
LEMMA ChainMark ==
    ASSUME NEW R \in Seq(Int \X Int), NEW M \in Seq(MarkRecord), NEW r \in MarkRecord, r.kind = "mark",
           NEW f, NEW e \in Int, e <= ValueAt(M, LastMark(M)), f = 0 => e = ValueAt(M, LastMark(M)),
           ChainOf(R, M, f)
    PROVE  ChainOf(Append(R, <<e, r.value>>), Append(M, r), f)
<1> DEFINE N == Append(M, r)
           m == Len(M) + 1
           S == Append(R, <<e, r.value>>)
           n == Len(R)
<1>1. /\ DOMAIN N = DOMAIN M \cup {m} /\ N[m] = r /\ m \in Nat \ {0}
      /\ \A i \in DOMAIN M : N[i] = M[i]
  BY AppendFacts
<1>2. Marked(N) = Marked(M) \cup {m} /\ \A i \in Marked(M) : i \in DOMAIN M
  BY <1>1 DEF Marked
<1>3. /\ LastMark(N) = m /\ ValueAt(N, m) = r.value
      /\ \A i \in DOMAIN M \cup {0} : ValueAt(N, i) = ValueAt(M, i)
  BY ValuesAdd
<1>4. \A i \in DOMAIN M \cup {0} : i \in Nat /\ i < m
  BY DomainFinite
<1>5. r.value \in Int
  BY DEF MarkRecord
<1>6. n \in Nat /\ Len(S) = n + 1 /\ S[n + 1] = <<e, r.value>> /\ \A k \in 1 .. n : S[k] = R[k]
  BY <1>5
<1> HIDE DEF N, S, m, n
<1>7. PICK at : Chained(at, R, M, f)
  BY DEF ChainOf
<1>8. /\ \A k \in 0 .. n : at[k] \in Marked(M) \cup {0}
      /\ at[0] = 0 /\ at[n] = LastMark(M)
      /\ \A i \in Marked(M) : \E k \in 0 .. n : at[k] = i
      /\ \A k \in 0 .. n : \A j \in 0 .. n : j < k => at[j] < at[k]
      /\ \A k \in 1 .. n : /\ R[k][2] = ValueAt(M, at[k]) /\ R[k][1] <= ValueAt(M, at[k - 1])
                           /\ f = 0 => R[k][1] = ValueAt(M, at[k - 1])
  BY <1>7 DEF Chained, n
<1> DEFINE b == [k \in 0 .. n + 1 |-> IF k = n + 1 THEN m ELSE at[k]]
<1>9. n \in Nat
  BY <1>6
<1>10. /\ 0 \in 0 .. n /\ n \in 0 .. n
       /\ \A k \in 0 .. n + 1 : k \in 0 .. n \/ k = n + 1
       /\ \A k \in 1 .. n + 1 : k \in 1 .. n \/ k = n + 1
       /\ \A k \in 1 .. n : k \in 0 .. n /\ k - 1 \in 0 .. n
       /\ \A k \in 0 .. n : k \in 0 .. n + 1 /\ k < n + 1 /\ k # n + 1
       /\ n + 1 \in 0 .. n + 1 /\ (n + 1) - 1 = n
  BY <1>9
<1>11. b[n + 1] = m /\ \A k \in 0 .. n : b[k] = at[k]
  BY <1>10
<1> HIDE DEF b
<1>12. \A k \in 0 .. n : at[k] \in DOMAIN M \cup {0}
  BY <1>2, <1>8
<1>13. \A k \in 0 .. n + 1 : b[k] \in Marked(N) \cup {0}
  BY <1>2, <1>8, <1>11, <1>10
<1>14. b[0] = 0 /\ b[n + 1] = LastMark(N)
  BY <1>3, <1>8, <1>11, <1>10
<1>15. \A i \in Marked(N) : \E k \in 0 .. n + 1 : b[k] = i
  BY <1>2, <1>8, <1>11, <1>10
<1>16. ASSUME NEW k \in 0 .. n + 1, NEW j \in 0 .. n + 1, j < k
       PROVE  b[j] < b[k]
  <2>1. j \in 0 .. n
    BY <1>6, <1>16
  <2>2. CASE k \in 0 .. n
    BY <1>8, <1>11, <1>10, <1>16, <2>1, <2>2
  <2>3. CASE k = n + 1
    BY <1>4, <1>11, <1>10, <1>12, <2>1, <2>3
  <2> QED
    BY <1>11, <1>10, <2>2, <2>3
<1>17. ASSUME NEW k \in 1 .. n + 1
       PROVE  /\ S[k][2] = ValueAt(N, b[k]) /\ S[k][1] <= ValueAt(N, b[k - 1])
              /\ f = 0 => S[k][1] = ValueAt(N, b[k - 1])
  <2>1. CASE k \in 1 .. n
    <3>1. k \in 0 .. n /\ k - 1 \in 0 .. n
      BY <1>11, <1>10, <2>1
    <3>2. b[k] = at[k] /\ b[k - 1] = at[k - 1] /\ S[k] = R[k]
      BY <1>6, <1>11, <1>10, <2>1, <3>1
    <3>3. ValueAt(N, at[k]) = ValueAt(M, at[k]) /\ ValueAt(N, at[k - 1]) = ValueAt(M, at[k - 1])
      BY <1>3, <1>12, <3>1
    <3> QED
      BY <1>8, <2>1, <3>2, <3>3
  <2>2. CASE k = n + 1
    <3>1. S[k][1] = e /\ S[k][2] = r.value
      BY <1>6, <2>2
    <3>2. k - 1 = n
      BY <1>11, <1>10, <2>2
    <3>3. b[k] = m /\ b[k - 1] = LastMark(M)
      BY <1>8, <1>11, <1>10, <2>2, <3>2
    <3>4. LastMark(M) \in DOMAIN M \cup {0}
      BY <1>8, <1>11, <1>10, <1>12
    <3>5. ValueAt(N, LastMark(M)) = ValueAt(M, LastMark(M))
      BY <1>3, <3>4
    <3> QED
      BY <1>3, <3>1, <3>3, <3>5
  <2> QED
    BY <1>11, <1>10, <2>1, <2>2
<1>18. Chained(b, S, N, f)
  BY <1>6, <1>13, <1>14, <1>15, <1>16, <1>17 DEF Chained
<1> QED
  BY <1>18 DEF ChainOf, S, N

\* Init.
LEMMA ChainInit == Init => Chain
<1> SUFFICES ASSUME Init
             PROVE  Chain
  OBVIOUS
<1>1. daily_returns = << >> /\ marks = << >>
  BY DEF Init, Tracker!Init
<1> QED
  BY <1>1, ChainStart DEF Chain

\* The costs since the last mark only lower the equity.
LEMMA EquityBelowMark ==
    ASSUME Account, Histories, Curve
    PROVE  /\ current_equity \in Int
           /\ current_equity <= ValueAt(marks, LastMark(marks))
           /\ fee = 0 => current_equity = ValueAt(marks, LastMark(marks))
<1> DEFINE x == ValueAt(marks, LastMark(marks))
           c == Cardinality(Since(fills, LastMark(marks)))
<1>1. x \in Int /\ fee \in Nat /\ fills \in Seq(FillRecord)
  BY CurveParts
<1>2. c \in Nat
  BY <1>1, SinceFacts
<1>3. current_equity = x - fee * c
  BY DEF Curve
<1> HIDE DEF x, c
<1>4. fee * c \in Nat /\ (fee = 0 => fee * c = 0)
  BY <1>1, <1>2
<1>5. current_equity \in Int /\ current_equity <= x /\ (fee = 0 => current_equity = x)
  BY <1>1, <1>3, <1>4
<1> QED
  BY <1>5 DEF x

\* Every step keeps the chain.
LEMMA ChainNext == AccountsInv /\ Chain /\ [Next]_vars => Chain'
<1> SUFFICES ASSUME AccountsInv, Chain, [Next]_vars
             PROVE  Chain'
  OBVIOUS
<1>1. Account /\ Histories /\ Curve
  BY DEF AccountsInv
<1>2. ASSUME daily_returns' = daily_returns, marks' = marks, fee' = fee
      PROVE  Chain'
  BY <1>2 DEF Chain
<1>3. marks \in Seq(MarkRecord) /\ daily_returns \in Seq(Int \X Int) /\ Len(daily_returns) \in Nat
  BY <1>1 DEF Histories, Curve
<1>4. ASSUME NEW s \in scenario.symbols, NEW side \in {"Buy", "Sell"},
             NEW qty \in scenario.quantities, NEW price \in scenario.prices,
             OnFill(s, side, qty, price)
      PROVE  Chain'
  BY <1>2, <1>4 DEF OnFill, Tracker!RecordTrade, setting
<1>5. ASSUME NEW s \in scenario.symbols, NEW mid \in scenario.prices, NEW wait \in scenario.waits,
             OnTick(s, mid, wait)
      PROVE  Chain'
  BY <1>2, <1>5 DEF OnTick, trackerVars, setting
<1>6. ASSUME Mark
      PROVE  Chain'
  <2> DEFINE v == Holdings!TotalPortfolioValue
             r == [kind |-> "mark", value |-> v]
  <2>1. Valued("mark") /\ Tracker!MarkToMarket(v)
    BY <1>6 DEF Mark
  <2>2. r \in MarkRecord /\ marks' = Append(marks, r) /\ fee' = fee
    BY <1>1, <2>1, ValuedFacts
  <2>3. daily_returns' = Append(daily_returns, <<current_equity, v>>)
    BY <2>1 DEF Tracker!MarkToMarket
  <2>4. r.kind = "mark" /\ r.value = v
    OBVIOUS
  <2> HIDE DEF v, r
  <2>5. ChainOf(Append(daily_returns, <<current_equity, r.value>>), Append(marks, r), fee)
    BY <1>1, <1>3, <2>2, <2>4, EquityBelowMark, ChainMark DEF Chain
  <2> QED
    BY <2>2, <2>3, <2>4, <2>5 DEF Chain
<1>7. ASSUME EndOfDay
      PROVE  Chain'
  <2> DEFINE v == Holdings!TotalPortfolioValue
             r == [kind |-> "close", value |-> v]
  <2>1. Valued("close") /\ Tracker!EndOfDay(v)
    BY <1>7 DEF EndOfDay
  <2>2. r \in MarkRecord /\ marks' = Append(marks, r) /\ fee' = fee
    BY <1>1, <2>1, ValuedFacts
  <2>3. daily_returns' = daily_returns
    BY <2>1 DEF Tracker!EndOfDay
  <2>4. r.kind # "mark"
    OBVIOUS
  <2> HIDE DEF v, r
  <2>5. ChainOf(daily_returns, Append(marks, r), fee)
    BY <1>3, <2>2, <2>4, ChainClose DEF Chain
  <2> QED
    BY <2>2, <2>3, <2>5 DEF Chain
<1>8. ASSUME NEW amount \in scenario.amounts, Transfer(amount)
      PROVE  Chain'
  BY <1>2, <1>8 DEF Transfer, trackerVars, setting
<1>9. ASSUME NEW s \in scenario.symbols, Query(s)
      PROVE  Chain'
  BY <1>2, <1>9 DEF Query, trackerVars, setting, history
<1>10. ASSUME Reset
       PROVE  Chain'
  <2>1. daily_returns' = << >> /\ marks' = << >>
    BY <1>10 DEF Reset, Tracker!Reset
  <2> QED
    BY <2>1, ChainStart DEF Chain
<1>11. ASSUME UNCHANGED vars
       PROVE  Chain'
  BY <1>2, <1>11 DEF vars, trackerVars, setting, history
<1> QED
  BY <1>4, <1>5, <1>6, <1>7, <1>8, <1>9, <1>10, <1>11 DEF Next

-----------------------------------------------------------------------------
(* The drawdown                                                            *)

\* No mark and no start of a return was at or below zero: calculate_stats and mark_to_market
\* divide by these values.
Solvent ==
    /\ \A i \in Marked(marks) : marks[i].value > 0
    /\ \A k \in DOMAIN daily_returns : daily_returns[k][1] > 0

\* The pairs of marked values, the earlier one first, and the falls between them.
MarkPairs(M) == { q \in (Marked(M) \cup {0}) \X (Marked(M) \cup {0}) : q[1] <= q[2] }
FallsIn(M) == { Fall(ValueAt(M, q[1]), ValueAt(M, q[2])) : q \in MarkPairs(M) }
DeepestOf(F) == CHOOSE x \in F : \A y \in F : ~ LessThan(x, y)

\* DrawdownIsRebuilt in these terms.
LEMMA DrawdownMeans ==
    DrawdownIsRebuilt <=>
        LET d == Tracker!Drawdown[Len(daily_returns)].max_dd
            m == DeepestOf(FallsIn(marks))
        IN  ~ LessThan(m, d) /\ (fee = 0 => d = m)
<1> DEFINE F == { Tracker!Ratio(ValueAt(marks, p[1]) - ValueAt(marks, p[2]), ValueAt(marks, p[1])) :
                  p \in MarkPairs(marks) }
           c == CHOOSE x \in F : \A y \in F : ~ Tracker!LessThan(x, y)
           d == Tracker!Drawdown[Len(daily_returns)].max_dd
<1>1. F = FallsIn(marks)
  BY TrackerRatio DEF FallsIn, Fall
<1>2. c = DeepestOf(F)
  BY DEF Tracker!LessThan, LessThan, DeepestOf
<1>3. Tracker!Stats.max_drawdown = d
  <2>1. CASE daily_returns = << >>
    <3>1. Len(daily_returns) = 0
      BY <2>1
    <3>2. d = Tracker!Whole(0)
      BY <3>1, LoopAt, TrackerFractions DEF LoopStart
    <3> QED
      BY <2>1, <3>2 DEF Tracker!Stats, Tracker!NoStats
  <2>2. CASE daily_returns # << >>
    BY <2>2 DEF Tracker!Stats
  <2> QED
    BY <2>1, <2>2
<1>4. DrawdownIsRebuilt <=> ~ Tracker!LessThan(c, Tracker!Stats.max_drawdown)
                            /\ (fee = 0 => Tracker!Stats.max_drawdown = c)
  BY DEF DrawdownIsRebuilt, Marked, ValueAt, MarkPairs
<1> HIDE DEF F, c, d
<1>5. DrawdownIsRebuilt <=> ~ LessThan(c, d) /\ (fee = 0 => d = c)
  BY <1>3, <1>4, TrackerFractions
<1> QED
  BY <1>1, <1>2, <1>5 DEF d

\* The fall no other exceeds is the deepest.
LEMMA DeepestIs ==
    ASSUME NEW F, NEW m \in F, \A x \in F : x \in Fraction /\ Lowest(x), \A x \in F : AtMost(x, m)
    PROVE  DeepestOf(F) = m
<1> DEFINE Top(x) == x \in F /\ \A y \in F : ~ LessThan(x, y)
           c == DeepestOf(F)
<1>1. Top(m)
  BY OrderIs
<1>2. c = CHOOSE x \in F : \A y \in F : ~ LessThan(x, y)
  BY DEF DeepestOf
<1>3. Top(c)
  BY <1>1, <1>2
<1> HIDE DEF c
<1>4. AtMost(m, c) /\ AtMost(c, m)
  BY <1>3, OrderIs
<1>5. c = m
  BY <1>3, <1>4, LowestSame
<1> QED
  BY <1>5 DEF c

\* The falls are in lowest terms, and one of them is the deepest.
LEMMA FallsFacts ==
    ASSUME NEW M \in Seq(MarkRecord), \A i \in Marked(M) \cup {0} : ValueAt(M, i) \in Nat \ {0}
    PROVE  /\ \A x \in FallsIn(M) : x \in Fraction /\ Lowest(x)
           /\ DeepestOf(FallsIn(M)) \in FallsIn(M)
           /\ \A x \in FallsIn(M) : AtMost(x, DeepestOf(FallsIn(M)))
<1> DEFINE S == Marked(M) \cup {0}
           P == MarkPairs(M)
           F == FallsIn(M)
<1>1. IsFiniteSet(S)
  <2>1. IsFiniteSet(Marked(M))
    BY DomainFinite, FS_Subset DEF Marked
  <2> QED
    BY <2>1, FS_AddElement
<1>2. IsFiniteSet(P)
  <2>1. IsFiniteSet(S \X S)
    BY <1>1, FS_Product
  <2>2. P \subseteq S \X S
    BY DEF MarkPairs
  <2> QED
    BY <2>1, <2>2, FS_Subset
<1>3. IsFiniteSet(F)
  <2> DEFINE g == [q \in P |-> Fall(ValueAt(M, q[1]), ValueAt(M, q[2]))]
  <2>1. g \in Surjection(P, F)
    BY DEF Surjection, FallsIn
  <2> HIDE DEF g
  <2> QED
    BY <1>2, <2>1, FS_Surjection
<1>4. \A x \in F : x \in Fraction /\ Lowest(x)
  <2>1. \A q \in P : q[1] \in S /\ q[2] \in S
    BY DEF MarkPairs
  <2>2. \A q \in P : /\ Fall(ValueAt(M, q[1]), ValueAt(M, q[2])) \in Fraction
                     /\ Lowest(Fall(ValueAt(M, q[1]), ValueAt(M, q[2])))
    BY <2>1, FallFacts
  <2> QED
    BY <2>2 DEF FallsIn
<1>5. F # {}
  <2>1. <<0, 0>> \in P
    BY DEF MarkPairs
  <2> QED
    BY <2>1 DEF FallsIn
<1> HIDE DEF F
<1>6. PICK m \in F : \A x \in F : AtMost(x, m)
  BY <1>3, <1>4, <1>5, LargestExists
<1>7. DeepestOf(F) = m
  BY <1>4, <1>6, DeepestIs
<1> QED
  BY <1>4, <1>6, <1>7 DEF F

\* What the chain says of the values.
LEMMA SolventChain ==
    ASSUME AccountsInv, Solvent, NEW at, Chained(at, daily_returns, marks, fee)
    PROVE  LET n == Len(daily_returns)
               v == [k \in 0 .. n |-> ValueAt(marks, at[k])]
           IN  /\ n \in Nat /\ Worths(v, n) /\ v[0] = Capital /\ Returns(daily_returns, v, n)
               /\ fee = 0 => Free(daily_returns, v, n)
               /\ \A i \in Marked(marks) \cup {0} : ValueAt(marks, i) \in Nat \ {0}
<1> DEFINE n == Len(daily_returns)
           v == [k \in 0 .. n |-> ValueAt(marks, at[k])]
<1>1. marks \in Seq(MarkRecord) /\ daily_returns \in Seq(Int \X Int)
  BY DEF AccountsInv, Histories, Curve
<1>2. n \in Nat /\ DOMAIN daily_returns = 1 .. n /\ \A k \in 1 .. n : daily_returns[k] \in Int \X Int
  BY <1>1
<1>3. ASSUME NEW i \in Marked(marks) \cup {0}
      PROVE  ValueAt(marks, i) \in Nat \ {0}
  <2>1. CASE i = 0
    BY <2>1, AccountsAssumption DEF ValueAt
  <2>2. CASE i # 0
    <3>1. i \in Marked(marks) /\ i \in DOMAIN marks
      BY <2>2 DEF Marked
    <3>2. marks[i] \in MarkRecord /\ marks[i].value > 0
      BY <1>1, <3>1 DEF Solvent
    <3> QED
      BY <2>2, <3>2 DEF ValueAt, MarkRecord
  <2> QED
    BY <2>1, <2>2
<1>4. \A k \in 0 .. n : v[k] = ValueAt(marks, at[k])
  OBVIOUS
<1> HIDE DEF v, n
<1>5. /\ \A k \in 0 .. n : at[k] \in Marked(marks) \cup {0}
      /\ at[0] = 0
      /\ \A k \in 1 .. n : /\ daily_returns[k][2] = ValueAt(marks, at[k])
                           /\ daily_returns[k][1] <= ValueAt(marks, at[k - 1])
                           /\ fee = 0 => daily_returns[k][1] = ValueAt(marks, at[k - 1])
  BY DEF Chained, n
<1>6. \A k \in 1 .. n : k \in 0 .. n /\ k - 1 \in 0 .. n
  BY <1>2
<1>7. Worths(v, n)
  BY <1>3, <1>4, <1>5 DEF Worths
<1>8. v[0] = Capital
  <2>1. 0 \in 0 .. n
    BY <1>2
  <2> QED
    BY <1>4, <1>5, <2>1 DEF ValueAt
<1>9. \A k \in 1 .. n : v[k] = ValueAt(marks, at[k]) /\ v[k - 1] = ValueAt(marks, at[k - 1])
  BY <1>4, <1>6
<1>10. \A k \in 1 .. n : daily_returns[k][1] \in Nat \ {0}
  <2> SUFFICES ASSUME NEW k \in 1 .. n
               PROVE  daily_returns[k][1] \in Nat \ {0}
    OBVIOUS
  <2>1. daily_returns[k][1] \in Int /\ daily_returns[k][1] > 0
    BY <1>2 DEF Solvent
  <2> QED
    BY <2>1
<1>11. Returns(daily_returns, v, n)
  BY <1>5, <1>9, <1>10 DEF Returns
<1>12. fee = 0 => Free(daily_returns, v, n)
  BY <1>5, <1>9 DEF Free
<1> QED
  BY <1>2, <1>3, <1>7, <1>8, <1>11, <1>12 DEF v, n

\* The loop rebuilds the drawdown of the marks.
LEMMA DrawdownRebuilt ==
    ASSUME AccountsInv, Chain, Solvent
    PROVE  DrawdownIsRebuilt
<1>1. PICK at : Chained(at, daily_returns, marks, fee)
  BY DEF Chain, ChainOf
<1> DEFINE n == Len(daily_returns)
           v == [k \in 0 .. n |-> ValueAt(marks, at[k])]
           F == FallsIn(marks)
           d == Tracker!Drawdown[n].max_dd
<1>2. /\ n \in Nat /\ Worths(v, n) /\ v[0] = Capital /\ Returns(daily_returns, v, n)
      /\ fee = 0 => Free(daily_returns, v, n)
      /\ \A i \in Marked(marks) \cup {0} : ValueAt(marks, i) \in Nat \ {0}
  BY <1>1, SolventChain
<1>3. \A k \in 0 .. n : v[k] = ValueAt(marks, at[k])
  OBVIOUS
<1>4. marks \in Seq(MarkRecord)
  BY DEF AccountsInv, Histories
<1>5. /\ \A x \in F : x \in Fraction /\ Lowest(x)
      /\ DeepestOf(F) \in F /\ \A x \in F : AtMost(x, DeepestOf(F))
  BY <1>2, <1>4, FallsFacts
<1> HIDE DEF v, n
<1>6. /\ \A k \in 0 .. n : at[k] \in Marked(marks) \cup {0}
      /\ \A i \in Marked(marks) : \E k \in 0 .. n : at[k] = i
      /\ at[0] = 0
      /\ \A k \in 0 .. n : \A j \in 0 .. n : j < k => at[j] < at[k]
  BY <1>1 DEF Chained, n
<1>7. \A i \in Marked(marks) \cup {0} : i \in Nat
  BY <1>4, DomainFinite DEF Marked
<1>8. ASSUME NEW i \in 0 .. n, NEW j \in 0 .. i
      PROVE  Fall(v[j], v[i]) \in F
  <2>1. j \in 0 .. n /\ (j < i \/ j = i)
    BY <1>2
  <2>2. at[j] \in Nat /\ at[i] \in Nat /\ (j < i => at[j] < at[i])
    BY <1>6, <1>7, <2>1
  <2>3. at[j] <= at[i]
    BY <2>1, <2>2
  <2>4. <<at[j], at[i]>> \in MarkPairs(marks)
    BY <1>6, <2>1, <2>3 DEF MarkPairs
  <2>5. Fall(v[j], v[i]) = Fall(ValueAt(marks, at[j]), ValueAt(marks, at[i]))
    BY <1>3, <2>1
  <2> QED
    BY <2>4, <2>5 DEF FallsIn
<1>9. ASSUME NEW x \in F
      PROVE  \E i \in 0 .. n : \E j \in 0 .. i : x = Fall(v[j], v[i])
  <2>1. PICK q \in MarkPairs(marks) : x = Fall(ValueAt(marks, q[1]), ValueAt(marks, q[2]))
    BY DEF FallsIn
  <2>2. q[1] \in Marked(marks) \cup {0} /\ q[2] \in Marked(marks) \cup {0} /\ q[1] <= q[2]
    BY DEF MarkPairs
  <2>3. 0 \in 0 .. n
    BY <1>2
  <2>4. PICK j \in 0 .. n : at[j] = q[1]
    BY <1>6, <2>2, <2>3
  <2>5. PICK i \in 0 .. n : at[i] = q[2]
    BY <1>6, <2>2, <2>3
  <2>6. ~ (i < j)
    <3>1. at[i] \in Nat /\ at[j] \in Nat
      BY <1>6, <1>7
    <3>2. at[j] <= at[i]
      BY <2>2, <2>4, <2>5
    <3>3. i < j => at[i] < at[j]
      BY <1>6
    <3> QED
      BY <3>1, <3>2, <3>3
  <2>7. j \in 0 .. i
    BY <1>2, <2>6
  <2>8. x = Fall(v[j], v[i])
    BY <1>3, <2>1, <2>4, <2>5
  <2> QED
    BY <2>7, <2>8
<1> HIDE DEF F
<1>10. Bounded(Tracker!Drawdown[n], v, n)
  BY <1>2, LoopBounded
<1>11. d \in Fraction
  BY <1>10 DEF Bounded, LoopState
<1>12. PICK i \in 0 .. n : \E j \in 0 .. i : AtMost(d, Fall(v[j], v[i]))
  BY <1>10 DEF Bounded, DeepEnough
<1>13. PICK j \in 0 .. i : AtMost(d, Fall(v[j], v[i]))
  BY <1>12
<1>14. AtMost(d, DeepestOf(F))
  <2>1. Fall(v[j], v[i]) \in F
    BY <1>8
  <2> QED
    BY <1>5, <1>11, <1>13, <2>1, AtMostTransitive
<1>15. ~ LessThan(DeepestOf(F), d)
  BY <1>5, <1>11, <1>14, OrderIs
<1>16. ASSUME fee = 0
       PROVE  d = DeepestOf(F)
  <2>1. Exact(Tracker!Drawdown[n], v, n)
    BY <1>2, <1>16, LoopExact
  <2>2. Lost(d, v, n) /\ Deepest(d, v, n)
    BY <2>1 DEF Exact
  <2>3. d \in F
    BY <1>8, <2>2 DEF Lost
  <2>4. \A x \in F : AtMost(x, d)
    BY <1>9, <2>2 DEF Deepest
  <2> QED
    BY <1>5, <2>3, <2>4, DeepestIs
<1> QED
  BY <1>15, <1>16, DrawdownMeans DEF n, F

\* As long as the account is solvent, the equity follows the marks, and the drawdown that
\* calculate_stats rebuilds from the returns is the largest fall between two marked values when
\* fills are free, and never more when they cost (PnLTracker::calculate_stats).
THEOREM CurveKept == Spec => [](Solvent => CurveIsKept)
<1>1. Init => Chain
  BY ChainInit
<1>2. AccountsInv /\ Chain /\ [Next]_vars => Chain'
  BY ChainNext
<1>3. Spec => []AccountsInv
  BY AccountsAreConsistent
<1>4. Spec => [](AccountsInv /\ Chain)
  BY <1>1, <1>2, <1>3, PTL DEF Spec
<1>5. AccountsInv /\ Chain => (Solvent => CurveIsKept)
  BY DrawdownRebuilt, EquityFollows DEF CurveIsKept
<1> QED
  BY <1>4, <1>5, PTL
=============================================================================
