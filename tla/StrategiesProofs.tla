-------------------------- MODULE StrategiesProofs --------------------------
(***************************************************************************)
(* Proofs about Strategies: for any totals, limits, windows, thresholds    *)
(* and prices, and whatever becomes of the orders and when their fills are *)
(* reported.                                                               *)
(***************************************************************************)
EXTENDS Strategies, SumTheorems, SequenceTheorems, TLAPS

-----------------------------------------------------------------------------
(* Sums of sequences                                                       *)

LEMMA SeqFacts ==
    ASSUME NEW S, NEW s \in Seq(S)
    PROVE  /\ Len(s) \in Nat /\ DOMAIN s = 1 .. Len(s) /\ IsFiniteSet(DOMAIN s)
           /\ \A i \in 1 .. Len(s) : s[i] \in S
<1>1. Len(s) \in Nat /\ DOMAIN s = 1 .. Len(s)
  BY LenProperties
<1>2. IsFiniteSet(1 .. Len(s))
  BY <1>1, FS_Interval
<1> QED
  BY <1>1, <1>2, ElementOfSeq

\* A function that goes on beyond n: the sum grows by the new values.
LEMMA SumGrows ==
    ASSUME NEW n \in Nat, NEW m \in Nat, n <= m,
           NEW f, \A i \in 1 .. n : f[i] \in Int,
           NEW g, \A i \in 1 .. m : g[i] \in Int, \A i \in 1 .. n : g[i] = f[i]
    PROVE  SumFunctionOnSet(g, 1 .. m)
              = SumFunctionOnSet(f, 1 .. n) + SumFunctionOnSet(g, (n + 1) .. m)
<1>1. IsFiniteSet(1 .. n) /\ IsFiniteSet((n + 1) .. m)
  BY FS_Interval
<1>2. (1 .. n) \cap ((n + 1) .. m) = {} /\ (1 .. n) \cup ((n + 1) .. m) = 1 .. m
  OBVIOUS
<1>3. SumFunctionOnSet(g, (1 .. n) \cup ((n + 1) .. m))
         = SumFunctionOnSet(g, 1 .. n) + SumFunctionOnSet(g, (n + 1) .. m)
  BY <1>1, <1>2, SumDisjoint
<1>4. SumFunctionOnSet(g, 1 .. n) = SumFunctionOnSet(f, 1 .. n)
  BY <1>1, SumEqual
<1> QED
  BY <1>2, <1>3, <1>4

LEMMA SumUpTo ==
    ASSUME NEW n \in Nat, NEW f, \A i \in 1 .. n : f[i] \in Int
    PROVE  IsFiniteSet(1 .. n) /\ SumFunctionOnSet(f, 1 .. n) \in Int
<1>1. IsFiniteSet(1 .. n)
  BY FS_Interval
<1> QED
  BY <1>1, SumType

LEMMA SumOneMore ==
    ASSUME NEW n \in Nat, NEW f, \A i \in 1 .. n + 1 : f[i] \in Int
    PROVE  SumFunctionOnSet(f, 1 .. n + 1) = f[n + 1] + SumFunctionOnSet(f, 1 .. n)
<1> DEFINE y == n + 1
<1>1. IsFiniteSet(1 .. n)
  BY FS_Interval
<1>2. 1 .. n + 1 = (1 .. n) \cup {y} /\ y \notin 1 .. n
  OBVIOUS
<1>3. \A i \in (1 .. n) \cup {y} : f[i] \in Int
  BY <1>2
<1> HIDE DEF y
<1>4. SumFunctionOnSet(f, (1 .. n) \cup {y}) = f[y] + SumFunctionOnSet(f, 1 .. n)
  BY <1>1, <1>2, <1>3, SumAdd
<1> QED
  BY <1>2, <1>4 DEF y

LEMMA SumConcat ==
    ASSUME NEW s \in Seq(Int), NEW t \in Seq(Int)
    PROVE  SumFunction(s \o t) = SumFunction(s) + SumFunction(t)
<1> DEFINE N == Len(s)
           u == s \o t
           Good == { k \in Nat : k <= Len(t) =>
                        SumFunctionOnSet(u, 1 .. N + k)
                           = SumFunctionOnSet(s, 1 .. N) + SumFunctionOnSet(t, 1 .. k) }
<1>1. /\ N \in Nat /\ Len(t) \in Nat /\ DOMAIN s = 1 .. N /\ DOMAIN t = 1 .. Len(t)
      /\ \A i \in 1 .. N : s[i] \in Int
      /\ \A i \in 1 .. Len(t) : t[i] \in Int
  BY SeqFacts
<1>2. /\ DOMAIN u = 1 .. N + Len(t)
      /\ \A i \in 1 .. N + Len(t) : u[i] = IF i <= N THEN s[i] ELSE t[i - N]
  BY <1>1, ConcatProperties, SeqFacts
<1> HIDE DEF u, N
<1>3. 0 \in Good
  <2>1. SumFunctionOnSet(u, 1 .. N) = SumFunctionOnSet(s, 1 .. N)
    <3>1. \A i \in 1 .. N : s[i] \in Int
      BY <1>1
    <3>2. \A i \in 1 .. N : u[i] = s[i]
      BY <1>1, <1>2
    <3>3. IsFiniteSet(1 .. N)
      BY <1>1, FS_Interval
    <3> QED
      BY <3>1, <3>2, <3>3, SumEqual
  <2>2. 1 .. 0 = {} /\ N + 0 = N
    BY <1>1
  <2>3. SumFunctionOnSet(t, 1 .. 0) = 0
    BY <2>2, SumEmpty
  <2>4. SumFunctionOnSet(s, 1 .. N) \in Int
    BY <1>1, SumUpTo
  <2> QED
    BY <2>1, <2>2, <2>3, <2>4
<1>4. ASSUME NEW k \in Nat, k \in Good PROVE k + 1 \in Good
  <2> SUFFICES ASSUME k + 1 <= Len(t)
      PROVE SumFunctionOnSet(u, 1 .. N + (k + 1))
               = SumFunctionOnSet(s, 1 .. N) + SumFunctionOnSet(t, 1 .. k + 1)
    OBVIOUS
  <2>1. SumFunctionOnSet(u, 1 .. N + k)
           = SumFunctionOnSet(s, 1 .. N) + SumFunctionOnSet(t, 1 .. k)
    BY <1>1, <1>4
  <2>2. SumFunctionOnSet(t, 1 .. k + 1) = t[k + 1] + SumFunctionOnSet(t, 1 .. k)
    <3>1. \A i \in 1 .. k + 1 : t[i] \in Int
      BY <1>1
    <3> QED
      BY <3>1, SumOneMore
  <2>3. SumFunctionOnSet(u, 1 .. N + (k + 1)) = u[N + (k + 1)] + SumFunctionOnSet(u, 1 .. N + k)
    <3> DEFINE n == N + k
    <3>1. n \in Nat /\ N + (k + 1) = n + 1
      BY <1>1
    <3>2. \A i \in 1 .. n + 1 : u[i] \in Int
      BY <1>1, <1>2
    <3> HIDE DEF n
    <3>3. SumFunctionOnSet(u, 1 .. n + 1) = u[n + 1] + SumFunctionOnSet(u, 1 .. n)
      BY <3>1, <3>2, SumOneMore
    <3> QED
      BY <3>1, <3>3 DEF n
  <2>4. u[N + (k + 1)] = t[k + 1] /\ t[k + 1] \in Int
    BY <1>1, <1>2
  <2>5. SumFunctionOnSet(s, 1 .. N) \in Int
    BY <1>1, SumUpTo
  <2>6. SumFunctionOnSet(t, 1 .. k) \in Int
    BY <1>1, SumUpTo
  <2> QED
    BY <2>1, <2>2, <2>3, <2>4, <2>5, <2>6
<1>5. Nat \subseteq Good
  <2> HIDE DEF Good
  <2> QED
    BY <1>3, <1>4, NatSetInduction
<1>6. Len(t) \in Good
  BY <1>1, <1>5
<1>7. SumFunctionOnSet(u, 1 .. N + Len(t))
         = SumFunctionOnSet(s, 1 .. N) + SumFunctionOnSet(t, 1 .. Len(t))
  BY <1>1, <1>6
<1> QED
  BY <1>1, <1>2, <1>7 DEF SumFunction, u

\* What can be said of a sum whose values have one sign.
LEMMA SumNegative ==
    ASSUME NEW S, IsFiniteSet(S), NEW f, \A x \in S : f[x] \in Int /\ f[x] <= 0
    PROVE  SumFunctionOnSet(f, S) \in Int /\ SumFunctionOnSet(f, S) <= 0
<1> DEFINE g == [x \in S |-> - f[x]]
           h == [x \in S |-> 0]
<1>1. \A x \in S : g[x] \in Nat /\ h[x] = f[x] + g[x] /\ f[x] \in Int /\ h[x] = 0
  OBVIOUS
<1> HIDE DEF g, h
<1>2. SumFunctionOnSet(h, S) = SumFunctionOnSet(f, S) + SumFunctionOnSet(g, S)
  BY <1>1, SumPlus
<1>3. SumFunctionOnSet(h, S) = 0
  BY <1>1, SumZero
<1>4. SumFunctionOnSet(g, S) \in Nat
  BY <1>1, SumNat
<1>5. SumFunctionOnSet(f, S) \in Int
  BY <1>1, SumType
<1> QED
  BY <1>2, <1>3, <1>4, <1>5

LEMMA SumAtMost ==
    ASSUME NEW S, IsFiniteSet(S), NEW f, NEW g,
           \A x \in S : f[x] \in Int /\ g[x] \in Int /\ f[x] <= g[x]
    PROVE  /\ SumFunctionOnSet(f, S) \in Int /\ SumFunctionOnSet(g, S) \in Int
           /\ SumFunctionOnSet(f, S) <= SumFunctionOnSet(g, S)
<1> DEFINE d == [x \in S |-> g[x] - f[x]]
<1>1. \A x \in S : d[x] \in Nat /\ g[x] = f[x] + d[x] /\ f[x] \in Int
  OBVIOUS
<1> HIDE DEF d
<1>2. SumFunctionOnSet(g, S) = SumFunctionOnSet(f, S) + SumFunctionOnSet(d, S)
  BY <1>1, SumPlus
<1>3. SumFunctionOnSet(d, S) \in Nat
  BY <1>1, SumNat
<1>4. SumFunctionOnSet(f, S) \in Int /\ SumFunctionOnSet(g, S) \in Int
  BY SumType
<1> QED
  BY <1>2, <1>3, <1>4

-----------------------------------------------------------------------------
(* What is on its way to be reported                                       *)

ReportT == [id : Nat, qty : Int, ts : Nat]

Amounts(list, id) == [i \in DOMAIN list |-> IF list[i].id = id THEN list[i].qty ELSE 0]
Told(list, id) == SumFunction(Amounts(list, id))

Reports(fills, id, t) == [i \in DOMAIN fills |-> [id |-> id, qty |-> fills[i], ts |-> t]]

LEMMA AmountsFacts ==
    ASSUME NEW list \in Seq(ReportT), NEW id
    PROVE  /\ Amounts(list, id) \in Seq(Int) /\ Len(Amounts(list, id)) = Len(list)
           /\ DOMAIN Amounts(list, id) = 1 .. Len(list)
           /\ \A i \in 1 .. Len(list) :
                 Amounts(list, id)[i] = IF list[i].id = id THEN list[i].qty ELSE 0
<1>1. Len(list) \in Nat /\ DOMAIN list = 1 .. Len(list) /\ \A i \in 1 .. Len(list) : list[i] \in ReportT
  BY SeqFacts
<1>2. \A i \in 1 .. Len(list) : (IF list[i].id = id THEN list[i].qty ELSE 0) \in Int
  BY <1>1 DEF ReportT
<1>3. Amounts(list, id) \in [1 .. Len(list) -> Int]
  BY <1>1, <1>2 DEF Amounts
<1>4. Amounts(list, id) \in Seq(Int)
  BY <1>1, <1>3
<1> QED
  BY <1>1, <1>3, <1>4 DEF Amounts

LEMMA ToldType == ASSUME NEW list \in Seq(ReportT), NEW id PROVE Told(list, id) \in Int
<1> DEFINE a == Amounts(list, id)
<1>1. a \in Seq(Int)
  BY AmountsFacts
<1> HIDE DEF a
<1>2. IsFiniteSet(DOMAIN a) /\ \A i \in DOMAIN a : a[i] \in Int
  BY <1>1, SeqFacts
<1> QED
  BY <1>2, SumType DEF Told, SumFunction, a

LEMMA ToldConcat ==
    ASSUME NEW list \in Seq(ReportT), NEW more \in Seq(ReportT), NEW id
    PROVE  Told(list \o more, id) = Told(list, id) + Told(more, id)
<1> DEFINE a == Amounts(list, id)
           b == Amounts(more, id)
           c == Amounts(list \o more, id)
<1>1. /\ Len(list) \in Nat /\ Len(more) \in Nat
      /\ list \o more \in Seq(ReportT) /\ Len(list \o more) = Len(list) + Len(more)
      /\ \A i \in 1 .. Len(list) + Len(more) :
            (list \o more)[i] = IF i <= Len(list) THEN list[i] ELSE more[i - Len(list)]
  BY ConcatProperties, SeqFacts
<1>2. /\ a \in Seq(Int) /\ Len(a) = Len(list)
      /\ \A i \in 1 .. Len(list) : a[i] = IF list[i].id = id THEN list[i].qty ELSE 0
  BY AmountsFacts
<1>3. /\ b \in Seq(Int) /\ Len(b) = Len(more)
      /\ \A i \in 1 .. Len(more) : b[i] = IF more[i].id = id THEN more[i].qty ELSE 0
  BY AmountsFacts
<1>4. /\ c \in Seq(Int) /\ Len(c) = Len(list) + Len(more)
      /\ \A i \in 1 .. Len(list) + Len(more) :
            c[i] = IF (list \o more)[i].id = id THEN (list \o more)[i].qty ELSE 0
  <2> DEFINE u == list \o more
  <2>1. u \in Seq(ReportT) /\ Len(u) = Len(list) + Len(more)
    BY <1>1
  <2> HIDE DEF u
  <2>2. /\ Amounts(u, id) \in Seq(Int) /\ Len(Amounts(u, id)) = Len(u)
        /\ \A i \in 1 .. Len(u) : Amounts(u, id)[i] = IF u[i].id = id THEN u[i].qty ELSE 0
    BY <2>1, AmountsFacts
  <2> QED
    BY <2>1, <2>2 DEF u
<1> HIDE DEF a, b, c
<1>5. /\ a \o b \in Seq(Int) /\ Len(a \o b) = Len(a) + Len(b)
      /\ \A i \in 1 .. Len(a) + Len(b) : (a \o b)[i] = IF i <= Len(a) THEN a[i] ELSE b[i - Len(a)]
  <2>1. a \in Seq(Int) /\ b \in Seq(Int)
    BY <1>2, <1>3
  <2> QED
    BY <2>1, ConcatProperties
<1>6. \A i \in 1 .. Len(c) : c[i] = (a \o b)[i]
  <2> SUFFICES ASSUME NEW i \in 1 .. Len(list) + Len(more) PROVE c[i] = (a \o b)[i]
    BY <1>4
  <2>1. CASE i <= Len(list)
    <3>1. i \in 1 .. Len(list) /\ (list \o more)[i] = list[i] /\ (a \o b)[i] = a[i]
      BY <1>1, <1>2, <1>3, <1>5, <2>1
    <3> QED
      BY <1>2, <1>4, <3>1
  <2>2. CASE ~ (i <= Len(list))
    <3>1. /\ i - Len(list) \in 1 .. Len(more) /\ (list \o more)[i] = more[i - Len(list)]
          /\ (a \o b)[i] = b[i - Len(list)]
      BY <1>1, <1>2, <1>3, <1>5, <2>2
    <3> QED
      BY <1>3, <1>4, <3>1
  <2> QED
    BY <2>1, <2>2
<1>7. c = a \o b
  <2>1. Len(c) = Len(a \o b) /\ c \in Seq(Int) /\ a \o b \in Seq(Int)
    BY <1>2, <1>3, <1>4, <1>5
  <2> QED
    BY <1>6, <2>1, SeqEqual
<1>8. SumFunction(a \o b) = SumFunction(a) + SumFunction(b)
  BY <1>2, <1>3, SumConcat
<1> QED
  BY <1>7, <1>8 DEF Told, a, b, c

\* The fills of one order, all reported at once.
LEMMA ToldFills ==
    ASSUME NEW fills \in Seq(Int), NEW k \in Nat, NEW t \in Nat
    PROVE  /\ Reports(fills, k, t) \in Seq(ReportT) /\ Len(Reports(fills, k, t)) = Len(fills)
           /\ \A i \in 1 .. Len(fills) : Reports(fills, k, t)[i] = [id |-> k, qty |-> fills[i], ts |-> t]
           /\ Told(Reports(fills, k, t), k) = SumFunction(fills)
           /\ \A id : id # k => Told(Reports(fills, k, t), id) = 0
<1> DEFINE new == Reports(fills, k, t)
<1>1. Len(fills) \in Nat /\ DOMAIN fills = 1 .. Len(fills) /\ \A i \in 1 .. Len(fills) : fills[i] \in Int
  BY SeqFacts
<1>2. /\ new \in [1 .. Len(fills) -> ReportT]
      /\ \A i \in 1 .. Len(fills) : new[i] = [id |-> k, qty |-> fills[i], ts |-> t]
  BY <1>1 DEF Reports, ReportT
<1>3. new \in Seq(ReportT) /\ Len(new) = Len(fills)
  <2> HIDE DEF new
  <2> QED
    BY <1>1, <1>2
<1> HIDE DEF new
<1>4. Told(new, k) = SumFunction(fills)
  <2> DEFINE a == Amounts(new, k)
  <2>1. /\ a \in Seq(Int) /\ Len(a) = Len(new)
        /\ \A i \in 1 .. Len(new) : a[i] = IF new[i].id = k THEN new[i].qty ELSE 0
    BY <1>3, AmountsFacts
  <2> HIDE DEF a
  <2>2. \A i \in 1 .. Len(a) : a[i] = fills[i]
    BY <1>2, <1>3, <2>1
  <2>3. a = fills
    BY <1>3, <2>1, <2>2, SeqEqual
  <2> QED
    BY <2>3 DEF Told, a
<1>5. ASSUME NEW id, id # k PROVE Told(new, id) = 0
  <2> DEFINE a == Amounts(new, id)
  <2>1. /\ a \in Seq(Int) /\ Len(a) = Len(new)
        /\ \A i \in 1 .. Len(new) : a[i] = IF new[i].id = id THEN new[i].qty ELSE 0
    BY <1>3, AmountsFacts
  <2> HIDE DEF a
  <2>2. IsFiniteSet(DOMAIN a) /\ DOMAIN a = 1 .. Len(a)
    BY <2>1, SeqFacts
  <2>3. \A i \in DOMAIN a : a[i] = 0
    BY <1>2, <1>3, <1>5, <2>1, <2>2
  <2>4. SumFunctionOnSet(a, DOMAIN a) = 0
    BY <2>2, <2>3, SumZero
  <2> QED
    BY <2>4 DEF Told, SumFunction, a
<1> QED
  BY <1>2, <1>3, <1>4, <1>5 DEF new

LEMMA ToldOne ==
    ASSUME NEW r \in ReportT, NEW id
    PROVE  /\ << r >> \in Seq(ReportT)
           /\ Told(<< r >>, id) = IF r.id = id THEN r.qty ELSE 0
<1> DEFINE list == << r >>
           a == Amounts(list, id)
<1>1. list \in Seq(ReportT) /\ Len(list) = 1 /\ list[1] = r
  OBVIOUS
<1> HIDE DEF list
<1>2. /\ a \in Seq(Int) /\ DOMAIN a = 1 .. 1
      /\ \A i \in 1 .. 1 : a[i] = IF list[i].id = id THEN list[i].qty ELSE 0
  BY <1>1, AmountsFacts
<1> HIDE DEF a
<1>3. a[1] = (IF r.id = id THEN r.qty ELSE 0) /\ a[1] \in Int
  BY <1>1, <1>2 DEF ReportT
<1>4. SumFunctionOnSet(a, 1 .. 1) = a[1]
  <2>1. 0 + 1 = 1 /\ 1 .. 0 = {}
    OBVIOUS
  <2>2. SumFunctionOnSet(a, 1 .. 0 + 1) = a[0 + 1] + SumFunctionOnSet(a, 1 .. 0)
    <3>1. \A i \in 1 .. 0 + 1 : a[i] \in Int
      BY <1>3
    <3> QED
      BY <3>1, SumOneMore
  <2>3. SumFunctionOnSet(a, 1 .. 0) = 0
    BY <2>1, SumEmpty
  <2> QED
    BY <1>3, <2>1, <2>2, <2>3
<1> QED
  BY <1>1, <1>2, <1>3, <1>4 DEF Told, SumFunction, list, a

LEMMA ToldAppend ==
    ASSUME NEW list \in Seq(ReportT), NEW r \in ReportT, NEW id
    PROVE  Told(Append(list, r), id) = Told(list, id) + (IF r.id = id THEN r.qty ELSE 0)
<1>1. Append(list, r) = list \o << r >>
  OBVIOUS
<1>2. << r >> \in Seq(ReportT) /\ Told(<< r >>, id) = IF r.id = id THEN r.qty ELSE 0
  BY ToldOne
<1>3. Told(list \o << r >>, id) = Told(list, id) + Told(<< r >>, id)
  BY <1>2, ToldConcat
<1> QED
  BY <1>1, <1>2, <1>3

\* A report that has been delivered counts no more.
LEMMA ToldRemove ==
    ASSUME NEW list \in Seq(ReportT), NEW k \in 1 .. Len(list)
    PROVE  /\ RemoveAt(list, k) \in Seq(ReportT)
           /\ Len(RemoveAt(list, k)) = Len(list) - 1
           /\ \A i \in 1 .. Len(list) - 1 :
                 RemoveAt(list, k)[i] = IF i < k THEN list[i] ELSE list[i + 1]
           /\ \A id : Told(list, id) =
                 Told(RemoveAt(list, k), id) + (IF list[k].id = id THEN list[k].qty ELSE 0)
<1> DEFINE a == SubSeq(list, 1, k - 1)
           b == SubSeq(list, k + 1, Len(list))
           r == list[k]
<1>1. Len(list) \in Nat /\ \A i \in 1 .. Len(list) : list[i] \in ReportT
  BY SeqFacts
<1>2. /\ a \in Seq(ReportT) /\ Len(a) = k - 1
      /\ \A i \in 1 .. k - 1 : a[i] = list[i]
  BY <1>1
<1>3. /\ b \in Seq(ReportT) /\ Len(b) = Len(list) - k
      /\ \A i \in 1 .. Len(list) - k : b[i] = list[k + i]
  BY <1>1
<1>4. r \in ReportT /\ << r >> \in Seq(ReportT) /\ Len(<< r >>) = 1 /\ << r >>[1] = r
  BY <1>1
<1>5. RemoveAt(list, k) = a \o b
  BY DEF RemoveAt
<1> HIDE DEF a, b, r
<1>6. /\ a \o b \in Seq(ReportT) /\ Len(a \o b) = Len(a) + Len(b)
      /\ \A i \in 1 .. Len(a) + Len(b) : (a \o b)[i] = IF i <= Len(a) THEN a[i] ELSE b[i - Len(a)]
  BY <1>2, <1>3, ConcatProperties
<1>7. \A i \in 1 .. Len(list) - 1 : (a \o b)[i] = IF i < k THEN list[i] ELSE list[i + 1]
  <2> SUFFICES ASSUME NEW i \in 1 .. Len(list) - 1
      PROVE (a \o b)[i] = IF i < k THEN list[i] ELSE list[i + 1]
    OBVIOUS
  <2>1. CASE i < k
    BY <1>1, <1>2, <1>3, <1>6, <2>1
  <2>2. CASE ~ (i < k)
    <3>1. (a \o b)[i] = b[i - (k - 1)] /\ i - (k - 1) \in 1 .. Len(list) - k
      BY <1>1, <1>2, <1>3, <1>6, <2>2
    <3>2. k + (i - (k - 1)) = i + 1
      BY <1>1
    <3> QED
      BY <1>3, <2>2, <3>1, <3>2
  <2> QED
    BY <2>1, <2>2
<1>8. list = (a \o << r >>) \o b
  <2> DEFINE s == a \o << r >>
  <2>1. /\ s \in Seq(ReportT) /\ Len(s) = k
        /\ \A i \in 1 .. k : s[i] = IF i <= k - 1 THEN a[i] ELSE << r >>[i - (k - 1)]
    <3>1. /\ s \in Seq(ReportT) /\ Len(s) = Len(a) + Len(<< r >>)
          /\ \A i \in 1 .. Len(a) + Len(<< r >>) :
                s[i] = IF i <= Len(a) THEN a[i] ELSE << r >>[i - Len(a)]
      <4>1. a \in Seq(ReportT) /\ << r >> \in Seq(ReportT)
        BY <1>2, <1>4
      <4> QED
        BY <4>1, ConcatProperties
    <3>2. Len(a) + Len(<< r >>) = k /\ Len(a) = k - 1
      BY <1>1, <1>2, <1>4
    <3> QED
      BY <3>1, <3>2
  <2> HIDE DEF s
  <2>2. /\ s \o b \in Seq(ReportT) /\ Len(s \o b) = Len(s) + Len(b)
        /\ \A i \in 1 .. Len(s) + Len(b) : (s \o b)[i] = IF i <= Len(s) THEN s[i] ELSE b[i - Len(s)]
    <3>1. s \in Seq(ReportT) /\ b \in Seq(ReportT)
      BY <1>3, <2>1
    <3> QED
      BY <3>1, ConcatProperties
  <2>3. Len(s \o b) = Len(list)
    BY <1>1, <1>3, <2>1, <2>2
  <2>4. \A i \in 1 .. Len(list) : list[i] = (s \o b)[i]
    <3> SUFFICES ASSUME NEW i \in 1 .. Len(list) PROVE list[i] = (s \o b)[i]
      OBVIOUS
    <3>1. CASE i < k
      <4>1. (s \o b)[i] = s[i] /\ s[i] = a[i]
        BY <1>1, <1>3, <2>1, <2>2, <3>1
      <4> QED
        BY <1>1, <1>2, <3>1, <4>1
    <3>2. CASE i = k
      <4>1. (s \o b)[i] = s[i] /\ s[i] = << r >>[k - (k - 1)] /\ k - (k - 1) = 1
        BY <1>1, <1>3, <2>1, <2>2, <3>2
      <4> QED
        BY <1>4, <3>2, <4>1 DEF r
    <3>3. CASE i > k
      <4>1. (s \o b)[i] = b[i - k] /\ i - k \in 1 .. Len(list) - k /\ k + (i - k) = i
        BY <1>1, <1>3, <2>1, <2>2, <3>3
      <4> QED
        BY <1>3, <4>1
    <3>4. i < k \/ i = k \/ i > k
      BY <1>1
    <3> QED
      BY <3>1, <3>2, <3>3, <3>4
  <2> QED
    BY <2>2, <2>3, <2>4, SeqEqual DEF s
<1>9. ASSUME NEW id
      PROVE Told(list, id) = Told(a \o b, id) + (IF r.id = id THEN r.qty ELSE 0)
  <2>1. a \o << r >> \in Seq(ReportT)
    BY <1>2, <1>4, ConcatProperties
  <2>2. Told(list, id) = Told(a \o << r >>, id) + Told(b, id)
    BY <1>3, <1>8, <2>1, ToldConcat
  <2>3. Told(a \o << r >>, id) = Told(a, id) + Told(<< r >>, id)
    BY <1>2, <1>4, ToldConcat
  <2>4. Told(a \o b, id) = Told(a, id) + Told(b, id)
    BY <1>2, <1>3, ToldConcat
  <2>5. Told(<< r >>, id) = IF r.id = id THEN r.qty ELSE 0
    BY <1>4, ToldOne
  <2>6. Told(a, id) \in Int /\ Told(b, id) \in Int /\ Told(<< r >>, id) \in Int
    BY <1>2, <1>3, <1>4, ToldType
  <2> QED
    BY <2>2, <2>3, <2>4, <2>5, <2>6
<1> QED
  BY <1>1, <1>2, <1>3, <1>5, <1>6, <1>7, <1>9 DEF r

-----------------------------------------------------------------------------
(* Orders, and what was and may be reported of them                        *)

OrderT == [side : Sides, qty : Int, left : Int, sent : Nat,
           at : {"sent", "resting", "over", "rejected"}]

\* An order and what of it is filled and not yet reported.
SoundOrder(o, u) ==
    /\ o.qty # 0 /\ u \in Int
    /\ IF o.qty > 0 THEN o.left >= 0 /\ u >= 0 /\ o.left + u <= o.qty
       ELSE {o.left, u, o.left + u} \subseteq {0, o.qty}
    /\ o.at = "sent" => o.left = o.qty /\ u = 0
    /\ o.at = "resting" => o.qty > 0

FillFits(q, qty) == IF qty > 0 THEN q > 0 ELSE q = qty

OrdersInv(list, rs) ==
    /\ list \in Seq(OrderT) /\ rs \in Seq(ReportT)
    /\ \A i \in 1 .. Len(rs) :
          rs[i].id \in 1 .. Len(list) /\ FillFits(rs[i].qty, list[rs[i].id].qty)
    /\ \A id \in 1 .. Len(list) : SoundOrder(list[id], Told(rs, id))

\* Reported and Outstanding, as operators of the lists.
Rep(list, rs, id) == list[id].qty - list[id].left - Told(rs, id)
Out(list, rs, id) ==
    Told(rs, id) + (IF list[id].at \in {"sent", "resting"} THEN list[id].left ELSE 0)

LEMMA OrdersFacts ==
    ASSUME NEW list, NEW rs, OrdersInv(list, rs)
    PROVE  /\ Len(list) \in Nat /\ DOMAIN list = 1 .. Len(list)
           /\ Len(rs) \in Nat /\ DOMAIN rs = 1 .. Len(rs)
           /\ \A i \in 1 .. Len(rs) : rs[i] \in ReportT
           /\ \A id \in 1 .. Len(list) :
                 /\ list[id] \in OrderT /\ Told(rs, id) \in Int
                 /\ Rep(list, rs, id) \in Int /\ Out(list, rs, id) \in Int
                 /\ list[id].qty > 0 =>
                       /\ Rep(list, rs, id) >= 0 /\ Told(rs, id) >= 0
                       /\ Out(list, rs, id) >= Told(rs, id)
                       /\ Rep(list, rs, id) + Out(list, rs, id) <= list[id].qty
<1>1. /\ Len(list) \in Nat /\ DOMAIN list = 1 .. Len(list)
      /\ \A id \in 1 .. Len(list) : list[id] \in OrderT
  BY SeqFacts DEF OrdersInv
<1>2. /\ Len(rs) \in Nat /\ DOMAIN rs = 1 .. Len(rs)
      /\ \A i \in 1 .. Len(rs) : rs[i] \in ReportT
  BY SeqFacts DEF OrdersInv
<1>3. ASSUME NEW id \in 1 .. Len(list)
      PROVE  /\ list[id] \in OrderT /\ Told(rs, id) \in Int
             /\ Rep(list, rs, id) \in Int /\ Out(list, rs, id) \in Int
             /\ list[id].qty > 0 =>
                   /\ Rep(list, rs, id) >= 0 /\ Told(rs, id) >= 0
                   /\ Out(list, rs, id) >= Told(rs, id)
                   /\ Rep(list, rs, id) + Out(list, rs, id) <= list[id].qty
  <2>1. SoundOrder(list[id], Told(rs, id))
    BY DEF OrdersInv
  <2>2. list[id].qty \in Int /\ list[id].left \in Int /\ list[id] \in OrderT
    BY <1>1 DEF OrderT
  <2>3. Told(rs, id) \in Int
    BY <2>1 DEF SoundOrder
  <2>4. list[id].qty > 0 =>
           list[id].left >= 0 /\ Told(rs, id) >= 0 /\ list[id].left + Told(rs, id) <= list[id].qty
    BY <2>1 DEF SoundOrder
  <2>5. Rep(list, rs, id) \in Int /\ Out(list, rs, id) \in Int
    BY <2>2, <2>3 DEF Rep, Out
  <2>6. /\ Rep(list, rs, id) = list[id].qty - list[id].left - Told(rs, id)
        /\ \/ Out(list, rs, id) = Told(rs, id) + list[id].left
           \/ Out(list, rs, id) = Told(rs, id)
    BY <2>2, <2>3 DEF Rep, Out
  <2> DEFINE qty == list[id].qty
             left == list[id].left
             told == Told(rs, id)
             rep == Rep(list, rs, id)
             out == Out(list, rs, id)
  <2>7. ASSUME qty > 0 PROVE rep >= 0 /\ told >= 0 /\ out >= told /\ rep + out <= qty
    BY <2>2, <2>3, <2>4, <2>5, <2>6, <2>7
  <2> QED
    BY <2>2, <2>3, <2>5, <2>7
<1> QED
  BY <1>1, <1>2, <1>3

\* What the market or the book does to an order: nobody is told, and what may
\* still be told does not grow.
VenueEffect(list, rs, list2, rs2) ==
    /\ Len(list2) = Len(list)
    /\ \A i \in 1 .. Len(list) :
          /\ list2[i].side = list[i].side /\ list2[i].qty = list[i].qty
          /\ list2[i].sent = list[i].sent
          /\ Rep(list2, rs2, i) = Rep(list, rs, i)
          /\ list[i].qty > 0 => Out(list2, rs2, i) <= Out(list, rs, i)

\* One order o became o2, and d more of it is to be reported.
LEMMA OneOrderChanges ==
    ASSUME NEW list, NEW rs, OrdersInv(list, rs), NEW id \in 1 .. Len(list),
           NEW list2 \in Seq(OrderT), Len(list2) = Len(list),
           \A i \in 1 .. Len(list) : i # id => list2[i] = list[i],
           list2[id].side = list[id].side, list2[id].qty = list[id].qty,
           list2[id].sent = list[id].sent,
           NEW more \in Seq(ReportT), NEW rs2, rs2 = rs \o more,
           \A i \in 1 .. Len(more) : more[i].id = id /\ FillFits(more[i].qty, list[id].qty),
           NEW d \in Int, Told(more, id) = d, \A i : i # id => Told(more, i) = 0,
           list2[id].left = list[id].left - d,
           SoundOrder(list2[id], Told(rs, id) + d),
           list[id].qty > 0 => Out(list2, rs2, id) <= Out(list, rs, id)
    PROVE  OrdersInv(list2, rs2) /\ VenueEffect(list, rs, list2, rs2)
<1>1. /\ Len(list) \in Nat /\ Len(rs) \in Nat /\ Len(more) \in Nat /\ rs \in Seq(ReportT)
      /\ \A i \in 1 .. Len(list) : list[i] \in OrderT /\ Told(rs, i) \in Int
  BY OrdersFacts, SeqFacts DEF OrdersInv
<1>2. /\ rs2 \in Seq(ReportT) /\ Len(rs2) = Len(rs) + Len(more)
      /\ \A i \in 1 .. Len(rs) + Len(more) : rs2[i] = IF i <= Len(rs) THEN rs[i] ELSE more[i - Len(rs)]
  BY <1>1, ConcatProperties
<1>3. \A i : Told(rs2, i) = Told(rs, i) + Told(more, i)
  BY <1>1, ToldConcat
<1>a. \A i \in 1 .. Len(list) : i # id => Told(rs2, i) = Told(rs, i) /\ list2[i] = list[i]
  <2> SUFFICES ASSUME NEW i \in 1 .. Len(list), i # id PROVE Told(rs2, i) = Told(rs, i)
    OBVIOUS
  <2>1. Told(more, i) = 0
    OBVIOUS
  <2>2. Told(rs2, i) = Told(rs, i) + Told(more, i) /\ Told(rs, i) \in Int
    BY <1>1, <1>3
  <2> QED
    BY <2>1, <2>2
<1>4. \A i \in 1 .. Len(list) : list2[i].qty = list[i].qty
  OBVIOUS
<1>5. \A i \in 1 .. Len(rs2) : rs2[i].id \in 1 .. Len(list2) /\ FillFits(rs2[i].qty, list2[rs2[i].id].qty)
  <2> SUFFICES ASSUME NEW i \in 1 .. Len(rs) + Len(more)
      PROVE rs2[i].id \in 1 .. Len(list) /\ FillFits(rs2[i].qty, list2[rs2[i].id].qty)
    BY <1>2
  <2>1. CASE i <= Len(rs)
    <3>1. i \in 1 .. Len(rs) /\ rs2[i] = rs[i]
      BY <1>1, <1>2, <2>1
    <3>2. rs[i].id \in 1 .. Len(list) /\ FillFits(rs[i].qty, list[rs[i].id].qty)
      BY <3>1 DEF OrdersInv
    <3> QED
      BY <1>4, <3>1, <3>2
  <2>2. CASE ~ (i <= Len(rs))
    <3>1. i - Len(rs) \in 1 .. Len(more) /\ rs2[i] = more[i - Len(rs)]
      BY <1>1, <1>2, <2>2
    <3>2. more[i - Len(rs)].id = id /\ FillFits(more[i - Len(rs)].qty, list[id].qty)
      BY <3>1
    <3> QED
      BY <1>4, <3>1, <3>2
  <2> QED
    BY <2>1, <2>2
<1>6. \A i \in 1 .. Len(list2) : SoundOrder(list2[i], Told(rs2, i))
  <2> SUFFICES ASSUME NEW i \in 1 .. Len(list) PROVE SoundOrder(list2[i], Told(rs2, i))
    OBVIOUS
  <2>1. CASE i = id
    BY <1>3, <2>1
  <2>2. CASE i # id
    <3>1. Told(rs2, i) = Told(rs, i) /\ list2[i] = list[i]
      BY <1>a, <2>2
    <3> QED
      BY <3>1 DEF OrdersInv
  <2> QED
    BY <2>1, <2>2
<1>7. VenueEffect(list, rs, list2, rs2)
  <2> SUFFICES ASSUME NEW i \in 1 .. Len(list)
      PROVE /\ list2[i].side = list[i].side /\ list2[i].qty = list[i].qty
            /\ list2[i].sent = list[i].sent
            /\ Rep(list2, rs2, i) = Rep(list, rs, i)
            /\ list[i].qty > 0 => Out(list2, rs2, i) <= Out(list, rs, i)
    BY DEF VenueEffect
  <2>1. CASE i = id
    <3>1. Told(rs2, id) = Told(rs, id) + d /\ Told(rs, id) \in Int
      BY <1>1, <1>3
    <3>2. list[id].left \in Int /\ list[id].qty \in Int
      BY <1>1 DEF OrderT
    <3>3. Rep(list2, rs2, id) = Rep(list, rs, id)
      BY <3>1, <3>2 DEF Rep
    <3> QED
      BY <2>1, <3>3
  <2>2. CASE i # id
    <3>1. Told(rs2, i) = Told(rs, i) /\ list2[i] = list[i]
      BY <1>a, <2>2
    <3>2. Rep(list2, rs2, i) = Rep(list, rs, i) /\ Out(list2, rs2, i) = Out(list, rs, i)
      BY <3>1 DEF Rep, Out
    <3>3. Out(list, rs, i) \in Int
      BY OrdersFacts
    <3> QED
      BY <3>1, <3>2, <3>3
  <2> QED
    BY <2>1, <2>2
<1> QED
  BY <1>2, <1>5, <1>6, <1>7 DEF OrdersInv

-----------------------------------------------------------------------------
(* The operations on orders and reports                                    *)

LEMMA FillsFacts ==
    ASSUME NEW qty \in Int, qty # 0, NEW fills \in FillsOf(qty)
    PROVE  /\ fills \in Seq(Int) /\ \A i \in 1 .. Len(fills) : FillFits(fills[i], qty)
           /\ SumFunction(fills) \in Int
           /\ IF qty > 0 THEN 0 <= SumFunction(fills) /\ SumFunction(fills) <= qty
              ELSE SumFunction(fills) \in {0, qty}
<1>1. CASE qty > 0
  <2>1. SumFunction(fills) <= qty /\ \E n \in 0 .. qty : fills \in [1 .. n -> 1 .. qty]
    BY <1>1 DEF FillsOf
  <2>2. PICK n \in 0 .. qty : fills \in [1 .. n -> 1 .. qty]
    BY <2>1
  <2> n \in Nat
    OBVIOUS
  <2>3. \A i \in 1 .. n : fills[i] \in Nat /\ fills[i] > 0
    BY <2>2
  <2>4. fills \in Seq(Int) /\ Len(fills) = n /\ DOMAIN fills = 1 .. n
    BY <2>2
  <2>5. IsFiniteSet(1 .. n)
    BY FS_Interval
  <2>6. SumFunction(fills) \in Nat
    BY <2>3, <2>4, <2>5, SumNat DEF SumFunction
  <2> QED
    BY <1>1, <2>1, <2>3, <2>4, <2>6 DEF FillFits
<1>2. CASE qty < 0
  <2>1. fills = << >> \/ fills = << qty >>
    BY <1>2 DEF FillsOf
  <2>2. CASE fills = << >>
    <3>1. fills \in Seq(Int) /\ Len(fills) = 0 /\ DOMAIN fills = {}
      BY <2>2
    <3>2. SumFunction(fills) = 0
      BY <3>1, SumEmpty DEF SumFunction
    <3> QED
      BY <1>2, <3>1, <3>2
  <2>3. CASE fills = << qty >>
    <3>1. fills \in Seq(Int) /\ Len(fills) = 1 /\ DOMAIN fills = 1 .. 0 + 1 /\ fills[0 + 1] = qty
      BY <2>3
    <3>2. SumFunctionOnSet(fills, 1 .. 0 + 1) = fills[0 + 1] + SumFunctionOnSet(fills, 1 .. 0)
      <4>1. \A i \in 1 .. 0 + 1 : fills[i] \in Int
        BY <2>3
      <4> QED
        BY <4>1, SumOneMore
    <3>3. SumFunctionOnSet(fills, 1 .. 0) = 0
      <4>1. 1 .. 0 = {}
        OBVIOUS
      <4> QED
        BY <4>1, SumEmpty
    <3>4. SumFunction(fills) = qty
      BY <3>1, <3>2, <3>3 DEF SumFunction
    <3>5. \A i \in 1 .. Len(fills) : fills[i] = qty
      BY <2>3
    <3> QED
      BY <1>2, <3>1, <3>4, <3>5 DEF FillFits
  <2> QED
    BY <2>1, <2>2, <2>3
<1> QED
  BY <1>1, <1>2

\* An order of the list is elsewhere and has so much left.
Changed(list, id, at, left, list2) ==
    /\ list2 \in Seq(OrderT) /\ Len(list2) = Len(list)
    /\ \A i \in 1 .. Len(list) : i # id => list2[i] = list[i]
    /\ list2[id].side = list[id].side /\ list2[id].qty = list[id].qty
    /\ list2[id].sent = list[id].sent
    /\ list2[id].at = at /\ list2[id].left = left

LEMMA ChangeOrder ==
    ASSUME NEW list \in Seq(OrderT), NEW id \in 1 .. Len(list),
           NEW at \in {"sent", "resting", "over", "rejected"}, NEW left \in Int,
           NEW list2, list2 = [list EXCEPT ![id] = [@ EXCEPT !.at = at, !.left = left]]
    PROVE  Changed(list, id, at, left, list2)
<1> DEFINE o == list[id]
           o2 == [o EXCEPT !.at = at, !.left = left]
<1>1. o \in OrderT
  BY SeqFacts
<1> HIDE DEF o
<1>2. /\ o2.side = o.side /\ o2.qty = o.qty /\ o2.sent = o.sent /\ o2.left = left /\ o2.at = at
      /\ o2 \in OrderT
  BY <1>1 DEF OrderT
<1>3. list2 = [list EXCEPT ![id] = o2]
  BY DEF o
<1> HIDE DEF o2
<1>4. /\ [list EXCEPT ![id] = o2] \in Seq(OrderT)
      /\ Len([list EXCEPT ![id] = o2]) = Len(list)
      /\ \A i \in 1 .. Len(list) : [list EXCEPT ![id] = o2][i] = IF i = id THEN o2 ELSE list[i]
  BY <1>2, ExceptSeq
<1>5. /\ list2 \in Seq(OrderT) /\ Len(list2) = Len(list) /\ list2[id] = o2
      /\ \A i \in 1 .. Len(list) : i # id => list2[i] = list[i]
  BY <1>3, <1>4
<1> QED
  BY <1>2, <1>5 DEF Changed, o

LEMMA ToldNothing ==
    /\ << >> \in Seq(ReportT)
    /\ \A id : Told(<< >>, id) = 0
<1>1. << >> \in Seq(ReportT) /\ Len(<< >>) = 0
  OBVIOUS
<1>2. ASSUME NEW id PROVE Told(<< >>, id) = 0
  <2>1. DOMAIN Amounts(<< >>, id) = {}
    BY DEF Amounts
  <2> QED
    BY <2>1, SumEmpty DEF Told, SumFunction
<1> QED
  BY <1>1, <1>2

LEMMA OrderMatched ==
    ASSUME NEW list, NEW rs, OrdersInv(list, rs), NEW id \in 1 .. Len(list), list[id].at = "sent",
           NEW fills \in FillsOf(list[id].qty), NEW t \in Nat,
           NEW list2, Changed(list, id, "over", list[id].left - SumFunction(fills), list2),
           NEW rs2, rs2 = rs \o Reports(fills, id, t)
    PROVE  OrdersInv(list2, rs2) /\ VenueEffect(list, rs, list2, rs2)
<1> DEFINE S == SumFunction(fills)
           more == Reports(fills, id, t)
<1>1. /\ Len(list) \in Nat /\ list[id] \in OrderT /\ Told(rs, id) \in Int /\ rs \in Seq(ReportT)
  BY OrdersFacts DEF OrdersInv
<1>2. SoundOrder(list[id], Told(rs, id))
  BY DEF OrdersInv
<1>3. /\ list[id].qty \in Int /\ list[id].qty # 0 /\ list[id].left = list[id].qty
      /\ Told(rs, id) = 0
  BY <1>1, <1>2 DEF SoundOrder, OrderT
<1>4. /\ fills \in Seq(Int) /\ \A i \in 1 .. Len(fills) : FillFits(fills[i], list[id].qty)
      /\ S \in Int
      /\ IF list[id].qty > 0 THEN 0 <= S /\ S <= list[id].qty ELSE S \in {0, list[id].qty}
  BY <1>3, FillsFacts
<1>5. id \in Nat
  BY <1>1
<1>6. /\ more \in Seq(ReportT) /\ Len(more) = Len(fills)
      /\ \A i \in 1 .. Len(fills) : more[i] = [id |-> id, qty |-> fills[i], ts |-> t]
      /\ Told(more, id) = S /\ \A i : i # id => Told(more, i) = 0
  BY <1>4, <1>5, ToldFills
<1>7. rs2 = rs \o more
  OBVIOUS
<1> HIDE DEF S, more
<1>8. \A i \in 1 .. Len(more) : more[i].id = id /\ FillFits(more[i].qty, list[id].qty)
  <2> SUFFICES ASSUME NEW i \in 1 .. Len(fills)
      PROVE more[i].id = id /\ FillFits(more[i].qty, list[id].qty)
    BY <1>6
  <2>1. more[i] = [id |-> id, qty |-> fills[i], ts |-> t] /\ FillFits(fills[i], list[id].qty)
    BY <1>4, <1>6
  <2> QED
    BY <2>1
<1>9. /\ list2 \in Seq(OrderT) /\ Len(list2) = Len(list)
      /\ \A i \in 1 .. Len(list) : i # id => list2[i] = list[i]
      /\ list2[id].side = list[id].side /\ list2[id].qty = list[id].qty
      /\ list2[id].sent = list[id].sent
      /\ list2[id].at = "over" /\ list2[id].left = list[id].left - S
  BY DEF Changed, S
<1>10. SoundOrder(list2[id], Told(rs, id) + S)
  BY <1>3, <1>4, <1>9 DEF SoundOrder
<1>11. list[id].qty > 0 => Out(list2, rs2, id) <= Out(list, rs, id)
  <2>1. Told(rs2, id) = Told(rs, id) + Told(more, id)
    BY <1>1, <1>6, <1>7, ToldConcat
  <2> QED
    BY <1>3, <1>4, <1>6, <1>9, <2>1 DEF Out
<1> QED
  BY <1>4, <1>6, <1>7, <1>8, <1>9, <1>10, <1>11, OneOrderChanges

LEMMA OrderRested ==
    ASSUME NEW list, NEW rs, OrdersInv(list, rs), NEW id \in 1 .. Len(list), list[id].at = "sent",
           list[id].qty > 0, NEW at \in {"resting", "rejected"},
           NEW list2, Changed(list, id, at, list[id].left, list2)
    PROVE  OrdersInv(list2, rs) /\ VenueEffect(list, rs, list2, rs)
<1> DEFINE none == << >>
<1>1. /\ list[id] \in OrderT /\ Told(rs, id) \in Int /\ rs \in Seq(ReportT)
  BY OrdersFacts DEF OrdersInv
<1>2. SoundOrder(list[id], Told(rs, id))
  BY DEF OrdersInv
<1>3. /\ list[id].qty \in Int /\ list[id].left = list[id].qty /\ Told(rs, id) = 0
  BY <1>1, <1>2 DEF SoundOrder, OrderT
<1>4. /\ list2 \in Seq(OrderT) /\ Len(list2) = Len(list)
      /\ \A i \in 1 .. Len(list) : i # id => list2[i] = list[i]
      /\ list2[id].side = list[id].side /\ list2[id].qty = list[id].qty
      /\ list2[id].sent = list[id].sent
      /\ list2[id].at = at /\ list2[id].left = list[id].left - 0
  BY <1>3 DEF Changed
<1>5. SoundOrder(list2[id], Told(rs, id) + 0)
  BY <1>3, <1>4 DEF SoundOrder
<1>6. Out(list2, rs, id) <= Out(list, rs, id)
  BY <1>3, <1>4 DEF Out
<1>7. none \in Seq(ReportT) /\ Told(none, id) = 0 /\ (\A i : i # id => Told(none, i) = 0)
       /\ rs = rs \o none /\ Len(none) = 0
  BY <1>1, ToldNothing, ConcatEmptySeq
<1> HIDE DEF none
<1>8. \A i \in 1 .. Len(none) : none[i].id = id /\ FillFits(none[i].qty, list[id].qty)
  BY <1>7
<1>9. ASSUME NEW rs2, rs2 = rs PROVE OrdersInv(list2, rs2) /\ VenueEffect(list, rs, list2, rs2)
  <2>1. rs2 = rs \o none /\ Out(list2, rs2, id) <= Out(list, rs, id)
    BY <1>6, <1>7, <1>9
  <2>2. 0 \in Int
    OBVIOUS
  <2> QED
    BY <1>4, <1>5, <1>7, <1>8, <2>1, <2>2, OneOrderChanges
<1> QED
  BY <1>9

LEMMA OrderTraded ==
    ASSUME NEW list, NEW rs, OrdersInv(list, rs), NEW id \in 1 .. Len(list), list[id].at = "resting",
           NEW q \in 1 .. list[id].left, NEW r \in ReportT, r.id = id, r.qty = q,
           NEW list2,
           Changed(list, id, IF q = list[id].left THEN "over" ELSE "resting", list[id].left - q, list2),
           NEW rs2, rs2 = Append(rs, r)
    PROVE  OrdersInv(list2, rs2) /\ VenueEffect(list, rs, list2, rs2)
<1> DEFINE more == << r >>
<1>1. /\ list[id] \in OrderT /\ Told(rs, id) \in Int /\ rs \in Seq(ReportT)
  BY OrdersFacts DEF OrdersInv
<1>2. SoundOrder(list[id], Told(rs, id))
  BY DEF OrdersInv
<1>3. /\ list[id].qty \in Int /\ list[id].qty > 0 /\ list[id].left \in Int
      /\ list[id].left + Told(rs, id) <= list[id].qty
      /\ Told(rs, id) >= 0 /\ q \in Int /\ q > 0 /\ q <= list[id].left
  BY <1>1, <1>2 DEF SoundOrder, OrderT
<1>4. /\ more \in Seq(ReportT) /\ Len(more) = 1 /\ more[1] = r
      /\ \A i : Told(more, i) = IF r.id = i THEN r.qty ELSE 0
  BY ToldOne
<1>5. rs2 = rs \o more
  BY <1>1
<1> HIDE DEF more
<1>6. Told(more, id) = q /\ \A i : i # id => Told(more, i) = 0
  BY <1>4
<1>7. /\ list2 \in Seq(OrderT) /\ Len(list2) = Len(list)
      /\ \A i \in 1 .. Len(list) : i # id => list2[i] = list[i]
      /\ list2[id].side = list[id].side /\ list2[id].qty = list[id].qty
      /\ list2[id].sent = list[id].sent
      /\ list2[id].at = (IF q = list[id].left THEN "over" ELSE "resting")
      /\ list2[id].left = list[id].left - q
  BY DEF Changed
<1>8. SoundOrder(list2[id], Told(rs, id) + q)
  BY <1>1, <1>3, <1>7 DEF SoundOrder
<1>9. Out(list2, rs2, id) <= Out(list, rs, id)
  <2>1. Told(rs2, id) = Told(rs, id) + Told(more, id)
    BY <1>1, <1>4, <1>5, ToldConcat
  <2> QED
    BY <1>1, <1>3, <1>6, <1>7, <2>1 DEF Out
<1>10. \A i \in 1 .. Len(more) : more[i].id = id /\ FillFits(more[i].qty, list[id].qty)
  BY <1>3, <1>4 DEF FillFits
<1> QED
  BY <1>3, <1>4, <1>5, <1>6, <1>7, <1>8, <1>9, <1>10, OneOrderChanges

\* The reports of an order add up to its sign.
LEMMA ToldSign ==
    ASSUME NEW rs \in Seq(ReportT), NEW id, NEW qty \in Int,
           \A i \in 1 .. Len(rs) : rs[i].id = id => FillFits(rs[i].qty, qty)
    PROVE  /\ qty > 0 => Told(rs, id) >= 0
           /\ qty < 0 => Told(rs, id) <= 0
<1> DEFINE a == Amounts(rs, id)
<1>1. /\ a \in Seq(Int) /\ DOMAIN a = 1 .. Len(rs)
      /\ \A i \in 1 .. Len(rs) : a[i] = IF rs[i].id = id THEN rs[i].qty ELSE 0
  BY AmountsFacts
<1>2. Told(rs, id) = SumFunctionOnSet(a, DOMAIN a)
  BY DEF Told, SumFunction
<1> HIDE DEF a
<1>3. IsFiniteSet(DOMAIN a) /\ \A i \in DOMAIN a : a[i] \in Int
  BY <1>1, SeqFacts
<1>4. ASSUME qty > 0 PROVE Told(rs, id) >= 0
  <2>1. \A i \in DOMAIN a : a[i] \in Nat
    BY <1>1, <1>3, <1>4 DEF FillFits
  <2>2. SumFunctionOnSet(a, DOMAIN a) \in Nat
    BY <1>3, <2>1, SumNat
  <2> QED
    BY <1>2, <2>2
<1>5. ASSUME qty < 0 PROVE Told(rs, id) <= 0
  <2>1. \A i \in DOMAIN a : a[i] \in Int /\ a[i] <= 0
    BY <1>1, <1>3, <1>5 DEF FillFits
  <2>2. SumFunctionOnSet(a, DOMAIN a) <= 0
    BY <1>3, <2>1, SumNegative
  <2> QED
    BY <1>2, <2>2
<1> QED
  BY <1>4, <1>5

\* A fill is told of: what remains to be told of its order.
LEMMA SoundWhenTold ==
    ASSUME NEW o, o.qty \in Int, o.left \in Int, NEW u, SoundOrder(o, u),
           NEW q \in Int, FillFits(q, o.qty), NEW v, v = u - q,
           o.qty > 0 => v >= 0, o.qty < 0 => v <= 0
    PROVE  SoundOrder(o, v)
<1> DEFINE qty == o.qty
           left == o.left
<1>1. qty \in Int /\ left \in Int /\ qty # 0 /\ u \in Int /\ v \in Int
  BY DEF SoundOrder
<1>2. (o.at = "sent" => left = qty /\ u = 0) /\ (o.at = "resting" => qty > 0)
  BY DEF SoundOrder
<1>3. CASE qty > 0
  <2>1. left >= 0 /\ left + u <= qty
    BY <1>3 DEF SoundOrder
  <2>2. q > 0 /\ v >= 0
    BY <1>3 DEF FillFits
  <2> HIDE DEF qty, left
  <2>3. left + v <= qty /\ o.at # "sent"
    BY <1>1, <1>2, <2>1, <2>2
  <2> QED
    BY <1>1, <1>2, <1>3, <2>1, <2>2, <2>3 DEF SoundOrder, qty, left
<1>4. CASE ~ (qty > 0)
  <2>1. left \in {0, qty} /\ u \in {0, qty} /\ left + u \in {0, qty}
    BY <1>1, <1>4 DEF SoundOrder
  <2>2. qty < 0 /\ q = qty /\ v <= 0
    BY <1>1, <1>4 DEF FillFits
  <2> HIDE DEF qty, left
  <2>3. u = qty /\ v = 0 /\ left = 0 /\ o.at # "sent" /\ o.at # "resting"
    BY <1>1, <1>2, <2>1, <2>2
  <2>4. {left, v, left + v} \subseteq {0, qty}
    BY <2>3
  <2> QED
    BY <1>1, <1>4, <2>3, <2>4 DEF SoundOrder, qty, left
<1> QED
  BY <1>3, <1>4

LEMMA ToldMoves ==
    ASSUME NEW list, NEW id, list[id].qty \in Int, list[id].left \in Int,
           NEW rs, Told(rs, id) \in Int, NEW q \in Int,
           NEW rs2, Told(rs2, id) = Told(rs, id) - q
    PROVE  /\ Rep(list, rs2, id) = Rep(list, rs, id) + q
           /\ Out(list, rs2, id) = Out(list, rs, id) - q
BY DEF Rep, Out

LEMMA OrderReported ==
    ASSUME NEW list, NEW rs, OrdersInv(list, rs), NEW k \in 1 .. Len(rs),
           NEW rs2, rs2 = RemoveAt(rs, k), NEW id, id = rs[k].id, NEW q, q = rs[k].qty
    PROVE  /\ OrdersInv(list, rs2)
           /\ id \in 1 .. Len(list) /\ q \in Int /\ FillFits(q, list[id].qty)
           /\ Rep(list, rs2, id) = Rep(list, rs, id) + q
           /\ Out(list, rs2, id) = Out(list, rs, id) - q
           /\ \A i \in 1 .. Len(list) : i # id =>
                 Rep(list, rs2, i) = Rep(list, rs, i) /\ Out(list, rs2, i) = Out(list, rs, i)
<1>1. /\ list \in Seq(OrderT) /\ rs \in Seq(ReportT) /\ Len(list) \in Nat /\ Len(rs) \in Nat
      /\ rs[k] \in ReportT
      /\ \A i \in 1 .. Len(list) : list[i] \in OrderT /\ Told(rs, i) \in Int
  BY OrdersFacts DEF OrdersInv
<1>2. id \in 1 .. Len(list) /\ q \in Int /\ FillFits(q, list[id].qty)
  BY <1>1 DEF OrdersInv, ReportT
<1>3. /\ rs2 \in Seq(ReportT) /\ Len(rs2) = Len(rs) - 1
      /\ \A i \in 1 .. Len(rs) - 1 : rs2[i] = IF i < k THEN rs[i] ELSE rs[i + 1]
      /\ \A i : Told(rs, i) = Told(rs2, i) + (IF rs[k].id = i THEN rs[k].qty ELSE 0)
  BY <1>1, ToldRemove
<1>4. \A i : Told(rs2, i) \in Int
  BY <1>3, ToldType
<1>5. \A i \in 1 .. Len(list) : i # id => Told(rs2, i) = Told(rs, i)
  BY <1>3, <1>4
<1>6. Told(rs2, id) = Told(rs, id) - q
  BY <1>2, <1>3, <1>4
<1>7. \A i \in 1 .. Len(rs2) : rs2[i].id \in 1 .. Len(list) /\ FillFits(rs2[i].qty, list[rs2[i].id].qty)
  <2> SUFFICES ASSUME NEW i \in 1 .. Len(rs) - 1
      PROVE rs2[i].id \in 1 .. Len(list) /\ FillFits(rs2[i].qty, list[rs2[i].id].qty)
    BY <1>3
  <2>1. PICK j \in 1 .. Len(rs) : rs2[i] = rs[j]
    <3>1. i \in 1 .. Len(rs) /\ i + 1 \in 1 .. Len(rs)
      BY <1>1
    <3> QED
      BY <1>3, <3>1
  <2> QED
    BY <2>1 DEF OrdersInv
<1>8. SoundOrder(list[id], Told(rs, id)) /\ list[id].qty \in Int /\ list[id].left \in Int
  BY <1>1, <1>2 DEF OrdersInv, OrderT
<1>9. /\ list[id].qty > 0 => Told(rs2, id) >= 0
      /\ list[id].qty < 0 => Told(rs2, id) <= 0
  <2>1. \A i \in 1 .. Len(rs2) : rs2[i].id = id => FillFits(rs2[i].qty, list[id].qty)
    BY <1>7
  <2>2. rs2 \in Seq(ReportT) /\ list[id].qty \in Int
    BY <1>3, <1>8
  <2> QED
    BY <2>1, <2>2, ToldSign
<1>10. SoundOrder(list[id], Told(rs2, id))
  BY <1>2, <1>4, <1>6, <1>8, <1>9, SoundWhenTold
<1>11. \A i \in 1 .. Len(list) : SoundOrder(list[i], Told(rs2, i))
  BY <1>5, <1>10 DEF OrdersInv
<1>12. OrdersInv(list, rs2)
  BY <1>1, <1>3, <1>7, <1>11 DEF OrdersInv
<1>13. Rep(list, rs2, id) = Rep(list, rs, id) + q /\ Out(list, rs2, id) = Out(list, rs, id) - q
  <2>1. Told(rs, id) \in Int /\ list[id].qty \in Int /\ list[id].left \in Int
    BY <1>1, <1>2, <1>8
  <2> QED
    BY <1>2, <1>6, <2>1, ToldMoves
<1>14. \A i \in 1 .. Len(list) : i # id =>
          Rep(list, rs2, i) = Rep(list, rs, i) /\ Out(list, rs2, i) = Out(list, rs, i)
  BY <1>5 DEF Rep, Out
<1> QED
  BY <1>2, <1>12, <1>13, <1>14

Fresh(o) == o \in OrderT /\ o.qty # 0 /\ o.left = o.qty /\ o.at = "sent"

\* New orders behind those of the list.
SendEffect(list, rs, new, n, list2) ==
    /\ Len(list2) = Len(list) + n
    /\ \A i \in 1 .. Len(list) : /\ list2[i] = list[i]
                                 /\ Rep(list2, rs, i) = Rep(list, rs, i)
                                 /\ Out(list2, rs, i) = Out(list, rs, i)
    /\ \A i \in 1 .. n : /\ list2[Len(list) + i] = new[i] /\ Fresh(new[i])
                         /\ Rep(list2, rs, Len(list) + i) = 0
                         /\ Out(list2, rs, Len(list) + i) = new[i].qty

LEMMA OrdersSent ==
    ASSUME NEW list, NEW rs, OrdersInv(list, rs), NEW new, NEW n \in Nat,
           new \in Seq(OrderT), Len(new) = n, \A i \in 1 .. n : Fresh(new[i]),
           NEW list2, list2 = list \o new
    PROVE  OrdersInv(list2, rs) /\ SendEffect(list, rs, new, n, list2)
<1>1. /\ list \in Seq(OrderT) /\ rs \in Seq(ReportT) /\ Len(list) \in Nat /\ Len(rs) \in Nat
  BY OrdersFacts DEF OrdersInv
<1>2. /\ list2 \in Seq(OrderT) /\ Len(list2) = Len(list) + n
      /\ \A i \in 1 .. Len(list) + n : list2[i] = IF i <= Len(list) THEN list[i] ELSE new[i - Len(list)]
  BY <1>1, ConcatProperties
<1>3. \A i \in 1 .. Len(list) : list2[i] = list[i]
  BY <1>1, <1>2
<1>4. \A i \in 1 .. n : list2[Len(list) + i] = new[i]
  <2> SUFFICES ASSUME NEW i \in 1 .. n PROVE list2[Len(list) + i] = new[i]
    OBVIOUS
  <2>1. Len(list) + i \in 1 .. Len(list) + n /\ ~ (Len(list) + i <= Len(list)) /\ (Len(list) + i) - Len(list) = i
    BY <1>1
  <2> QED
    BY <1>2, <2>1
<1>5. \A i \in 1 .. Len(rs) : rs[i].id \in 1 .. Len(list) /\ FillFits(rs[i].qty, list[rs[i].id].qty)
  BY DEF OrdersInv
<1>6. ASSUME NEW i \in 1 .. n PROVE Told(rs, Len(list) + i) = 0
  <2> DEFINE id == Len(list) + i
             a == Amounts(rs, id)
  <2>1. /\ a \in Seq(Int) /\ DOMAIN a = 1 .. Len(rs)
        /\ \A j \in 1 .. Len(rs) : a[j] = IF rs[j].id = id THEN rs[j].qty ELSE 0
    BY <1>1, AmountsFacts
  <2>2. id \notin 1 .. Len(list)
    BY <1>1
  <2>3. Told(rs, id) = SumFunctionOnSet(a, DOMAIN a)
    BY DEF Told, SumFunction
  <2> HIDE DEF id, a
  <2>4. \A j \in DOMAIN a : a[j] = 0
    BY <1>5, <2>1, <2>2
  <2>5. IsFiniteSet(DOMAIN a)
    BY <2>1, SeqFacts
  <2>6. Told(rs, id) = 0
    BY <2>3, <2>4, <2>5, SumZero
  <2> QED
    BY <2>6 DEF id
<1>7. ASSUME NEW i \in 1 .. n
      PROVE  /\ Rep(list2, rs, Len(list) + i) = 0 /\ Out(list2, rs, Len(list) + i) = new[i].qty
             /\ SoundOrder(list2[Len(list) + i], Told(rs, Len(list) + i))
  <2>1. list2[Len(list) + i] = new[i] /\ Told(rs, Len(list) + i) = 0
    BY <1>4, <1>6
  <2>2. Fresh(new[i]) /\ new[i].qty \in Int
    BY DEF Fresh, OrderT
  <2> QED
    BY <2>1, <2>2 DEF Fresh, SoundOrder, Rep, Out
<1>8. \A id \in 1 .. Len(list2) : SoundOrder(list2[id], Told(rs, id))
  <2> SUFFICES ASSUME NEW id \in 1 .. Len(list) + n PROVE SoundOrder(list2[id], Told(rs, id))
    BY <1>2
  <2>1. CASE id \in 1 .. Len(list)
    BY <1>3, <2>1 DEF OrdersInv
  <2>2. CASE id \notin 1 .. Len(list)
    <3>1. id - Len(list) \in 1 .. n /\ Len(list) + (id - Len(list)) = id
      BY <1>1, <2>2
    <3> QED
      BY <1>7, <3>1
  <2> QED
    BY <2>1, <2>2
<1>9. \A i \in 1 .. Len(rs) : rs[i].id \in 1 .. Len(list2) /\ FillFits(rs[i].qty, list2[rs[i].id].qty)
  <2> SUFFICES ASSUME NEW i \in 1 .. Len(rs)
      PROVE rs[i].id \in 1 .. Len(list2) /\ FillFits(rs[i].qty, list2[rs[i].id].qty)
    OBVIOUS
  <2>1. rs[i].id \in 1 .. Len(list) /\ FillFits(rs[i].qty, list[rs[i].id].qty)
    BY <1>5
  <2> QED
    BY <1>1, <1>2, <1>3, <2>1
<1>10. \A i \in 1 .. Len(list) : Rep(list2, rs, i) = Rep(list, rs, i) /\ Out(list2, rs, i) = Out(list, rs, i)
  BY <1>3 DEF Rep, Out
<1> QED
  <2>1. OrdersInv(list2, rs)
    BY <1>1, <1>2, <1>8, <1>9 DEF OrdersInv
  <2>2. SendEffect(list, rs, new, n, list2)
    BY <1>2, <1>3, <1>4, <1>7, <1>10 DEF SendEffect
  <2> QED
    BY <2>1, <2>2

-----------------------------------------------------------------------------
(* Sums over orders                                                        *)

Wanted(o) == IF o.qty > 0 THEN o.qty ELSE 0
SideOf(list, side) == { id \in DOMAIN list : list[id].side = side }

WantedOf(list) == [id \in DOMAIN list |-> Wanted(list[id])]
RepOf(list, rs) == [id \in DOMAIN list |-> Rep(list, rs, id)]
OutOf(list, rs) == [id \in DOMAIN list |-> Out(list, rs, id)]

SentSum(list) == SumFunctionOnSet(WantedOf(list), DOMAIN list)
RepSum(list, rs) == SumFunctionOnSet(RepOf(list, rs), DOMAIN list)
OutSum(list, rs, side) == SumFunctionOnSet(OutOf(list, rs), SideOf(list, side))
OutAll(list, rs) == SumFunctionOnSet(OutOf(list, rs), DOMAIN list)

LEMMA SumsFacts ==
    ASSUME NEW list, NEW rs, OrdersInv(list, rs)
    PROVE  /\ Len(list) \in Nat /\ DOMAIN list = 1 .. Len(list) /\ IsFiniteSet(1 .. Len(list))
           /\ \A side : IsFiniteSet(SideOf(list, side)) /\ SideOf(list, side) \subseteq 1 .. Len(list)
           /\ \A id \in 1 .. Len(list) :
                 /\ WantedOf(list)[id] = Wanted(list[id]) /\ WantedOf(list)[id] \in Nat
                 /\ RepOf(list, rs)[id] = Rep(list, rs, id) /\ RepOf(list, rs)[id] \in Int
                 /\ OutOf(list, rs)[id] = Out(list, rs, id) /\ OutOf(list, rs)[id] \in Int
           /\ SentSum(list) \in Nat /\ RepSum(list, rs) \in Int /\ OutAll(list, rs) \in Int
           /\ \A side : OutSum(list, rs, side) \in Int
<1>1. /\ Len(list) \in Nat /\ DOMAIN list = 1 .. Len(list)
      /\ \A id \in 1 .. Len(list) :
            list[id] \in OrderT /\ Rep(list, rs, id) \in Int /\ Out(list, rs, id) \in Int
  BY OrdersFacts
<1>2. IsFiniteSet(1 .. Len(list))
  BY <1>1, FS_Interval
<1>3. \A side : IsFiniteSet(SideOf(list, side)) /\ SideOf(list, side) \subseteq 1 .. Len(list)
  <2> SUFFICES ASSUME NEW side
      PROVE IsFiniteSet(SideOf(list, side)) /\ SideOf(list, side) \subseteq 1 .. Len(list)
    OBVIOUS
  <2>1. SideOf(list, side) \subseteq 1 .. Len(list)
    BY <1>1 DEF SideOf
  <2> QED
    BY <1>2, <2>1, FS_Subset
<1>4. \A id \in 1 .. Len(list) :
         /\ WantedOf(list)[id] = Wanted(list[id]) /\ WantedOf(list)[id] \in Nat
         /\ RepOf(list, rs)[id] = Rep(list, rs, id) /\ RepOf(list, rs)[id] \in Int
         /\ OutOf(list, rs)[id] = Out(list, rs, id) /\ OutOf(list, rs)[id] \in Int
  BY <1>1 DEF WantedOf, RepOf, OutOf, Wanted, OrderT
<1>5. SentSum(list) \in Nat
  BY <1>1, <1>2, <1>4, SumNat DEF SentSum
<1>6. RepSum(list, rs) \in Int
  BY <1>1, <1>2, <1>4, SumType DEF RepSum
<1>7. OutAll(list, rs) \in Int
  BY <1>1, <1>2, <1>4, SumType DEF OutAll
<1>8. ASSUME NEW side PROVE OutSum(list, rs, side) \in Int
  <2>1. \A id \in SideOf(list, side) : OutOf(list, rs)[id] \in Int
    BY <1>3, <1>4
  <2>2. IsFiniteSet(SideOf(list, side))
    BY <1>3
  <2> QED
    BY <2>1, <2>2, SumType DEF OutSum
<1> QED
  BY <1>1, <1>2, <1>3, <1>4, <1>5, <1>6, <1>7, <1>8

\* What is not reported yet of orders for at least one unit.
AllPositive(list) == \A id \in 1 .. Len(list) : list[id].qty > 0

LEMMA PositiveSums ==
    ASSUME NEW list, NEW rs, OrdersInv(list, rs), AllPositive(list)
    PROVE  /\ RepSum(list, rs) + OutAll(list, rs) <= SentSum(list)
           /\ RepSum(list, rs) >= 0 /\ OutAll(list, rs) >= 0
           /\ \A id \in 1 .. Len(list) : Out(list, rs, id) <= OutAll(list, rs)
           /\ \A side : /\ OutSum(list, rs, side) >= 0
                        /\ \A id \in 1 .. Len(list) : list[id].side = side =>
                              Out(list, rs, id) <= OutSum(list, rs, side)
<1> DEFINE n == Len(list)
           f == RepOf(list, rs)
           g == OutOf(list, rs)
           w == WantedOf(list)
           h == [id \in 1 .. n |-> f[id] + g[id]]
<1>1. /\ n \in Nat /\ DOMAIN list = 1 .. n /\ IsFiniteSet(1 .. n)
      /\ \A side : IsFiniteSet(SideOf(list, side)) /\ SideOf(list, side) \subseteq 1 .. n
      /\ \A id \in 1 .. n : /\ w[id] = Wanted(list[id]) /\ w[id] \in Nat
                            /\ f[id] = Rep(list, rs, id) /\ f[id] \in Int
                            /\ g[id] = Out(list, rs, id) /\ g[id] \in Int
      /\ SentSum(list) \in Nat /\ RepSum(list, rs) \in Int /\ OutAll(list, rs) \in Int
  BY SumsFacts
<1>2. /\ RepSum(list, rs) = SumFunctionOnSet(f, 1 .. n)
      /\ OutAll(list, rs) = SumFunctionOnSet(g, 1 .. n)
      /\ SentSum(list) = SumFunctionOnSet(w, 1 .. n)
      /\ \A side : OutSum(list, rs, side) = SumFunctionOnSet(g, SideOf(list, side))
  BY <1>1 DEF RepSum, OutAll, SentSum, OutSum
<1>3. \A id \in 1 .. n : /\ Rep(list, rs, id) >= 0 /\ Out(list, rs, id) >= 0
                         /\ Rep(list, rs, id) + Out(list, rs, id) <= list[id].qty
                         /\ Wanted(list[id]) = list[id].qty
  <2> SUFFICES ASSUME NEW id \in 1 .. n
      PROVE /\ Rep(list, rs, id) >= 0 /\ Out(list, rs, id) >= 0
            /\ Rep(list, rs, id) + Out(list, rs, id) <= list[id].qty
            /\ Wanted(list[id]) = list[id].qty
    OBVIOUS
  <2>1. list[id].qty > 0
    BY DEF AllPositive
  <2>2. /\ Rep(list, rs, id) \in Int /\ Out(list, rs, id) \in Int /\ Told(rs, id) \in Int
        /\ Rep(list, rs, id) >= 0 /\ Told(rs, id) >= 0 /\ Out(list, rs, id) >= Told(rs, id)
        /\ Rep(list, rs, id) + Out(list, rs, id) <= list[id].qty
    BY <2>1, OrdersFacts
  <2> QED
    BY <2>1, <2>2 DEF Wanted
<1> HIDE DEF n, f, g, w
<1>4. \A id \in 1 .. n : /\ f[id] \in Nat /\ g[id] \in Nat
                         /\ h[id] = f[id] + g[id] /\ h[id] \in Int /\ h[id] <= w[id]
  <2> SUFFICES ASSUME NEW id \in 1 .. n
      PROVE /\ f[id] \in Nat /\ g[id] \in Nat
            /\ h[id] = f[id] + g[id] /\ h[id] \in Int /\ h[id] <= w[id]
    OBVIOUS
  <2>1. /\ f[id] \in Int /\ g[id] \in Int /\ w[id] \in Int
        /\ f[id] >= 0 /\ g[id] >= 0 /\ f[id] + g[id] <= w[id]
    <3>1. /\ w[id] = Wanted(list[id]) /\ w[id] \in Nat
          /\ f[id] = Rep(list, rs, id) /\ f[id] \in Int
          /\ g[id] = Out(list, rs, id) /\ g[id] \in Int
      BY <1>1
    <3>2. /\ Rep(list, rs, id) >= 0 /\ Out(list, rs, id) >= 0
          /\ Rep(list, rs, id) + Out(list, rs, id) <= Wanted(list[id])
      BY <1>3
    <3> QED
      BY <3>1, <3>2
  <2>2. h[id] = f[id] + g[id]
    OBVIOUS
  <2> HIDE DEF h
  <2> QED
    BY <2>1, <2>2
<1> HIDE DEF h
<1>5. SumFunctionOnSet(h, 1 .. n) = SumFunctionOnSet(f, 1 .. n) + SumFunctionOnSet(g, 1 .. n)
  <2>1. \A id \in 1 .. n : f[id] \in Int /\ g[id] \in Int /\ h[id] = f[id] + g[id]
    BY <1>4
  <2> QED
    BY <1>1, <2>1, SumPlus
<1>6. SumFunctionOnSet(h, 1 .. n) <= SumFunctionOnSet(w, 1 .. n)
  <2>1. \A id \in 1 .. n : h[id] \in Int /\ w[id] \in Int /\ h[id] <= w[id]
    BY <1>1, <1>4
  <2> QED
    BY <1>1, <2>1, SumAtMost
<1>7. SumFunctionOnSet(f, 1 .. n) \in Nat /\ SumFunctionOnSet(g, 1 .. n) \in Nat
  <2>1. SumFunctionOnSet(f, 1 .. n) \in Nat
    BY <1>1, <1>4, SumNat
  <2>2. SumFunctionOnSet(g, 1 .. n) \in Nat
    BY <1>1, <1>4, SumNat
  <2> QED
    BY <2>1, <2>2
<1>8. ASSUME NEW S, S \subseteq 1 .. n, IsFiniteSet(S)
      PROVE  /\ SumFunctionOnSet(g, S) >= 0
             /\ \A id \in S : g[id] <= SumFunctionOnSet(g, S)
  <2>1. \A id \in S : g[id] \in Nat /\ g[id] \in Int
    BY <1>4, <1>8
  <2>2. SumFunctionOnSet(g, S) \in Nat
    BY <1>8, <2>1, SumNat
  <2>3. ASSUME NEW id \in S PROVE g[id] <= SumFunctionOnSet(g, S)
    <3>1. SumFunctionOnSet(g, S) = g[id] + SumFunctionOnSet(g, S \ {id})
      BY <1>8, <2>1, SumRemove
    <3>2. SumFunctionOnSet(g, S \ {id}) \in Nat
      <4>1. IsFiniteSet(S \ {id})
        BY <1>8, FS_RemoveElement
      <4>2. \A x \in S \ {id} : g[x] \in Nat
        BY <2>1
      <4> QED
        BY <4>1, <4>2, SumNat
    <3> QED
      BY <2>1, <3>1, <3>2
  <2> QED
    BY <2>2, <2>3
<1>9. \A id \in 1 .. n : Out(list, rs, id) <= OutAll(list, rs)
  BY <1>1, <1>2, <1>8
<1>10. ASSUME NEW side
       PROVE  /\ OutSum(list, rs, side) >= 0
              /\ \A id \in 1 .. n : list[id].side = side => Out(list, rs, id) <= OutSum(list, rs, side)
  <2> DEFINE S == SideOf(list, side)
  <2>1. S \subseteq 1 .. n /\ IsFiniteSet(S) /\ \A id \in 1 .. n : list[id].side = side => id \in S
    BY <1>1 DEF SideOf
  <2>2. OutSum(list, rs, side) = SumFunctionOnSet(g, S)
    BY <1>2
  <2> HIDE DEF S
  <2>3. SumFunctionOnSet(g, S) >= 0 /\ \A id \in S : g[id] <= SumFunctionOnSet(g, S)
    BY <1>8, <2>1
  <2> QED
    BY <1>1, <2>1, <2>2, <2>3
<1> QED
  BY <1>1, <1>2, <1>5, <1>6, <1>7, <1>9, <1>10 DEF n

LEMMA VenueSums ==
    ASSUME NEW list, NEW rs, OrdersInv(list, rs), NEW list2, NEW rs2, OrdersInv(list2, rs2),
           VenueEffect(list, rs, list2, rs2)
    PROVE  /\ RepSum(list2, rs2) = RepSum(list, rs) /\ SentSum(list2) = SentSum(list)
           /\ AllPositive(list) =>
                 AllPositive(list2) /\ \A side : OutSum(list2, rs2, side) <= OutSum(list, rs, side)
<1> DEFINE n == Len(list)
<1>1. /\ n \in Nat /\ DOMAIN list = 1 .. n /\ IsFiniteSet(1 .. n)
      /\ \A side : IsFiniteSet(SideOf(list, side)) /\ SideOf(list, side) \subseteq 1 .. n
      /\ \A id \in 1 .. n : /\ WantedOf(list)[id] = Wanted(list[id]) /\ WantedOf(list)[id] \in Nat
                            /\ RepOf(list, rs)[id] = Rep(list, rs, id) /\ RepOf(list, rs)[id] \in Int
                            /\ OutOf(list, rs)[id] = Out(list, rs, id) /\ OutOf(list, rs)[id] \in Int
  BY SumsFacts
<1>2. /\ Len(list2) = n
      /\ \A i \in 1 .. n :
          /\ list2[i].side = list[i].side /\ list2[i].qty = list[i].qty
          /\ Rep(list2, rs2, i) = Rep(list, rs, i)
          /\ list[i].qty > 0 => Out(list2, rs2, i) <= Out(list, rs, i)
  BY DEF VenueEffect
<1>3. /\ DOMAIN list2 = 1 .. n
      /\ \A id \in 1 .. n : /\ WantedOf(list2)[id] = Wanted(list2[id])
                            /\ RepOf(list2, rs2)[id] = Rep(list2, rs2, id)
                            /\ OutOf(list2, rs2)[id] = Out(list2, rs2, id) /\ OutOf(list2, rs2)[id] \in Int
  BY <1>2, SumsFacts
<1> HIDE DEF n
<1>4. RepSum(list2, rs2) = RepSum(list, rs)
  <2>1. \A i \in 1 .. n : RepOf(list, rs)[i] \in Int /\ RepOf(list2, rs2)[i] = RepOf(list, rs)[i]
    BY <1>1, <1>2, <1>3
  <2>2. SumFunctionOnSet(RepOf(list2, rs2), 1 .. n) = SumFunctionOnSet(RepOf(list, rs), 1 .. n)
    BY <1>1, <2>1, SumEqual
  <2> QED
    BY <1>1, <1>3, <2>2 DEF RepSum
<1>5. SentSum(list2) = SentSum(list)
  <2>1. \A i \in 1 .. n : WantedOf(list)[i] \in Int /\ WantedOf(list2)[i] = WantedOf(list)[i]
    BY <1>1, <1>2, <1>3 DEF Wanted
  <2>2. SumFunctionOnSet(WantedOf(list2), 1 .. n) = SumFunctionOnSet(WantedOf(list), 1 .. n)
    BY <1>1, <2>1, SumEqual
  <2> QED
    BY <1>1, <1>3, <2>2 DEF SentSum
<1>6. ASSUME AllPositive(list), NEW side
      PROVE  OutSum(list2, rs2, side) <= OutSum(list, rs, side)
  <2> DEFINE S == SideOf(list, side)
  <2>1. S \subseteq 1 .. n /\ IsFiniteSet(S)
    BY <1>1
  <2>2. SideOf(list2, side) = S
    BY <1>1, <1>2, <1>3 DEF SideOf
  <2> HIDE DEF S
  <2>3. \A i \in S : /\ OutOf(list2, rs2)[i] \in Int /\ OutOf(list, rs)[i] \in Int
                     /\ OutOf(list2, rs2)[i] <= OutOf(list, rs)[i]
    <3> SUFFICES ASSUME NEW i \in S
        PROVE /\ OutOf(list2, rs2)[i] \in Int /\ OutOf(list, rs)[i] \in Int
              /\ OutOf(list2, rs2)[i] <= OutOf(list, rs)[i]
      OBVIOUS
    <3>1. i \in 1 .. n /\ list[i].qty > 0
      BY <1>6, <2>1 DEF AllPositive, n
    <3> QED
      BY <1>1, <1>2, <1>3, <3>1
  <2>4. SumFunctionOnSet(OutOf(list2, rs2), S) <= SumFunctionOnSet(OutOf(list, rs), S)
    BY <2>1, <2>3, SumAtMost
  <2> QED
    BY <2>2, <2>4 DEF OutSum, S
<1>7. AllPositive(list) => AllPositive(list2)
  BY <1>2 DEF AllPositive, n
<1> QED
  BY <1>4, <1>5, <1>6, <1>7

\* The report of so much of an order.
ReportEffect(list, rs, rs2, id, q) ==
    /\ id \in 1 .. Len(list) /\ q \in Int /\ FillFits(q, list[id].qty)
    /\ Rep(list, rs2, id) = Rep(list, rs, id) + q
    /\ Out(list, rs2, id) = Out(list, rs, id) - q
    /\ \A i \in 1 .. Len(list) : i # id =>
          Rep(list, rs2, i) = Rep(list, rs, i) /\ Out(list, rs2, i) = Out(list, rs, i)

LEMMA ReportSums ==
    ASSUME NEW list, NEW rs, OrdersInv(list, rs), NEW rs2, OrdersInv(list, rs2),
           NEW id, NEW q, ReportEffect(list, rs, rs2, id, q)
    PROVE  /\ RepSum(list, rs2) = RepSum(list, rs) + q
           /\ OutSum(list, rs2, list[id].side) = OutSum(list, rs, list[id].side) - q
           /\ \A side : side # list[id].side => OutSum(list, rs2, side) = OutSum(list, rs, side)
<1> DEFINE n == Len(list)
           f == RepOf(list, rs)
           f2 == RepOf(list, rs2)
           g == OutOf(list, rs)
           g2 == OutOf(list, rs2)
<1>1. /\ n \in Nat /\ DOMAIN list = 1 .. n /\ IsFiniteSet(1 .. n)
      /\ \A side : IsFiniteSet(SideOf(list, side)) /\ SideOf(list, side) \subseteq 1 .. n
      /\ \A i \in 1 .. n : /\ f[i] = Rep(list, rs, i) /\ f[i] \in Int
                           /\ g[i] = Out(list, rs, i) /\ g[i] \in Int
  BY SumsFacts
<1>2. \A i \in 1 .. n : /\ f2[i] = Rep(list, rs2, i) /\ f2[i] \in Int
                        /\ g2[i] = Out(list, rs2, i) /\ g2[i] \in Int
  BY SumsFacts
<1>3. /\ id \in 1 .. n /\ q \in Int
      /\ Rep(list, rs2, id) = Rep(list, rs, id) + q
      /\ Out(list, rs2, id) = Out(list, rs, id) - q
      /\ \A i \in 1 .. n : i # id =>
            Rep(list, rs2, i) = Rep(list, rs, i) /\ Out(list, rs2, i) = Out(list, rs, i)
  BY DEF ReportEffect
<1>4. /\ RepSum(list, rs) = SumFunctionOnSet(f, 1 .. n)
      /\ RepSum(list, rs2) = SumFunctionOnSet(f2, 1 .. n)
      /\ \A side : /\ OutSum(list, rs, side) = SumFunctionOnSet(g, SideOf(list, side))
                   /\ OutSum(list, rs2, side) = SumFunctionOnSet(g2, SideOf(list, side))
  BY <1>1 DEF RepSum, OutSum
<1> HIDE DEF n, f, f2, g, g2
<1>5. /\ f[id] \in Int /\ f2[id] = f[id] + q /\ g[id] \in Int /\ g2[id] = g[id] - q
      /\ f2[id] \in Int /\ g2[id] \in Int
      /\ \A i \in 1 .. n : i # id => f2[i] = f[i] /\ g2[i] = g[i]
  BY <1>1, <1>2, <1>3
<1>6. SumFunctionOnSet(f2, 1 .. n) = SumFunctionOnSet(f, 1 .. n) + q
  <2>1. SumFunctionOnSet(f2, 1 .. n) = SumFunctionOnSet(f, 1 .. n) - f[id] + f2[id]
    <3> DEFINE D == 1 .. n
    <3>1. \A i \in D : f[i] \in Int
      BY <1>1
    <3>2. \A i \in D : i # id => f2[i] = f[i]
      BY <1>5
    <3>3. IsFiniteSet(D) /\ id \in D /\ f2[id] \in Int
      BY <1>1, <1>3, <1>5
    <3> HIDE DEF D
    <3>4. SumFunctionOnSet(f2, D) = SumFunctionOnSet(f, D) - f[id] + f2[id]
      BY <3>1, <3>2, <3>3, SumUpdate
    <3> QED
      BY <3>4 DEF D
  <2>2. SumFunctionOnSet(f, 1 .. n) \in Int
    BY <1>1, SumType
  <2> QED
    BY <1>3, <1>5, <2>1, <2>2
<1>7. SumFunctionOnSet(g2, SideOf(list, list[id].side))
         = SumFunctionOnSet(g, SideOf(list, list[id].side)) - q
  <2> DEFINE S == SideOf(list, list[id].side)
  <2>1. S \subseteq 1 .. n /\ IsFiniteSet(S) /\ id \in S
    BY <1>1, <1>3 DEF SideOf
  <2> HIDE DEF S
  <2>2. \A i \in S : g[i] \in Int
    BY <1>1, <2>1
  <2>3. \A i \in S : i # id => g2[i] = g[i]
    BY <1>5, <2>1
  <2>4. SumFunctionOnSet(g2, S) = SumFunctionOnSet(g, S) - g[id] + g2[id]
    <3>1. IsFiniteSet(S) /\ id \in S /\ g2[id] \in Int
      BY <1>5, <2>1
    <3> QED
      BY <2>2, <2>3, <3>1, SumUpdate
  <2>5. SumFunctionOnSet(g, S) \in Int
    BY <2>1, <2>2, SumType
  <2> QED
    BY <1>3, <1>5, <2>4, <2>5 DEF S
<1>8. ASSUME NEW side, side # list[id].side
      PROVE  SumFunctionOnSet(g2, SideOf(list, side)) = SumFunctionOnSet(g, SideOf(list, side))
  <2> DEFINE S == SideOf(list, side)
  <2>1. S \subseteq 1 .. n /\ IsFiniteSet(S) /\ id \notin S
    BY <1>1, <1>3, <1>8 DEF SideOf
  <2> HIDE DEF S
  <2>2. \A i \in S : g[i] \in Int /\ g2[i] = g[i]
    BY <1>1, <1>5, <2>1
  <2>3. SumFunctionOnSet(g2, S) = SumFunctionOnSet(g, S)
    BY <2>1, <2>2, SumEqual
  <2> QED
    BY <2>3 DEF S
<1> QED
  BY <1>4, <1>6, <1>7, <1>8

\* New orders: none of them is reported yet.
LEMMA SendSums ==
    ASSUME NEW list, NEW rs, OrdersInv(list, rs), NEW new, NEW n \in Nat,
           NEW list2, OrdersInv(list2, rs), SendEffect(list, rs, new, n, list2)
    PROVE  /\ RepSum(list2, rs) = RepSum(list, rs)
           /\ n = 0 => SentSum(list2) = SentSum(list)
           /\ n = 1 => SentSum(list2) = SentSum(list) + Wanted(new[1])
           /\ \A side : (\A i \in 1 .. n : new[i].side # side) =>
                 OutSum(list2, rs, side) = OutSum(list, rs, side)
<1> DEFINE N == Len(list)
<1>1. /\ N \in Nat /\ DOMAIN list = 1 .. N
      /\ \A side : IsFiniteSet(SideOf(list, side)) /\ SideOf(list, side) \subseteq 1 .. N
      /\ \A i \in 1 .. N : /\ WantedOf(list)[i] = Wanted(list[i]) /\ WantedOf(list)[i] \in Int
                           /\ RepOf(list, rs)[i] = Rep(list, rs, i) /\ RepOf(list, rs)[i] \in Int
                           /\ OutOf(list, rs)[i] = Out(list, rs, i) /\ OutOf(list, rs)[i] \in Int
      /\ SentSum(list) \in Nat /\ RepSum(list, rs) \in Int
  BY SumsFacts
<1>2. /\ Len(list2) = N + n
      /\ \A i \in 1 .. N : /\ list2[i] = list[i]
                           /\ Rep(list2, rs, i) = Rep(list, rs, i)
                           /\ Out(list2, rs, i) = Out(list, rs, i)
      /\ \A i \in 1 .. n : /\ list2[N + i] = new[i]
                           /\ Rep(list2, rs, N + i) = 0
                           /\ Out(list2, rs, N + i) = new[i].qty
  BY DEF SendEffect
<1>3. /\ DOMAIN list2 = 1 .. N + n
      /\ \A i \in 1 .. N + n : /\ WantedOf(list2)[i] = Wanted(list2[i]) /\ WantedOf(list2)[i] \in Int
                               /\ RepOf(list2, rs)[i] = Rep(list2, rs, i) /\ RepOf(list2, rs)[i] \in Int
                               /\ OutOf(list2, rs)[i] = Out(list2, rs, i)
  <2>1. /\ DOMAIN list2 = 1 .. Len(list2)
        /\ \A i \in 1 .. Len(list2) :
              /\ WantedOf(list2)[i] = Wanted(list2[i]) /\ WantedOf(list2)[i] \in Nat
              /\ RepOf(list2, rs)[i] = Rep(list2, rs, i) /\ RepOf(list2, rs)[i] \in Int
              /\ OutOf(list2, rs)[i] = Out(list2, rs, i)
    BY SumsFacts
  <2> QED
    BY <1>2, <2>1
<1> HIDE DEF N
<1>4. \A i \in (N + 1) .. (N + n) : i - N \in 1 .. n /\ N + (i - N) = i
  BY <1>1
<1>5. RepSum(list2, rs) = RepSum(list, rs)
  <2> DEFINE f == RepOf(list, rs)
             f2 == RepOf(list2, rs)
  <2>1. /\ \A i \in 1 .. N : f[i] \in Int
        /\ \A i \in 1 .. N + n : f2[i] \in Int
        /\ \A i \in 1 .. N : f2[i] = f[i]
    BY <1>1, <1>2, <1>3
  <2>2. \A i \in (N + 1) .. (N + n) : f2[i] = 0
    <3> SUFFICES ASSUME NEW i \in (N + 1) .. (N + n) PROVE f2[i] = 0
      OBVIOUS
    <3>1. i - N \in 1 .. n /\ N + (i - N) = i /\ i \in 1 .. N + n
      BY <1>1, <1>4
    <3>2. Rep(list2, rs, i) = 0
      BY <1>2, <3>1
    <3> QED
      BY <1>3, <3>1, <3>2
  <2> HIDE DEF f, f2
  <2>3. SumFunctionOnSet(f2, 1 .. N + n)
           = SumFunctionOnSet(f, 1 .. N) + SumFunctionOnSet(f2, (N + 1) .. (N + n))
    <3> DEFINE m == N + n
    <3>1. N \in Nat /\ m \in Nat /\ N <= m
      BY <1>1
    <3>2. \A i \in 1 .. m : f2[i] \in Int
      BY <2>1
    <3> HIDE DEF m
    <3>3. SumFunctionOnSet(f2, 1 .. m)
             = SumFunctionOnSet(f, 1 .. N) + SumFunctionOnSet(f2, (N + 1) .. m)
      BY <2>1, <3>1, <3>2, SumGrows
    <3> QED
      BY <3>3 DEF m
  <2>4. SumFunctionOnSet(f2, (N + 1) .. (N + n)) = 0
    <3>1. IsFiniteSet((N + 1) .. (N + n))
      BY <1>1, FS_Interval
    <3> QED
      BY <2>2, <3>1, SumZero
  <2>5. SumFunctionOnSet(f, 1 .. N) \in Int
    BY <1>1 DEF RepSum, f
  <2> QED
    BY <1>1, <1>3, <2>3, <2>4, <2>5 DEF RepSum, f, f2
<1>6. ASSUME n = 0 PROVE SentSum(list2) = SentSum(list)
  <2>1. \A i \in 1 .. N : WantedOf(list)[i] \in Int /\ WantedOf(list2)[i] = WantedOf(list)[i]
    <3>1. \A i \in 1 .. N : i \in 1 .. N + n
      BY <1>1
    <3> QED
      BY <1>1, <1>2, <1>3, <3>1
  <2>2. N + n = N /\ IsFiniteSet(1 .. N)
    BY <1>1, <1>6, FS_Interval
  <2>3. SumFunctionOnSet(WantedOf(list2), 1 .. N) = SumFunctionOnSet(WantedOf(list), 1 .. N)
    BY <2>1, <2>2, SumEqual
  <2> QED
    BY <1>1, <1>3, <2>2, <2>3 DEF SentSum
<1>7. ASSUME n = 1 PROVE SentSum(list2) = SentSum(list) + Wanted(new[1])
  <2> DEFINE f == WantedOf(list)
             f2 == WantedOf(list2)
  <2>1. /\ \A i \in 1 .. N : f[i] \in Int /\ f2[i] = f[i]
        /\ \A i \in 1 .. N + 1 : f2[i] \in Int
        /\ f2[N + 1] = Wanted(new[1])
    <3>1. 1 \in 1 .. n /\ N + 1 \in 1 .. N + n
      BY <1>1, <1>7
    <3> QED
      BY <1>1, <1>2, <1>3, <1>7, <3>1
  <2> HIDE DEF f, f2
  <2>2. SumFunctionOnSet(f2, 1 .. N + 1) = f2[N + 1] + SumFunctionOnSet(f2, 1 .. N)
    BY <1>1, <2>1, SumOneMore
  <2>3. SumFunctionOnSet(f2, 1 .. N) = SumFunctionOnSet(f, 1 .. N)
    <3>1. IsFiniteSet(1 .. N)
      BY <1>1, FS_Interval
    <3> QED
      BY <2>1, <3>1, SumEqual
  <2>4. SumFunctionOnSet(f, 1 .. N) \in Int /\ f2[N + 1] \in Int
    BY <1>1, <2>1 DEF SentSum, f
  <2>5. SumFunctionOnSet(f2, 1 .. N + 1) = SumFunctionOnSet(f, 1 .. N) + Wanted(new[1])
    BY <2>1, <2>2, <2>3, <2>4
  <2> QED
    BY <1>1, <1>3, <1>7, <2>5 DEF SentSum, f, f2
<1>8. ASSUME NEW side, \A i \in 1 .. n : new[i].side # side
      PROVE  OutSum(list2, rs, side) = OutSum(list, rs, side)
  <2> DEFINE S == SideOf(list, side)
  <2>1. S \subseteq 1 .. N /\ IsFiniteSet(S)
    BY <1>1
  <2>2. SideOf(list2, side) = S
    <3>1. ASSUME NEW i \in 1 .. N + n, list2[i].side = side PROVE i \in 1 .. N
      <4>1. ASSUME i \notin 1 .. N PROVE FALSE
        <5>1. i - N \in 1 .. n /\ N + (i - N) = i
          BY <1>1, <4>1
        <5>2. list2[i] = new[i - N]
          BY <1>2, <5>1
        <5> QED
          BY <1>8, <3>1, <5>1, <5>2
      <4> QED
        BY <4>1
    <3>2. \A i \in 1 .. N : i \in 1 .. N + n
      BY <1>1
    <3> QED
      BY <1>1, <1>2, <1>3, <3>1, <3>2 DEF SideOf
  <2> HIDE DEF S
  <2>3. \A i \in S : OutOf(list, rs)[i] \in Int /\ OutOf(list2, rs)[i] = OutOf(list, rs)[i]
    <3> SUFFICES ASSUME NEW i \in S
        PROVE OutOf(list, rs)[i] \in Int /\ OutOf(list2, rs)[i] = OutOf(list, rs)[i]
      OBVIOUS
    <3>1. i \in 1 .. N /\ i \in 1 .. N + n
      BY <1>1, <2>1
    <3> QED
      BY <1>1, <1>2, <1>3, <3>1
  <2>4. SumFunctionOnSet(OutOf(list2, rs), S) = SumFunctionOnSet(OutOf(list, rs), S)
    BY <2>1, <2>3, SumEqual
  <2> QED
    BY <2>2, <2>4 DEF OutSum, S
<1> QED
  BY <1>5, <1>6, <1>7, <1>8

-----------------------------------------------------------------------------
(* The inductive invariant                                                 *)

BaseInv ==
    /\ setup \in Setups /\ active \in BOOLEAN /\ overlapped \in BOOLEAN
    /\ remaining \in Int /\ position \in Int
    /\ slices_sent \in 0 .. Slices /\ next_slice_time \in Nat /\ now \in Nat
    /\ ticks \in Nat /\ strays \in Nat /\ cancels \subseteq Nat
    /\ prices \in Seq(Mids) /\ Len(prices) <= Lookback
    /\ quote \in [Sides -> Nat \cup {None}] /\ side_fills \in [Sides -> Nat]
    /\ exposed \in [Sides -> Int]
    /\ OrdersInv(orders, reports)
    /\ setup.kind # "VWAP" => AllPositive(orders)

\* An order for each slice sent, in its time and of its size; what the execution
\* thinks remains, if it is told of its own fills only.
VwapInv ==
    setup.kind = "VWAP" =>
        /\ Len(orders) = slices_sent
        /\ next_slice_time = slices_sent * Interval
        /\ \A id \in 1 .. Len(orders) : orders[id].sent >= (id - 1) * Interval
        /\ SentSum(orders) <= slices_sent * SliceQuantity
        /\ ~ setup.all =>
              /\ AllPositive(orders)
              /\ remaining = setup.quantity - RepSum(orders, reports)
              /\ active <=> remaining # 0

\* The position on a side, what may still be reported on it, and the most that ever
\* was out on it.
Within(pos, out, top) == pos + out < MaxPosition + top \/ (pos <= 0 /\ out = 0)

MakerInv ==
    setup.kind = "MarketMaking" =>
        /\ \A side \in Sides :
              Within(Signed(side, position), OutSum(orders, reports, side), exposed[side])
        /\ side_fills["Buy"] + side_fills["Sell"] <= RepSum(orders, reports) + strays

\* A position, and what it may become, are on one side and no larger than the size.
OneSided(pos, later, size) ==
    \/ 0 <= pos /\ pos <= size /\ 0 <= later /\ later <= size
    \/ 0 >= pos /\ pos >= - size /\ 0 >= later /\ later >= - size

\* While orders never overlapped, only the last can have something to report.
SignalInv ==
    setup.kind \in {"MeanReversion", "Momentum"} /\ ~ overlapped =>
        /\ \A id \in 1 .. Len(orders) - 1 : Out(orders, reports, id) = 0
        /\ Len(orders) = 0 => position = 0
        /\ Len(orders) > 0 =>
              LET last == Len(orders)
              IN  OneSided(position,
                           position + Signed(orders[last].side, Out(orders, reports, last)),
                           setup.quantity)

StrategyInv == BaseInv /\ VwapInv /\ MakerInv /\ SignalInv

-----------------------------------------------------------------------------
(* The module's operators, in these words                                  *)

LEMMA Bridges ==
    /\ \A list, id : Outstanding(list, id) = Out(list, reports, id)
    /\ \A list, side : OutstandingOf(list, side) = OutSum(list, reports, side)
    /\ \A id : Reported(id) = Rep(orders, reports, id)
    /\ AllSent = SentSum(orders) /\ AllReported = RepSum(orders, reports)
    /\ AllOutstanding = OutAll(orders, reports)
<1>1. \A id : Unreported(id) = Told(reports, id)
  BY DEF Unreported, Told, Amounts
<1>2. \A list, id : Outstanding(list, id) = Out(list, reports, id)
  BY <1>1 DEF Outstanding, Out
<1>3. \A list, side : OutstandingOf(list, side) = OutSum(list, reports, side)
  BY <1>2 DEF OutstandingOf, OutSum, OutOf, SideOf
<1>4. \A id : Reported(id) = Rep(orders, reports, id)
  BY <1>1 DEF Reported, Rep
<1>5. AllSent = SentSum(orders)
  BY DEF AllSent, SentSum, WantedOf, Wanted, SumFunction
<1>6. AllReported = RepSum(orders, reports)
  BY <1>4 DEF AllReported, RepSum, RepOf, SumFunction
<1>7. AllOutstanding = OutAll(orders, reports)
  BY <1>2 DEF AllOutstanding, OutAll, OutOf, SumFunction
<1> QED
  BY <1>2, <1>3, <1>4, <1>5, <1>6, <1>7

\* What is configured.
LEMMA SetupFacts ==
    ASSUME setup \in Setups
    PROVE  /\ setup.kind \in Kinds /\ setup.quantity \in Nat /\ setup.quantity > 0
           /\ setup.booked \in BOOLEAN /\ setup.all \in BOOLEAN
           /\ \A wait \in setup.waits : wait \in Nat
           /\ Slices \in Nat /\ Lookback \in Nat /\ Lookback > 0
           /\ Interval \in Nat /\ MaxPosition \in Nat
           /\ SliceQuantity \in Nat
           /\ \A n \in 0 .. Slices : n * SliceQuantity <= setup.quantity
<1>1. setup \in Setup
  BY StrategiesAssumption
<1>2. /\ setup.kind \in Kinds /\ setup.quantity \in Nat /\ setup.quantity > 0
      /\ setup.booked \in BOOLEAN /\ setup.all \in BOOLEAN
  BY <1>1 DEF Setup
<1>3. \A wait \in setup.waits : wait \in Nat
  BY <1>1 DEF Setup
<1>4. /\ Slices \in Nat /\ Slices > 0 /\ Lookback \in Nat /\ Lookback > 0
      /\ Interval \in Nat /\ MaxPosition \in Nat
  BY StrategiesAssumption
<1>5. SliceQuantity \in Nat /\ Slices * SliceQuantity <= setup.quantity
  BY <1>2, <1>4 DEF SliceQuantity
<1>6. \A m, n, q \in Nat : n <= m => n * q <= m * q
  OBVIOUS
<1>7. ASSUME NEW n \in 0 .. Slices PROVE n * SliceQuantity <= setup.quantity
  <2>1. n * SliceQuantity <= Slices * SliceQuantity
    BY <1>4, <1>5, <1>6
  <2>2. n * SliceQuantity \in Nat /\ Slices * SliceQuantity \in Nat
    BY <1>4, <1>5
  <2> QED
    BY <1>2, <1>5, <2>1, <2>2
<1> QED
  BY <1>2, <1>3, <1>4, <1>5, <1>7

\* A call of submit, or none.
LEMMA SendFacts ==
    ASSUME BaseInv, NEW new \in Seq(OrderT), Send(new), \A i \in 1 .. Len(new) : Fresh(new[i])
    PROVE  /\ OrdersInv(orders', reports)
           /\ SendEffect(orders, reports, new, Len(new), orders')
           /\ overlapped' \in BOOLEAN /\ exposed' \in [Sides -> Int]
           /\ \A side \in Sides : /\ exposed'[side] >= exposed[side]
                                  /\ exposed'[side] >= OutSum(orders', reports, side)
           /\ ~ overlapped' =>
                 /\ ~ overlapped
                 /\ Len(new) > 0 => \A id \in 1 .. Len(orders) : Out(orders, reports, id) = 0
<1>1. OrdersInv(orders, reports) /\ exposed \in [Sides -> Int] /\ overlapped \in BOOLEAN
  BY DEF BaseInv
<1>2. orders' = orders \o new /\ Len(new) \in Nat
  BY SeqFacts DEF Send
<1>3. OrdersInv(orders', reports) /\ SendEffect(orders, reports, new, Len(new), orders')
  BY <1>1, <1>2, OrdersSent
<1>4. \A side : OutSum(orders', reports, side) \in Int
  BY <1>3, SumsFacts
<1>5. exposed' = [side \in Sides |->
                     IF OutSum(orders', reports, side) > exposed[side]
                     THEN OutSum(orders', reports, side) ELSE exposed[side]]
  BY Bridges DEF Send
<1>6. exposed' \in [Sides -> Int]
  BY <1>1, <1>4, <1>5
<1>7. \A side \in Sides : /\ exposed'[side] >= exposed[side]
                          /\ exposed'[side] >= OutSum(orders', reports, side)
  BY <1>1, <1>4, <1>5
<1>8. /\ overlapped' = (overlapped \/
             (new # << >> /\ \E id \in DOMAIN orders : Out(orders, reports, id) # 0))
  BY Bridges DEF Send
<1>9. DOMAIN orders = 1 .. Len(orders) /\ (Len(new) > 0 => new # << >>)
  BY <1>1, OrdersFacts
<1>10. ~ overlapped' =>
          /\ ~ overlapped
          /\ Len(new) > 0 => \A id \in 1 .. Len(orders) : Out(orders, reports, id) = 0
  BY <1>8, <1>9
<1> QED
  BY <1>1, <1>3, <1>6, <1>7, <1>8, <1>10

LEMMA InitHolds == Init => StrategyInv
<1> SUFFICES ASSUME Init PROVE StrategyInv
  OBVIOUS
<1>1. /\ setup \in Setups /\ active = TRUE /\ remaining = setup.quantity
      /\ slices_sent = 0 /\ next_slice_time = 0 /\ prices = << >>
      /\ quote = [side \in Sides |-> None] /\ side_fills = [side \in Sides |-> 0]
      /\ now = 0 /\ position = 0 /\ orders = << >> /\ reports = << >>
      /\ ticks = 0 /\ strays = 0 /\ cancels = {} /\ overlapped = FALSE
      /\ exposed = [side \in Sides |-> 0]
  BY DEF Init
<1>2. /\ setup.quantity \in Nat /\ setup.quantity > 0 /\ Slices \in Nat /\ Lookback \in Nat
      /\ SliceQuantity \in Nat /\ Interval \in Nat
  BY <1>1, SetupFacts
<1>3. Len(orders) = 0 /\ Len(reports) = 0 /\ orders \in Seq(OrderT) /\ reports \in Seq(ReportT)
  BY <1>1
<1>4. OrdersInv(orders, reports) /\ AllPositive(orders)
  BY <1>3 DEF OrdersInv, AllPositive
<1>5. BaseInv
  <2>1. prices \in Seq(Mids) /\ Len(prices) <= Lookback
    BY <1>1, <1>2
  <2>2. /\ quote \in [Sides -> Nat \cup {None}] /\ side_fills \in [Sides -> Nat]
        /\ exposed \in [Sides -> Int]
    BY <1>1
  <2>3. active \in BOOLEAN /\ overlapped \in BOOLEAN
    BY <1>1
  <2>4. /\ setup \in Setups /\ remaining \in Int /\ position \in Int
        /\ slices_sent \in 0 .. Slices /\ next_slice_time \in Nat /\ now \in Nat
        /\ ticks \in Nat /\ strays \in Nat /\ cancels \subseteq Nat
    BY <1>1, <1>2
  <2> QED
    BY <1>4, <2>1, <2>2, <2>3, <2>4 DEF BaseInv
<1>6. /\ SentSum(orders) = 0 /\ RepSum(orders, reports) = 0
      /\ \A side : OutSum(orders, reports, side) = 0
  <2>1. DOMAIN orders = {} /\ \A side : SideOf(orders, side) = {}
    BY <1>1 DEF SideOf
  <2> QED
    BY <2>1, SumEmpty DEF SentSum, RepSum, OutSum
<1>7. VwapInv
  BY <1>1, <1>2, <1>3, <1>4, <1>6 DEF VwapInv
<1>8. MakerInv
  <2>1. \A side \in Sides : Within(Signed(side, position), OutSum(orders, reports, side), exposed[side])
    BY <1>1, <1>6 DEF Within, Signed
  <2>2. side_fills["Buy"] = 0 /\ side_fills["Sell"] = 0
    BY <1>1 DEF Sides
  <2> QED
    BY <1>1, <1>3, <1>6, <2>1, <2>2 DEF MakerInv
<1>9. SignalInv
  BY <1>1, <1>3 DEF SignalInv
<1> QED
  BY <1>5, <1>7, <1>8, <1>9 DEF StrategyInv

-----------------------------------------------------------------------------
(* A tick                                                                  *)

LEMMA OneOrder ==
    ASSUME NEW side \in Sides, NEW q \in Int, q # 0, now' \in Nat
    PROVE  /\ <<Order(side, q)>> \in Seq(OrderT) /\ Len(<<Order(side, q)>>) = 1
           /\ \A i \in 1 .. 1 : <<Order(side, q)>>[i] = Order(side, q)
           /\ Fresh(Order(side, q))
           /\ Order(side, q).side = side /\ Order(side, q).qty = q /\ Order(side, q).sent = now'
<1>1. /\ Order(side, q) \in OrderT
      /\ Order(side, q).side = side /\ Order(side, q).qty = q /\ Order(side, q).sent = now'
      /\ Order(side, q).left = q /\ Order(side, q).at = "sent"
  BY DEF Order, OrderT
<1>2. Fresh(Order(side, q))
  BY <1>1 DEF Fresh
<1> QED
  BY <1>1, <1>2

LEMMA WindowFacts ==
    ASSUME prices \in Seq(Mids), Len(prices) <= Lookback, Lookback \in Nat, NEW mid \in Mids
    PROVE  Window(mid) \in Seq(Mids) /\ Len(Window(mid)) <= Lookback
<1> DEFINE longer == Append(prices, mid)
<1>1. longer \in Seq(Mids) /\ Len(longer) = Len(prices) + 1 /\ Len(prices) \in Nat
  BY AppendProperties, LenProperties
<1> HIDE DEF longer
<1>2. Tail(longer) \in Seq(Mids) /\ Len(Tail(longer)) = Len(prices)
  <2>1. longer # << >>
    BY <1>1
  <2> QED
    BY <1>1, <2>1, HeadTailProperties
<1>3. Window(mid) = IF Len(longer) > Lookback THEN Tail(longer) ELSE longer
  BY DEF Window, longer
<1> QED
  BY <1>1, <1>2, <1>3

LEMMA SentPositive ==
    ASSUME NEW list, NEW rs, OrdersInv(list, rs), AllPositive(list),
           NEW new \in Seq(OrderT), AllPositive(new),
           NEW list2, SendEffect(list, rs, new, Len(new), list2)
    PROVE  AllPositive(list2)
<1> SUFFICES ASSUME NEW id \in 1 .. Len(list2) PROVE list2[id].qty > 0
  BY DEF AllPositive
<1>1. /\ Len(list2) = Len(list) + Len(new)
      /\ \A i \in 1 .. Len(list) : list2[i] = list[i]
      /\ \A i \in 1 .. Len(new) : list2[Len(list) + i] = new[i]
  BY DEF SendEffect
<1>2. Len(list) \in Nat /\ Len(new) \in Nat
  BY OrdersFacts, SeqFacts
<1>3. CASE id \in 1 .. Len(list)
  BY <1>1, <1>3 DEF AllPositive
<1>4. CASE id \notin 1 .. Len(list)
  <2>1. id - Len(list) \in 1 .. Len(new) /\ Len(list) + (id - Len(list)) = id
    BY <1>1, <1>2, <1>4
  <2>2. list2[id] = new[id - Len(list)]
    BY <1>1, <2>1
  <2> QED
    BY <2>1, <2>2 DEF AllPositive
<1> QED
  BY <1>3, <1>4

\* What any tick keeps, whatever orders it sends.
LEMMA TickBase ==
    ASSUME BaseInv, NEW new \in Seq(OrderT), Send(new), \A i \in 1 .. Len(new) : Fresh(new[i]),
           setup.kind # "VWAP" => AllPositive(new),
           setup' = setup, active' = active, remaining' = remaining, side_fills' = side_fills,
           position' = position, reports' = reports, strays' = strays,
           now' \in Nat, ticks' \in Nat, cancels' \subseteq Nat,
           slices_sent' \in 0 .. Slices, next_slice_time' \in Nat,
           prices' \in Seq(Mids), Len(prices') <= Lookback, quote' \in [Sides -> Nat \cup {None}]
    PROVE  BaseInv'
<1>1. /\ OrdersInv(orders', reports) /\ SendEffect(orders, reports, new, Len(new), orders')
      /\ overlapped' \in BOOLEAN /\ exposed' \in [Sides -> Int]
  BY SendFacts
<1>2. /\ setup' = setup /\ active' = active /\ remaining' = remaining /\ side_fills' = side_fills
      /\ position' = position /\ reports' = reports /\ strays' = strays
  OBVIOUS
<1>3. OrdersInv(orders', reports')
  BY <1>1, <1>2
<1>4. setup'.kind # "VWAP" => AllPositive(orders')
  <2>1. setup.kind # "VWAP" => AllPositive(orders) /\ OrdersInv(orders, reports)
    BY DEF BaseInv
  <2> QED
    BY <1>1, <1>2, <2>1, SentPositive
<1>5. /\ setup' \in Setups /\ active' \in BOOLEAN /\ remaining' \in Int /\ position' \in Int
      /\ strays' \in Nat /\ side_fills' \in [Sides -> Nat]
  BY <1>2 DEF BaseInv
<1> QED
  BY <1>1, <1>3, <1>4, <1>5 DEF BaseInv

\* An entry of the whole size when flat, or all of the position the other way.
SignalOrders(new) ==
    /\ new \in Seq(OrderT) /\ Len(new) <= 1
    /\ \A i \in 1 .. Len(new) :
          /\ Fresh(new[i]) /\ new[i].qty > 0
          /\ \/ position = 0 /\ new[i].qty = setup.quantity
             \/ position > 0 /\ new[i].side = "Sell" /\ new[i].qty = position
             \/ position < 0 /\ new[i].side = "Buy" /\ new[i].qty = - position

LEMMA SignalOrderSent ==
    ASSUME NEW side \in Sides, NEW q \in Int, q > 0, now' \in Nat,
           \/ position = 0 /\ q = setup.quantity
           \/ position > 0 /\ side = "Sell" /\ q = position
           \/ position < 0 /\ side = "Buy" /\ q = - position
    PROVE  SignalOrders(<<Order(side, q)>>)
<1> DEFINE new == <<Order(side, q)>>
           o == Order(side, q)
<1>1. /\ new \in Seq(OrderT) /\ Len(new) = 1 /\ \A i \in 1 .. 1 : new[i] = o
      /\ Fresh(o) /\ o.side = side /\ o.qty = q
  BY OneOrder
<1> HIDE DEF new, o
<1>2. SignalOrders(new)
  BY <1>1 DEF SignalOrders
<1> QED
  BY <1>2 DEF new

LEMMA NoOrderSent == SignalOrders(<< >>) /\ \A id : id \notin 1 .. Len(<< >>)
  BY DEF SignalOrders

LEMMA SignalSends ==
    ASSUME BaseInv, now' \in Nat, NEW list
    PROVE  SignalOrders(MeanReversionSends(list)) /\ SignalOrders(MomentumSends(list))
<1>1. setup.quantity \in Nat /\ setup.quantity > 0 /\ position \in Int
  BY SetupFacts DEF BaseInv
<1>2. SignalOrders(<< >>)
  BY NoOrderSent
<1>3. "Buy" \in Sides /\ "Sell" \in Sides
  BY DEF Sides
<1>4. position = 0 => /\ SignalOrders(<<Order("Sell", setup.quantity)>>)
                      /\ SignalOrders(<<Order("Buy", setup.quantity)>>)
  BY <1>1, <1>3, SignalOrderSent
<1>5. position > 0 => SignalOrders(<<Order("Sell", position)>>)
  BY <1>1, <1>3, SignalOrderSent
<1>6. position < 0 => SignalOrders(<<Order("Buy", -position)>>)
  BY <1>1, <1>3, SignalOrderSent
<1>7. SignalOrders(MeanReversionSends(list))
  BY <1>2, <1>4, <1>5, <1>6 DEF MeanReversionSends
<1>8. SignalOrders(MomentumSends(list))
  BY <1>2, <1>4, <1>5, <1>6 DEF MomentumSends
<1> QED
  BY <1>7, <1>8

LEMMA TickSignal ==
    ASSUME BaseInv, SignalInv, NEW new, SignalOrders(new), Send(new),
           setup.kind \in {"MeanReversion", "Momentum"},
           setup' = setup, position' = position, reports' = reports
    PROVE  SignalInv'
<1> DEFINE N == Len(orders)
<1>1. /\ setup' = setup /\ position' = position /\ reports' = reports /\ position \in Int
  BY DEF BaseInv
<1>2. /\ new \in Seq(OrderT) /\ Len(new) \in Nat /\ Len(new) <= 1
      /\ \A i \in 1 .. Len(new) :
            /\ Fresh(new[i]) /\ new[i].qty > 0 /\ new[i] \in OrderT
            /\ \/ position = 0 /\ new[i].qty = setup.quantity
               \/ position > 0 /\ new[i].side = "Sell" /\ new[i].qty = position
               \/ position < 0 /\ new[i].side = "Buy" /\ new[i].qty = - position
  BY SeqFacts DEF SignalOrders
<1>3. /\ OrdersInv(orders', reports) /\ SendEffect(orders, reports, new, Len(new), orders')
      /\ ~ overlapped' =>
            /\ ~ overlapped
            /\ Len(new) > 0 => \A id \in 1 .. N : Out(orders, reports, id) = 0
  BY <1>2, SendFacts
<1>4. /\ Len(orders') = N + Len(new)
      /\ \A i \in 1 .. N : orders'[i] = orders[i] /\ Out(orders', reports, i) = Out(orders, reports, i)
      /\ \A i \in 1 .. Len(new) : orders'[N + i] = new[i] /\ Out(orders', reports, N + i) = new[i].qty
  BY <1>3 DEF SendEffect
<1>5. /\ N \in Nat /\ \A i \in 1 .. N : Out(orders, reports, i) \in Int
      /\ setup.quantity \in Nat /\ setup.quantity > 0
  BY OrdersFacts, SetupFacts DEF BaseInv
<1> SUFFICES ASSUME ~ overlapped'
    PROVE /\ \A id \in 1 .. Len(orders') - 1 : Out(orders', reports, id) = 0
          /\ Len(orders') = 0 => position = 0
          /\ Len(orders') > 0 =>
                OneSided(position,
                         position + Signed(orders'[Len(orders')].side,
                                           Out(orders', reports, Len(orders'))),
                         setup.quantity)
  BY <1>1 DEF SignalInv
<1>6. /\ \A id \in 1 .. N - 1 : Out(orders, reports, id) = 0
      /\ N = 0 => position = 0
      /\ N > 0 => OneSided(position, position + Signed(orders[N].side, Out(orders, reports, N)),
                           setup.quantity)
  BY <1>3 DEF SignalInv
<1> HIDE DEF N
<1>7. CASE Len(new) = 0
  <2>1. Len(orders') = N
    BY <1>4, <1>5, <1>7
  <2>2. \A i \in 1 .. N - 1 : i \in 1 .. N
    BY <1>5
  <2>3. N > 0 => N \in 1 .. N
    BY <1>5
  <2> QED
    BY <1>4, <1>5, <1>6, <2>1, <2>2, <2>3
<1>8. CASE Len(new) = 1
  <2>1. Len(orders') = N + 1 /\ 1 \in 1 .. Len(new)
    BY <1>4, <1>8
  <2>2. orders'[N + 1] = new[1] /\ Out(orders', reports, N + 1) = new[1].qty
    BY <1>4, <2>1
  <2>3. \A id \in 1 .. N : Out(orders, reports, id) = 0
    BY <1>3, <1>8
  <2>4. \A id \in 1 .. (N + 1) - 1 : Out(orders', reports, id) = 0
    BY <1>4, <1>5, <2>3
  <2>5. position = 0 \/ OneSided(position, position, setup.quantity)
    <3>1. CASE N = 0
      BY <1>6, <3>1
    <3>2. CASE N > 0
      <4>1. Out(orders, reports, N) = 0
        BY <1>5, <2>3, <3>2
      <4>2. position + Signed(orders[N].side, 0) = position
        BY <1>1 DEF Signed
      <4> QED
        BY <1>6, <3>2, <4>1, <4>2
    <3> QED
      BY <1>5, <3>1, <3>2
  <2>6. /\ new[1].qty > 0 /\ new[1].qty \in Int /\ new[1].side \in Sides
        /\ \/ position = 0 /\ new[1].qty = setup.quantity
           \/ position > 0 /\ new[1].side = "Sell" /\ new[1].qty = position
           \/ position < 0 /\ new[1].side = "Buy" /\ new[1].qty = - position
    BY <1>2, <2>1 DEF OrderT
  <2>7. OneSided(position, position + Signed(new[1].side, new[1].qty), setup.quantity)
    BY <1>1, <1>5, <2>5, <2>6 DEF OneSided, Signed, Sides
  <2> QED
    BY <1>5, <2>1, <2>2, <2>4, <2>7
<1>9. Len(new) = 0 \/ Len(new) = 1
  <2>1. Len(new) \in Nat /\ Len(new) <= 1
    BY <1>2
  <2>2. \A k \in Nat : k <= 1 => k = 0 \/ k = 1
    OBVIOUS
  <2> QED
    BY <2>1, <2>2
<1> QED
  BY <1>7, <1>8, <1>9

\* A slice goes out, or none.
LEMMA TickVwap ==
    ASSUME BaseInv, VwapInv, setup.kind = "VWAP",
           NEW new \in Seq(OrderT), Send(new), \A i \in 1 .. Len(new) : Fresh(new[i]),
           setup' = setup, active' = active, remaining' = remaining, reports' = reports,
           \/ /\ Len(new) = 0
              /\ slices_sent' = slices_sent /\ next_slice_time' = next_slice_time
           \/ /\ Len(new) = 1
              /\ slices_sent' = slices_sent + 1 /\ next_slice_time' = next_slice_time + Interval
              /\ new[1].sent >= next_slice_time /\ new[1].qty <= SliceQuantity
              /\ ~ setup.all => new[1].qty > 0
    PROVE  VwapInv'
<1> DEFINE N == Len(orders)
           n == Len(new)
<1>1. setup' = setup /\ active' = active /\ remaining' = remaining /\ reports' = reports
  OBVIOUS
<1>2. /\ OrdersInv(orders, reports) /\ OrdersInv(orders', reports)
      /\ SendEffect(orders, reports, new, n, orders') /\ n \in Nat
  BY SendFacts, SeqFacts DEF BaseInv
<1>3. /\ N = slices_sent /\ next_slice_time = slices_sent * Interval
      /\ \A id \in 1 .. N : orders[id].sent >= (id - 1) * Interval
      /\ SentSum(orders) <= slices_sent * SliceQuantity
      /\ ~ setup.all =>
            /\ AllPositive(orders)
            /\ remaining = setup.quantity - RepSum(orders, reports)
            /\ active <=> remaining # 0
  BY DEF VwapInv
<1>4. /\ N \in Nat /\ Interval \in Nat /\ SliceQuantity \in Nat /\ SentSum(orders) \in Nat
  BY <1>2, SetupFacts, SumsFacts DEF BaseInv
<1>5. /\ RepSum(orders', reports) = RepSum(orders, reports)
      /\ n = 0 => SentSum(orders') = SentSum(orders)
      /\ n = 1 => SentSum(orders') = SentSum(orders) + Wanted(new[1])
  BY <1>2, SendSums
<1>6. /\ Len(orders') = N + n
      /\ \A i \in 1 .. N : orders'[i] = orders[i]
      /\ \A i \in 1 .. n : orders'[N + i] = new[i]
  BY <1>2 DEF SendEffect
<1>7. n = 1 => new[1].qty \in Int /\ new[1].sent \in Nat
  <2>1. \A i \in 1 .. n : new[i] \in OrderT
    BY SeqFacts
  <2>2. n = 1 => new[1] \in OrderT
    BY <2>1
  <2> QED
    BY <2>2 DEF OrderT
<1>8. ASSUME ~ setup.all PROVE AllPositive(orders')
  <2>1. AllPositive(new)
    BY <1>2, <1>8 DEF AllPositive
  <2> QED
    BY <1>2, <1>3, <1>8, <2>1, SentPositive
<1> HIDE DEF N, n
<1>9. n = 0 \/ n = 1
  BY DEF n
<1>10. Len(orders') = slices_sent' /\ next_slice_time' = slices_sent' * Interval
  <2>1. CASE n = 0
    BY <1>3, <1>4, <1>6, <2>1 DEF n
  <2>2. CASE n = 1
    <3>1. slices_sent' = slices_sent + 1 /\ next_slice_time' = next_slice_time + Interval
      BY <2>2 DEF n
    <3>2. (slices_sent + 1) * Interval = slices_sent * Interval + Interval
      BY <1>3, <1>4
    <3> QED
      BY <1>3, <1>4, <1>6, <2>2, <3>1, <3>2
  <2> QED
    BY <1>9, <2>1, <2>2
<1>11. \A id \in 1 .. Len(orders') : orders'[id].sent >= (id - 1) * Interval
  <2> SUFFICES ASSUME NEW id \in 1 .. N + n PROVE orders'[id].sent >= (id - 1) * Interval
    BY <1>6
  <2>1. CASE id \in 1 .. N
    BY <1>3, <1>6, <2>1
  <2>2. CASE id \notin 1 .. N
    <3>1. n = 1 /\ id = N + 1 /\ (N + 1) - 1 = N
      BY <1>4, <1>9, <2>2
    <3>2. orders'[N + 1] = new[1]
      BY <1>6, <3>1
    <3>3. new[1].sent >= next_slice_time
      BY <3>1 DEF n
    <3> QED
      BY <1>3, <3>1, <3>2, <3>3
  <2> QED
    BY <2>1, <2>2
<1>12. SentSum(orders') <= slices_sent' * SliceQuantity
  <2>1. CASE n = 0
    BY <1>3, <1>5, <2>1 DEF n
  <2>2. CASE n = 1
    <3>1. slices_sent' = slices_sent + 1 /\ new[1].qty <= SliceQuantity
      BY <2>2 DEF n
    <3>2. Wanted(new[1]) <= SliceQuantity /\ Wanted(new[1]) \in Nat
      BY <1>4, <1>7, <2>2, <3>1 DEF Wanted
    <3>3. /\ (slices_sent + 1) * SliceQuantity = slices_sent * SliceQuantity + SliceQuantity
          /\ slices_sent * SliceQuantity \in Nat
      BY <1>3, <1>4
    <3> QED
      BY <1>3, <1>4, <1>5, <2>2, <3>1, <3>2, <3>3
  <2> QED
    BY <1>9, <2>1, <2>2
<1>13. ~ setup.all =>
          /\ AllPositive(orders')
          /\ remaining = setup.quantity - RepSum(orders', reports)
          /\ active <=> remaining # 0
  BY <1>3, <1>5, <1>8
<1>14. SliceQuantity' = SliceQuantity
  BY <1>1 DEF SliceQuantity
<1> QED
  BY <1>1, <1>10, <1>11, <1>12, <1>13, <1>14 DEF VwapInv

\* Quotes go out on the sides that are within the limit.
LEMMA TickMaker ==
    ASSUME BaseInv, MakerInv, setup.kind = "MarketMaking",
           NEW new \in Seq(OrderT), Send(new), \A i \in 1 .. Len(new) : Fresh(new[i]), AllPositive(new),
           \A i \in 1 .. Len(new) : IF new[i].side = "Buy" THEN position < MaxPosition
                                    ELSE position > - MaxPosition,
           setup' = setup, position' = position, reports' = reports, side_fills' = side_fills,
           strays' = strays
    PROVE  MakerInv'
<1> DEFINE N == Len(orders)
           n == Len(new)
<1>1. /\ setup' = setup /\ position' = position /\ reports' = reports
      /\ side_fills' = side_fills /\ strays' = strays
  OBVIOUS
<1>2. /\ OrdersInv(orders, reports) /\ OrdersInv(orders', reports)
      /\ SendEffect(orders, reports, new, n, orders') /\ n \in Nat
      /\ exposed' \in [Sides -> Int]
      /\ \A side \in Sides : /\ exposed'[side] >= exposed[side]
                             /\ exposed'[side] >= OutSum(orders', reports, side)
  BY SendFacts, SeqFacts DEF BaseInv
<1>3. /\ \A side \in Sides :
            Within(Signed(side, position), OutSum(orders, reports, side), exposed[side])
      /\ side_fills["Buy"] + side_fills["Sell"] <= RepSum(orders, reports) + strays
  BY DEF MakerInv
<1>4. /\ RepSum(orders', reports) = RepSum(orders, reports)
      /\ \A side : (\A i \in 1 .. n : new[i].side # side) =>
            OutSum(orders', reports, side) = OutSum(orders, reports, side)
  BY <1>2, SendSums
<1>5. /\ Len(orders') = N + n
      /\ \A i \in 1 .. N : orders'[i] = orders[i]
      /\ \A i \in 1 .. n : orders'[N + i] = new[i]
  BY <1>2 DEF SendEffect
<1>6. /\ N \in Nat /\ position \in Int /\ MaxPosition \in Nat /\ exposed \in [Sides -> Int]
      /\ \A side : OutSum(orders, reports, side) \in Int /\ OutSum(orders', reports, side) \in Int
  BY <1>2, SumsFacts, SetupFacts DEF BaseInv
<1>7. \A i \in 1 .. n : /\ new[i].at = "sent" /\ new[i].left = new[i].qty /\ new[i].qty > 0
                        /\ new[i].qty \in Int
                        /\ new[i].side = "Buy" => position < MaxPosition
                        /\ new[i].side = "Sell" => position > - MaxPosition
  BY DEF Fresh, AllPositive, OrderT
<1> HIDE DEF N, n
<1>9. \A side \in Sides :
         Within(Signed(side, position), OutSum(orders', reports, side), exposed'[side])
  <2> SUFFICES ASSUME NEW side \in Sides
      PROVE Within(Signed(side, position), OutSum(orders', reports, side), exposed'[side])
    OBVIOUS
  <2>1. /\ exposed[side] \in Int /\ exposed'[side] \in Int
        /\ OutSum(orders, reports, side) \in Int /\ OutSum(orders', reports, side) \in Int
        /\ exposed'[side] >= exposed[side] /\ exposed'[side] >= OutSum(orders', reports, side)
    BY <1>2, <1>6
  <2>2. CASE \A i \in 1 .. n : new[i].side # side
    <3>1. OutSum(orders', reports, side) = OutSum(orders, reports, side)
      BY <1>4, <2>2
    <3>2. Within(Signed(side, position), OutSum(orders, reports, side), exposed[side])
      BY <1>3
    <3>3. Signed(side, position) \in Int
      BY <1>6 DEF Signed
    <3> QED
      BY <1>6, <2>1, <3>1, <3>2, <3>3 DEF Within
  <2>3. CASE ~ \A i \in 1 .. n : new[i].side # side
    <3>1. Signed(side, position) < MaxPosition /\ Signed(side, position) \in Int
      BY <1>6, <1>7, <2>3 DEF Signed, Sides
    <3> QED
      BY <1>6, <2>1, <3>1 DEF Within
  <2> QED
    BY <2>2, <2>3
<1> QED
  BY <1>1, <1>3, <1>4, <1>9 DEF MakerInv

\* The sides that are quoted at a tick.
Quoted(buy, sell, sides) ==
    /\ sides \in Seq(Sides) /\ Len(sides) \in Nat
    /\ \A i \in 1 .. Len(sides) : \/ sides[i] = "Buy" /\ buy = <<"Buy">>
                                  \/ sides[i] = "Sell" /\ sell = <<"Sell">>

MaybeOne(list, side) == list = << >> \/ list = <<side>>

LEMMA MakerSends ==
    ASSUME NEW buy, NEW sell, NEW sides,
           MaybeOne(buy, "Buy"), MaybeOne(sell, "Sell"), sides = buy \o sell
    PROVE  Quoted(buy, sell, sides)
<1> USE DEF Quoted
<1>1. CASE buy = << >> /\ sell = << >>
  <2>1. sides = << >>
    BY <1>1
  <2> QED
    BY <2>1
<1>2. CASE buy = <<"Buy">> /\ sell = << >>
  <2>1. sides = <<"Buy">>
    BY <1>2
  <2> QED
    BY <1>2, <2>1 DEF Sides
<1>3. CASE buy = << >> /\ sell = <<"Sell">>
  <2>1. sides = <<"Sell">>
    BY <1>3
  <2> QED
    BY <1>3, <2>1 DEF Sides
<1>4. CASE buy = <<"Buy">> /\ sell = <<"Sell">>
  <2>1. /\ buy \in Seq(Sides) /\ sell \in Seq(Sides) /\ Len(buy) = 1 /\ Len(sell) = 1
        /\ buy[1] = "Buy" /\ sell[1] = "Sell"
    BY <1>4 DEF Sides
  <2>2. /\ buy \o sell \in Seq(Sides) /\ Len(buy \o sell) = Len(buy) + Len(sell)
        /\ \A i \in 1 .. Len(buy) + Len(sell) :
              (buy \o sell)[i] = IF i <= Len(buy) THEN buy[i] ELSE sell[i - Len(buy)]
    BY <2>1, ConcatProperties
  <2>3. /\ sides \in Seq(Sides) /\ Len(sides) = 2
        /\ sides[1] = "Buy" /\ sides[2] = "Sell"
    BY <2>1, <2>2
  <2> QED
    BY <1>4, <2>3
<1> QED
  BY <1>1, <1>2, <1>3, <1>4 DEF MaybeOne

LEMMA OrdersOf ==
    ASSUME NEW sides \in Seq(Sides), NEW q \in Nat, q > 0, now' \in Nat,
           NEW new, new = [i \in DOMAIN sides |-> Order(sides[i], q)]
    PROVE  /\ new \in Seq(OrderT) /\ Len(new) = Len(sides) /\ AllPositive(new)
           /\ \A i \in 1 .. Len(new) : Fresh(new[i]) /\ new[i].side = sides[i]
<1>1. /\ Len(sides) \in Nat /\ DOMAIN sides = 1 .. Len(sides)
      /\ \A i \in 1 .. Len(sides) : sides[i] \in Sides
  BY SeqFacts
<1>2. \A side \in Sides : /\ Order(side, q) \in OrderT /\ Fresh(Order(side, q))
                          /\ Order(side, q).side = side /\ Order(side, q).qty > 0
  BY OneOrder DEF Fresh
<1>3. new \in [1 .. Len(sides) -> OrderT] /\ \A i \in 1 .. Len(sides) : new[i] = Order(sides[i], q)
  BY <1>1, <1>2
<1>4. new \in Seq(OrderT) /\ Len(new) = Len(sides)
  BY <1>1, <1>3
<1>5. \A i \in 1 .. Len(new) : Fresh(new[i]) /\ new[i].side = sides[i] /\ new[i].qty > 0
  BY <1>1, <1>2, <1>3, <1>4
<1> QED
  BY <1>4, <1>5 DEF AllPositive

LEMMA VwapTick ==
    ASSUME StrategyInv, setup.kind = "VWAP", active = TRUE, VwapOnTick,
           setup' = setup, active' = active, remaining' = remaining, side_fills' = side_fills,
           position' = position, reports' = reports, strays' = strays,
           now' \in Nat, ticks' \in Nat
    PROVE  BaseInv' /\ VwapInv'
<1>1. BaseInv /\ VwapInv
  BY DEF StrategyInv
<1>2. /\ slices_sent \in 0 .. Slices /\ next_slice_time \in Nat /\ cancels \subseteq Nat /\ remaining \in Int
      /\ prices \in Seq(Mids) /\ Len(prices) <= Lookback /\ quote \in [Sides -> Nat \cup {None}]
      /\ Slices \in Nat /\ SliceQuantity \in Nat /\ Interval \in Nat
  BY <1>1, SetupFacts DEF BaseInv
<1>3. prices' = prices /\ quote' = quote /\ cancels' = cancels
  BY DEF VwapOnTick
<1>4. CASE ~ DueSlice
  <2> DEFINE new == << >>
  <2>1. Send(<< >>) /\ slices_sent' = slices_sent /\ next_slice_time' = next_slice_time
    BY <1>4 DEF VwapOnTick
  <2>2. new \in Seq(OrderT) /\ Len(new) = 0 /\ Send(new)
    BY <2>1
  <2> HIDE DEF new
  <2>3. \A i \in 1 .. Len(new) : Fresh(new[i])
    BY <2>2
  <2>4. BaseInv'
    BY <1>1, <1>2, <1>3, <2>1, <2>2, <2>3, TickBase
  <2>5. VwapInv'
    BY <1>1, <2>1, <2>2, <2>3, TickVwap
  <2> QED
    BY <2>4, <2>5
<1>5. CASE DueSlice
  <2> DEFINE new == <<Order("Buy", SliceNow)>>
  <2>1. /\ Send(new) /\ slices_sent' = slices_sent + 1
        /\ next_slice_time' = next_slice_time + Interval
    BY <1>5 DEF VwapOnTick
  <2>2. now' >= next_slice_time /\ slices_sent < Slices /\ SliceNow # 0
    BY <1>5 DEF DueSlice
  <2>3. SliceNow \in Int /\ SliceNow <= SliceQuantity
    BY <1>2 DEF SliceNow
  <2>4. ~ setup.all => SliceNow > 0
    <3> SUFFICES ASSUME ~ setup.all PROVE SliceNow > 0
      OBVIOUS
    <3>1. /\ AllPositive(orders) /\ remaining = setup.quantity - RepSum(orders, reports)
          /\ SentSum(orders) <= slices_sent * SliceQuantity
      BY <1>1 DEF VwapInv
    <3>2. OrdersInv(orders, reports)
      BY <1>1 DEF BaseInv
    <3>3. /\ RepSum(orders, reports) + OutAll(orders, reports) <= SentSum(orders)
          /\ OutAll(orders, reports) >= 0
      BY <3>1, <3>2, PositiveSums
    <3>4. /\ RepSum(orders, reports) \in Int /\ OutAll(orders, reports) \in Int
          /\ SentSum(orders) \in Int
      BY <3>2, SumsFacts
    <3>5. slices_sent * SliceQuantity <= setup.quantity /\ setup.quantity \in Nat
      BY <1>1, <1>2, SetupFacts DEF BaseInv
    <3>6. slices_sent * SliceQuantity \in Int
      BY <1>2
    <3>7. remaining >= 0
      BY <3>1, <3>3, <3>4, <3>5, <3>6
    <3> QED
      BY <1>2, <2>2, <3>7 DEF SliceNow
  <2>5. /\ new \in Seq(OrderT) /\ Len(new) = 1 /\ \A i \in 1 .. 1 : new[i] = Order("Buy", SliceNow)
        /\ Fresh(Order("Buy", SliceNow))
        /\ Order("Buy", SliceNow).qty = SliceNow /\ Order("Buy", SliceNow).sent = now'
    <3>1. "Buy" \in Sides
      BY DEF Sides
    <3> QED
      BY <2>2, <2>3, <3>1, OneOrder
  <2> HIDE DEF new
  <2>6. \A i \in 1 .. Len(new) : Fresh(new[i])
    BY <2>5
  <2>7. /\ new[1].sent >= next_slice_time /\ new[1].qty <= SliceQuantity
        /\ ~ setup.all => new[1].qty > 0
    <3>1. new[1] = Order("Buy", SliceNow)
      BY <2>5
    <3> QED
      BY <2>2, <2>3, <2>4, <2>5, <3>1
  <2>8. slices_sent' \in 0 .. Slices /\ next_slice_time' \in Nat
    BY <1>2, <2>1, <2>2
  <2>9. BaseInv'
    BY <1>1, <1>2, <1>3, <2>1, <2>5, <2>6, <2>8, TickBase
  <2>10. VwapInv'
    BY <1>1, <2>1, <2>5, <2>6, <2>7, TickVwap
  <2> QED
    BY <2>9, <2>10
<1> QED
  BY <1>4, <1>5

LEMMA MakerTick ==
    ASSUME StrategyInv, setup.kind = "MarketMaking", MarketMakingOnTick,
           setup' = setup, active' = active, remaining' = remaining, side_fills' = side_fills,
           position' = position, reports' = reports, strays' = strays,
           now' \in Nat, ticks' \in Nat
    PROVE  BaseInv' /\ MakerInv'
<1> DEFINE buy == IF position < MaxPosition THEN <<"Buy">> ELSE << >>
           sell == IF position > -MaxPosition THEN <<"Sell">> ELSE << >>
           sides == buy \o sell
           new == [i \in DOMAIN sides |-> Order(sides[i], setup.quantity)]
<1>1. BaseInv /\ MakerInv
  BY DEF StrategyInv
<1>2. /\ slices_sent \in 0 .. Slices /\ next_slice_time \in Nat
      /\ prices \in Seq(Mids) /\ Len(prices) <= Lookback
      /\ setup.quantity \in Nat /\ setup.quantity > 0
  BY <1>1, SetupFacts DEF BaseInv
<1>3. /\ Send(new)
      /\ slices_sent' = slices_sent /\ next_slice_time' = next_slice_time /\ prices' = prices
  BY DEF MarketMakingOnTick, QuotedSides
<1>4. cancels' \subseteq Nat
  <2>1. cancels \subseteq Nat /\ \A side \in Sides : quote[side] \in Nat \cup {None}
    BY <1>1 DEF BaseInv
  <2>2. cancels' = cancels \cup ({quote[side] : side \in Sides} \ {None})
    BY DEF MarketMakingOnTick
  <2> QED
    BY <2>1, <2>2
<1>5. quote' = [side \in Sides |-> None]
  BY DEF MarketMakingOnTick, Answer
<1>6. quote' \in [Sides -> Nat \cup {None}]
  BY <1>5
<1>7. MaybeOne(buy, "Buy") /\ MaybeOne(sell, "Sell") /\ sides = buy \o sell
  BY DEF MaybeOne
<1>8. buy = <<"Buy">> => position < MaxPosition
  OBVIOUS
<1>9. sell = <<"Sell">> => position > -MaxPosition
  OBVIOUS
<1>10. new = [i \in DOMAIN sides |-> Order(sides[i], setup.quantity)]
  OBVIOUS
<1> HIDE DEF buy, sell, sides, new
<1>a. Quoted(buy, sell, sides)
  BY <1>7, MakerSends
<1>b. /\ sides \in Seq(Sides) /\ Len(sides) \in Nat
      /\ \A i \in 1 .. Len(sides) : \/ sides[i] = "Buy" /\ buy = <<"Buy">>
                                    \/ sides[i] = "Sell" /\ sell = <<"Sell">>
  BY <1>a DEF Quoted
<1>11. /\ new \in Seq(OrderT) /\ Len(new) = Len(sides) /\ AllPositive(new)
       /\ \A i \in 1 .. Len(new) : Fresh(new[i]) /\ new[i].side = sides[i]
  BY <1>2, <1>10, <1>b, OrdersOf
<1>12. \A i \in 1 .. Len(new) : IF new[i].side = "Buy" THEN position < MaxPosition
                                ELSE position > - MaxPosition
  BY <1>8, <1>9, <1>11, <1>b
<1>14. BaseInv'
  BY <1>1, <1>2, <1>3, <1>4, <1>6, <1>11, TickBase
<1>15. MakerInv'
  BY <1>1, <1>3, <1>11, <1>12, TickMaker
<1> QED
  BY <1>14, <1>15

LEMMA OtherKinds ==
    ASSUME setup' = setup
    PROVE  /\ setup.kind # "VWAP" => VwapInv'
           /\ setup.kind # "MarketMaking" => MakerInv'
           /\ setup.kind \notin {"MeanReversion", "Momentum"} => SignalInv'
<1>1. setup.kind # "VWAP" => VwapInv'
  BY DEF VwapInv
<1>2. setup.kind # "MarketMaking" => MakerInv'
  BY DEF MakerInv
<1>3. setup.kind \notin {"MeanReversion", "Momentum"} => SignalInv'
  BY DEF SignalInv
<1> QED
  BY <1>1, <1>2, <1>3

LEMMA SignalTick ==
    ASSUME StrategyInv, setup.kind \in {"MeanReversion", "Momentum"},
           NEW mid \in Mids, NEW new, SignalOrders(new), Send(new), prices' = Window(mid),
           slices_sent' = slices_sent, next_slice_time' = next_slice_time,
           quote' = quote, cancels' = cancels,
           setup' = setup, active' = active, remaining' = remaining, side_fills' = side_fills,
           position' = position, reports' = reports, strays' = strays,
           now' \in Nat, ticks' \in Nat
    PROVE  BaseInv' /\ SignalInv'
<1>1. BaseInv /\ SignalInv
  BY DEF StrategyInv
<1>2. /\ slices_sent \in 0 .. Slices /\ next_slice_time \in Nat /\ cancels \subseteq Nat
      /\ prices \in Seq(Mids) /\ Len(prices) <= Lookback /\ quote \in [Sides -> Nat \cup {None}]
      /\ Lookback \in Nat
  BY <1>1, SetupFacts DEF BaseInv
<1>3. prices' \in Seq(Mids) /\ Len(prices') <= Lookback
  BY <1>2, WindowFacts
<1>4. /\ new \in Seq(OrderT) /\ AllPositive(new) /\ \A i \in 1 .. Len(new) : Fresh(new[i])
  BY DEF SignalOrders, AllPositive
<1>5. BaseInv'
  BY <1>1, <1>2, <1>3, <1>4, TickBase
<1>6. SignalInv'
  BY <1>1, TickSignal
<1> QED
  BY <1>5, <1>6

LEMMA IdleTick ==
    ASSUME StrategyInv, Send(<< >>), prices' = prices,
           slices_sent' = slices_sent, next_slice_time' = next_slice_time,
           quote' = quote, cancels' = cancels,
           setup' = setup, active' = active, remaining' = remaining, side_fills' = side_fills,
           position' = position, reports' = reports, strays' = strays,
           now' \in Nat, ticks' \in Nat
    PROVE  StrategyInv'
<1> DEFINE new == << >>
<1>1. BaseInv /\ VwapInv /\ MakerInv /\ SignalInv
  BY DEF StrategyInv
<1>2. /\ slices_sent \in 0 .. Slices /\ next_slice_time \in Nat /\ cancels \subseteq Nat
      /\ prices \in Seq(Mids) /\ Len(prices) <= Lookback /\ quote \in [Sides -> Nat \cup {None}]
  BY <1>1 DEF BaseInv
<1>3. new \in Seq(OrderT) /\ Len(new) = 0 /\ Send(new) /\ SignalOrders(new)
  BY NoOrderSent
<1> HIDE DEF new
<1>4. \A i \in 1 .. Len(new) : Fresh(new[i])
  BY <1>3
<1>5. AllPositive(new)
  BY <1>3 DEF AllPositive
<1>6. BaseInv'
  BY <1>1, <1>2, <1>3, <1>4, <1>5, TickBase
<1>7. ASSUME setup.kind = "VWAP" PROVE VwapInv'
  BY <1>1, <1>3, <1>4, <1>7, TickVwap
<1>8. ASSUME setup.kind = "MarketMaking" PROVE MakerInv'
  <2>2. \A i \in 1 .. Len(new) : IF new[i].side = "Buy" THEN position < MaxPosition
                                 ELSE position > - MaxPosition
    BY <1>3
  <2> QED
    BY <1>1, <1>3, <1>4, <1>5, <1>8, <2>2, TickMaker
<1>9. ASSUME setup.kind \in {"MeanReversion", "Momentum"} PROVE SignalInv'
  BY <1>1, <1>3, <1>9, TickSignal
<1> QED
  BY <1>6, <1>7, <1>8, <1>9, OtherKinds DEF StrategyInv

LEMMA OnTickHolds ==
    ASSUME StrategyInv, NEW mid \in Mids, NEW wait \in setup.waits, OnTick(mid, wait)
    PROVE  StrategyInv'
<1>1. BaseInv
  BY DEF StrategyInv
<1>2. /\ setup' = setup /\ active' = active /\ remaining' = remaining /\ side_fills' = side_fills
      /\ position' = position /\ reports' = reports /\ strays' = strays
  BY DEF OnTick
<1>3. now' \in Nat /\ ticks' \in Nat
  <2>1. now \in Nat /\ ticks \in Nat /\ wait \in Nat
    BY <1>1, SetupFacts DEF BaseInv
  <2>2. now' = now + wait /\ ticks' = ticks + 1
    BY DEF OnTick
  <2> QED
    BY <2>1, <2>2
<1>4. CASE ~ active
  <2>1. /\ Send(<< >>) /\ prices' = prices /\ quote' = quote /\ cancels' = cancels
        /\ slices_sent' = slices_sent /\ next_slice_time' = next_slice_time
    BY <1>4 DEF OnTick
  <2> QED
    BY <1>2, <1>3, <2>1, IdleTick
<1>5. CASE active
  <2>1. \/ setup.kind = "VWAP" /\ VwapOnTick
        \/ setup.kind = "MeanReversion" /\ MeanReversionOnTick(mid)
        \/ setup.kind = "MarketMaking" /\ MarketMakingOnTick
        \/ setup.kind = "Momentum" /\ MomentumOnTick(mid)
    BY <1>5 DEF OnTick
  <2>2. CASE setup.kind = "VWAP" /\ VwapOnTick
    <3>1. active = TRUE
      BY <1>1, <1>5 DEF BaseInv
    <3>2. BaseInv' /\ VwapInv'
      BY <1>2, <1>3, <2>2, <3>1, VwapTick
    <3> QED
      BY <1>2, <2>2, <3>2, OtherKinds DEF StrategyInv
  <2>3. CASE setup.kind = "MarketMaking" /\ MarketMakingOnTick
    <3>1. BaseInv' /\ MakerInv'
      BY <1>2, <1>3, <2>3, MakerTick
    <3> QED
      BY <1>2, <2>3, <3>1, OtherKinds DEF StrategyInv
  <2>4. CASE setup.kind = "MeanReversion" /\ MeanReversionOnTick(mid)
    <3> DEFINE new == IF Len(prices') < Lookback \/ Spread(prices') = 0 THEN << >>
                      ELSE MeanReversionSends(prices')
    <3>1. /\ Send(new) /\ prices' = Window(mid) /\ quote' = quote /\ cancels' = cancels
          /\ slices_sent' = slices_sent /\ next_slice_time' = next_slice_time
      BY <2>4 DEF MeanReversionOnTick
    <3>2. SignalOrders(MeanReversionSends(prices')) /\ SignalOrders(<< >>)
      BY <1>1, <1>3, SignalSends, NoOrderSent
    <3>3. SignalOrders(new)
      BY <3>2
    <3> HIDE DEF new
    <3>4. setup.kind \in {"MeanReversion", "Momentum"}
      BY <2>4
    <3>5. BaseInv' /\ SignalInv'
      BY <1>2, <1>3, <3>1, <3>3, <3>4, SignalTick
    <3> QED
      BY <1>2, <2>4, <3>5, OtherKinds DEF StrategyInv
  <2>5. CASE setup.kind = "Momentum" /\ MomentumOnTick(mid)
    <3> DEFINE new == IF Len(prices') < Lookback THEN << >> ELSE MomentumSends(prices')
    <3>1. /\ Send(new) /\ prices' = Window(mid) /\ quote' = quote /\ cancels' = cancels
          /\ slices_sent' = slices_sent /\ next_slice_time' = next_slice_time
      BY <2>5 DEF MomentumOnTick
    <3>2. SignalOrders(MomentumSends(prices')) /\ SignalOrders(<< >>)
      BY <1>1, <1>3, SignalSends, NoOrderSent
    <3>3. SignalOrders(new)
      BY <3>2
    <3> HIDE DEF new
    <3>4. setup.kind \in {"MeanReversion", "Momentum"}
      BY <2>5
    <3>5. BaseInv' /\ SignalInv'
      BY <1>2, <1>3, <3>1, <3>3, <3>4, SignalTick
    <3> QED
      BY <1>2, <2>5, <3>5, OtherKinds DEF StrategyInv
  <2> QED
    BY <2>1, <2>2, <2>3, <2>4, <2>5
<1> QED
  BY <1>4, <1>5

-----------------------------------------------------------------------------
(* The orders at the engine                                                *)

\* The strategy is told nothing, and less may come than might have.
LEMMA VenueHolds ==
    ASSUME StrategyInv, OrdersInv(orders', reports'),
           VenueEffect(orders, reports, orders', reports'),
           UNCHANGED <<setup, strategyVars, now, position, history>>
    PROVE  StrategyInv'
<1> DEFINE list2 == orders'
           rs2 == reports'
<1>1. /\ setup' = setup /\ active' = active /\ remaining' = remaining
      /\ slices_sent' = slices_sent /\ next_slice_time' = next_slice_time /\ prices' = prices
      /\ quote' = quote /\ side_fills' = side_fills /\ now' = now /\ position' = position
      /\ ticks' = ticks /\ strays' = strays /\ cancels' = cancels
      /\ overlapped' = overlapped /\ exposed' = exposed
  BY DEF strategyVars, history
<1>2. BaseInv /\ VwapInv /\ MakerInv /\ SignalInv
  BY DEF StrategyInv
<1>3. OrdersInv(orders, reports)
  BY <1>2 DEF BaseInv
<1>4. /\ RepSum(list2, rs2) = RepSum(orders, reports) /\ SentSum(list2) = SentSum(orders)
      /\ AllPositive(orders) =>
            AllPositive(list2) /\ \A side : OutSum(list2, rs2, side) <= OutSum(orders, reports, side)
  BY <1>3, VenueSums
<1>5. /\ Len(list2) = Len(orders)
      /\ \A i \in 1 .. Len(orders) :
            /\ list2[i].side = orders[i].side /\ list2[i].sent = orders[i].sent
            /\ orders[i].qty > 0 => Out(list2, rs2, i) <= Out(orders, reports, i)
  BY DEF VenueEffect
<1>6. BaseInv'
  BY <1>1, <1>2, <1>4 DEF BaseInv
<1>7. VwapInv'
  <2>1. SliceQuantity' = SliceQuantity
    BY <1>1 DEF SliceQuantity
  <2>2. setup.kind = "VWAP" => \A id \in 1 .. Len(orders') : orders'[id].sent >= (id - 1) * Interval
    BY <1>2, <1>5 DEF VwapInv
  <2>3. setup.kind = "VWAP" => Len(orders') = slices_sent
    BY <1>2, <1>5 DEF VwapInv
  <2>4. setup.kind = "VWAP" =>
           /\ next_slice_time = slices_sent * Interval
           /\ SentSum(orders') <= slices_sent * SliceQuantity
           /\ ~ setup.all =>
                 /\ AllPositive(orders')
                 /\ remaining = setup.quantity - RepSum(orders', reports')
                 /\ active <=> remaining # 0
    BY <1>2, <1>4 DEF VwapInv
  <2> QED
    BY <1>1, <2>1, <2>2, <2>3, <2>4 DEF VwapInv
<1>8. ASSUME setup.kind = "MarketMaking" PROVE MakerInv'
  <2>1. AllPositive(orders) /\ AllPositive(list2)
    BY <1>2, <1>4, <1>8 DEF BaseInv
  <2>2. \A side \in Sides :
           Within(Signed(side, position), OutSum(list2, rs2, side), exposed[side])
    <3> SUFFICES ASSUME NEW side \in Sides
        PROVE Within(Signed(side, position), OutSum(list2, rs2, side), exposed[side])
      OBVIOUS
    <3>1. /\ OutSum(list2, rs2, side) >= 0 /\ OutSum(list2, rs2, side) \in Int
          /\ OutSum(orders, reports, side) \in Int
          /\ OutSum(list2, rs2, side) <= OutSum(orders, reports, side)
      BY <1>3, <1>4, <2>1, PositiveSums, SumsFacts
    <3>2. Within(Signed(side, position), OutSum(orders, reports, side), exposed[side])
      BY <1>2, <1>8 DEF MakerInv
    <3>3. Signed(side, position) \in Int /\ exposed[side] \in Int /\ MaxPosition \in Nat
      BY <1>2, SetupFacts DEF BaseInv, Signed
    <3> QED
      BY <3>1, <3>2, <3>3 DEF Within
  <2>3. side_fills["Buy"] + side_fills["Sell"] <= RepSum(list2, rs2) + strays
    BY <1>2, <1>4, <1>8 DEF MakerInv
  <2> QED
    BY <1>1, <2>2, <2>3 DEF MakerInv
<1>9. ASSUME setup.kind \in {"MeanReversion", "Momentum"} PROVE SignalInv'
  <2> SUFFICES ASSUME ~ overlapped
      PROVE /\ \A id \in 1 .. Len(list2) - 1 : Out(list2, rs2, id) = 0
            /\ Len(list2) = 0 => position = 0
            /\ Len(list2) > 0 =>
                  OneSided(position,
                           position + Signed(list2[Len(list2)].side, Out(list2, rs2, Len(list2))),
                           setup.quantity)
    BY <1>1 DEF SignalInv
  <2>1. /\ \A id \in 1 .. Len(orders) - 1 : Out(orders, reports, id) = 0
        /\ Len(orders) = 0 => position = 0
        /\ Len(orders) > 0 =>
              OneSided(position,
                       position + Signed(orders[Len(orders)].side,
                                         Out(orders, reports, Len(orders))),
                       setup.quantity)
    BY <1>2, <1>9 DEF SignalInv
  <2>2. /\ AllPositive(orders) /\ AllPositive(list2) /\ position \in Int /\ Len(orders) \in Nat
        /\ setup.quantity \in Nat
    BY <1>2, <1>3, <1>4, <1>9, OrdersFacts, SetupFacts DEF BaseInv
  <2>3. \A id \in 1 .. Len(orders) :
           /\ Out(orders, reports, id) \in Int /\ Out(list2, rs2, id) \in Int
           /\ 0 <= Out(list2, rs2, id) /\ Out(list2, rs2, id) <= Out(orders, reports, id)
           /\ orders[id].side \in Sides
    <3> SUFFICES ASSUME NEW id \in 1 .. Len(orders)
        PROVE /\ Out(orders, reports, id) \in Int /\ Out(list2, rs2, id) \in Int
              /\ 0 <= Out(list2, rs2, id) /\ Out(list2, rs2, id) <= Out(orders, reports, id)
              /\ orders[id].side \in Sides
      OBVIOUS
    <3>1. id \in 1 .. Len(list2) /\ list2[id].qty > 0 /\ orders[id].qty > 0
      BY <1>5, <2>2 DEF AllPositive
    <3>2. /\ Out(orders, reports, id) \in Int /\ orders[id] \in OrderT
      BY <1>3, OrdersFacts
    <3>3. /\ Out(list2, rs2, id) \in Int /\ Told(rs2, id) \in Int
          /\ Told(rs2, id) >= 0 /\ Out(list2, rs2, id) >= Told(rs2, id)
      BY <3>1, OrdersFacts
    <3> QED
      BY <1>5, <3>1, <3>2, <3>3 DEF OrderT
  <2>4. \A id \in 1 .. Len(list2) - 1 : Out(list2, rs2, id) = 0
    <3> SUFFICES ASSUME NEW id \in 1 .. Len(orders) - 1 PROVE Out(list2, rs2, id) = 0
      BY <1>5
    <3>1. id \in 1 .. Len(orders) /\ Out(orders, reports, id) = 0
      BY <2>1, <2>2
    <3> QED
      BY <2>3, <3>1
  <2>5. ASSUME Len(orders) > 0
        PROVE OneSided(position,
                       position + Signed(list2[Len(orders)].side, Out(list2, rs2, Len(orders))),
                       setup.quantity)
    <3> DEFINE last == Len(orders)
               a == Out(orders, reports, last)
               b == Out(list2, rs2, last)
    <3>1. last \in 1 .. Len(orders)
      BY <2>2, <2>5
    <3>2. /\ a \in Int /\ b \in Int /\ 0 <= b /\ b <= a /\ orders[last].side \in Sides
          /\ list2[last].side = orders[last].side
      BY <1>5, <2>3, <3>1
    <3>3. OneSided(position, position + Signed(orders[last].side, a), setup.quantity)
      BY <2>1, <2>5
    <3> HIDE DEF last, a, b
    <3>4. OneSided(position, position + Signed(orders[last].side, b), setup.quantity)
      BY <2>2, <3>2, <3>3 DEF OneSided, Signed
    <3> QED
      BY <3>2, <3>4 DEF last, b
  <2> QED
    BY <1>5, <2>1, <2>4, <2>5
<1> QED
  BY <1>1, <1>6, <1>7, <1>8, <1>9, OtherKinds DEF StrategyInv

LEMMA MatchHolds ==
    ASSUME StrategyInv, NEW id \in DOMAIN orders, NEW fills \in FillsOf(orders[id].qty),
           Match(id, fills)
    PROVE  StrategyInv'
<1>1. OrdersInv(orders, reports) /\ now \in Nat
  BY DEF StrategyInv, BaseInv
<1>2. id \in 1 .. Len(orders) /\ orders \in Seq(OrderT) /\ orders[id] \in OrderT
  BY <1>1, OrdersFacts DEF OrdersInv
<1>3. /\ setup.kind # "MarketMaking" /\ orders[id].at = "sent"
      /\ UNCHANGED <<setup, strategyVars, now, position, history>>
  BY DEF Match, MayArrive
<1>4. orders[id].qty \in Int /\ orders[id].qty # 0 /\ orders[id].left \in Int
  <2>1. SoundOrder(orders[id], Told(reports, id))
    BY <1>1, <1>2 DEF OrdersInv
  <2> QED
    BY <1>2, <2>1 DEF SoundOrder, OrderT
<1>5. orders[id].left - SumFunction(fills) \in Int
  BY <1>4, FillsFacts
<1>6. orders' = [orders EXCEPT ![id] = [@ EXCEPT !.at = "over",
                                                 !.left = orders[id].left - SumFunction(fills)]]
  BY <1>2 DEF Match, OrderT
<1>7. Changed(orders, id, "over", orders[id].left - SumFunction(fills), orders')
  BY <1>2, <1>5, <1>6, ChangeOrder
<1>8. reports' = reports \o Reports(fills, id, now)
  BY DEF Match, Reports
<1>9. OrdersInv(orders', reports') /\ VenueEffect(orders, reports, orders', reports')
  BY <1>1, <1>2, <1>3, <1>7, <1>8, OrderMatched
<1> QED
  BY <1>3, <1>9, VenueHolds

LEMMA RestHolds ==
    ASSUME StrategyInv, NEW id \in DOMAIN orders, NEW valid \in BOOLEAN, Rest(id, valid)
    PROVE  StrategyInv'
<1> DEFINE at == IF valid THEN "resting" ELSE "rejected"
<1>1. OrdersInv(orders, reports) /\ now \in Nat
  BY DEF StrategyInv, BaseInv
<1>2. id \in 1 .. Len(orders) /\ orders \in Seq(OrderT) /\ orders[id] \in OrderT
  BY <1>1, OrdersFacts DEF OrdersInv
<1>3. /\ setup.kind = "MarketMaking" /\ orders[id].at = "sent" /\ reports' = reports
      /\ UNCHANGED <<setup, strategyVars, now, position, history>>
  BY DEF Rest, MayArrive
<1>4. orders[id].left \in Int /\ orders[id].qty > 0 /\ orders[id].left = orders[id].qty
  <2>1. AllPositive(orders)
    BY <1>3 DEF StrategyInv, BaseInv
  <2>2. SoundOrder(orders[id], Told(reports, id))
    BY <1>1, <1>2 DEF OrdersInv
  <2> QED
    BY <1>2, <1>3, <2>1, <2>2 DEF AllPositive, SoundOrder, OrderT
<1>5. orders' = [orders EXCEPT ![id] = [@ EXCEPT !.at = at, !.left = orders[id].left]]
  <2>1. orders' = [orders EXCEPT ![id].at = at]
    BY DEF Rest
  <2>2. [orders[id] EXCEPT !.at = at] = [orders[id] EXCEPT !.at = at, !.left = orders[id].left]
    BY <1>2 DEF OrderT
  <2> QED
    BY <2>1, <2>2
<1>6. at \in {"resting", "rejected"}
  OBVIOUS
<1> HIDE DEF at
<1>7. Changed(orders, id, at, orders[id].left, orders')
  BY <1>2, <1>4, <1>5, <1>6, ChangeOrder
<1>8. OrdersInv(orders', reports) /\ VenueEffect(orders, reports, orders', reports)
  BY <1>1, <1>2, <1>3, <1>4, <1>6, <1>7, OrderRested
<1> QED
  BY <1>3, <1>8, VenueHolds

LEMMA TradeHolds ==
    ASSUME StrategyInv, NEW id \in DOMAIN orders, NEW qty \in 1 .. orders[id].left, Trade(id, qty)
    PROVE  StrategyInv'
<1> DEFINE at == IF qty = orders[id].left THEN "over" ELSE "resting"
           r == [id |-> id, qty |-> qty, ts |-> now]
<1>1. OrdersInv(orders, reports) /\ now \in Nat
  BY DEF StrategyInv, BaseInv
<1>2. id \in 1 .. Len(orders) /\ orders \in Seq(OrderT) /\ orders[id] \in OrderT
  BY <1>1, OrdersFacts DEF OrdersInv
<1>3. /\ orders[id].at = "resting"
      /\ UNCHANGED <<setup, strategyVars, now, position, history>>
  BY DEF Trade
<1>4. orders[id].left \in Int /\ qty \in Int /\ orders[id].left - qty \in Int
  BY <1>2 DEF OrderT
<1>5. orders' = [orders EXCEPT ![id] = [@ EXCEPT !.at = at, !.left = orders[id].left - qty]]
  <2>1. orders' = [orders EXCEPT ![id].left = @ - qty, ![id].at = IF qty = orders[id].left THEN "over" ELSE @]
    BY DEF Trade
  <2> QED
    BY <1>2, <1>3, <2>1 DEF OrderT
<1>6. at \in {"sent", "resting", "over", "rejected"} /\ at = IF qty = orders[id].left THEN "over" ELSE "resting"
  OBVIOUS
<1>7. r \in ReportT /\ r.id = id /\ r.qty = qty /\ reports' = Append(reports, r)
  BY <1>1, <1>2, <1>4 DEF ReportT, Trade
<1> HIDE DEF at, r
<1>8. Changed(orders, id, at, orders[id].left - qty, orders')
  BY <1>2, <1>4, <1>5, <1>6, ChangeOrder
<1>9. OrdersInv(orders', reports') /\ VenueEffect(orders, reports, orders', reports')
  BY <1>1, <1>2, <1>3, <1>6, <1>7, <1>8, OrderTraded
<1> QED
  BY <1>3, <1>9, VenueHolds

-----------------------------------------------------------------------------
(* on_fill                                                                 *)

LEMMA FillKeepsTypes ==
    ASSUME BaseInv, NEW side \in Sides, NEW q \in Int, OnFill(side, q)
    PROVE  /\ active' \in BOOLEAN /\ remaining' \in Int
           /\ quote' \in [Sides -> Nat \cup {None}] /\ side_fills' \in [Sides -> Nat]
           /\ slices_sent' = slices_sent /\ next_slice_time' = next_slice_time /\ prices' = prices
           /\ setup.kind = "VWAP" => /\ remaining' = remaining - q
                                     /\ active' = (active /\ remaining' # 0)
           /\ setup.kind = "MarketMaking" =>
                 /\ quote' = [quote EXCEPT ![side] = None]
                 /\ side_fills' = [side_fills EXCEPT ![side] = @ + 1]
<1>1. /\ active \in BOOLEAN /\ remaining \in Int
      /\ quote \in [Sides -> Nat \cup {None}] /\ side_fills \in [Sides -> Nat]
  BY DEF BaseInv
<1>2. /\ slices_sent' = slices_sent /\ next_slice_time' = next_slice_time /\ prices' = prices
      /\ \/ setup.kind = "VWAP" /\ VwapOnFill(q)
         \/ setup.kind = "MarketMaking" /\ MarketMakingOnFill(side)
         \/ /\ setup.kind \in {"MeanReversion", "Momentum"}
            /\ active' = active /\ remaining' = remaining /\ quote' = quote /\ side_fills' = side_fills
  BY DEF OnFill
<1>3. CASE setup.kind = "VWAP" /\ VwapOnFill(q)
  <2>1. /\ remaining' = remaining - q /\ active' = (active /\ remaining' # 0)
        /\ quote' = quote /\ side_fills' = side_fills
    BY <1>3 DEF VwapOnFill
  <2>2. active' \in BOOLEAN
    BY <2>1
  <2>3. remaining' \in Int
    BY <1>1, <2>1
  <2> QED
    BY <1>1, <1>2, <1>3, <2>1, <2>2, <2>3
<1>4. CASE setup.kind = "MarketMaking" /\ MarketMakingOnFill(side)
  <2>1. /\ quote' = [quote EXCEPT ![side] = None]
        /\ side_fills' = [side_fills EXCEPT ![side] = @ + 1]
        /\ active' = active /\ remaining' = remaining
    BY <1>4 DEF MarketMakingOnFill
  <2>2. quote' \in [Sides -> Nat \cup {None}]
    BY <1>1, <2>1
  <2>3. side_fills' \in [Sides -> Nat]
    BY <1>1, <2>1
  <2> QED
    BY <1>1, <1>2, <1>4, <2>1, <2>2, <2>3
<1>5. CASE /\ setup.kind \in {"MeanReversion", "Momentum"}
           /\ active' = active /\ remaining' = remaining /\ quote' = quote /\ side_fills' = side_fills
  BY <1>1, <1>2, <1>5
<1> QED
  BY <1>2, <1>3, <1>4, <1>5

LEMMA StrayHolds == ASSUME StrategyInv, NEW side \in Sides, Stray(side) PROVE StrategyInv'
<1>1. /\ setup.all /\ OnFill(side, 1) /\ strays' = strays + 1 /\ setup' = setup
      /\ now' = now /\ position' = position /\ orders' = orders /\ reports' = reports
      /\ ticks' = ticks /\ cancels' = cancels /\ overlapped' = overlapped /\ exposed' = exposed
  BY DEF Stray, venueVars
<1>2. BaseInv /\ VwapInv /\ MakerInv /\ SignalInv
  BY DEF StrategyInv
<1>3. /\ active' \in BOOLEAN /\ remaining' \in Int
      /\ quote' \in [Sides -> Nat \cup {None}] /\ side_fills' \in [Sides -> Nat]
      /\ slices_sent' = slices_sent /\ next_slice_time' = next_slice_time /\ prices' = prices
      /\ setup.kind = "MarketMaking" =>
            /\ quote' = [quote EXCEPT ![side] = None]
            /\ side_fills' = [side_fills EXCEPT ![side] = @ + 1]
  <2>1. 1 \in Int
    OBVIOUS
  <2> QED
    BY <1>1, <1>2, <2>1, FillKeepsTypes
<1>4. strays' \in Nat
  BY <1>1, <1>2 DEF BaseInv
<1>5. BaseInv'
  BY <1>1, <1>2, <1>3, <1>4 DEF BaseInv
<1>6. VwapInv'
  <2>1. SliceQuantity' = SliceQuantity
    BY <1>1 DEF SliceQuantity
  <2> QED
    BY <1>1, <1>2, <1>3, <2>1 DEF VwapInv
<1>7. ASSUME setup.kind = "MarketMaking" PROVE MakerInv'
  <2>2. side_fills'["Buy"] + side_fills'["Sell"] = side_fills["Buy"] + side_fills["Sell"] + 1
    <3>1. side_fills \in [Sides -> Nat] /\ side_fills' = [side_fills EXCEPT ![side] = @ + 1]
      BY <1>2, <1>3, <1>7 DEF BaseInv
    <3> QED
      BY <3>1 DEF Sides
  <2>3. /\ side_fills["Buy"] + side_fills["Sell"] <= RepSum(orders, reports) + strays
        /\ side_fills["Buy"] \in Nat /\ side_fills["Sell"] \in Nat
        /\ strays \in Nat /\ RepSum(orders, reports) \in Int
    BY <1>2, <1>7, SumsFacts DEF MakerInv, BaseInv, Sides
  <2>4. side_fills'["Buy"] + side_fills'["Sell"] <= RepSum(orders, reports) + strays'
    BY <1>1, <2>2, <2>3
  <2> QED
    BY <1>1, <1>2, <1>7, <2>4 DEF MakerInv
<1>8. SignalInv'
  BY <1>1, <1>2 DEF SignalInv
<1> QED
  BY <1>1, <1>5, <1>6, <1>7, <1>8, OtherKinds DEF StrategyInv

\* The position after a report, if reports are booked.
Booked(side, q) == IF setup.booked THEN position + Signed(side, q) ELSE position

LEMMA ReportHolds == ASSUME StrategyInv, NEW k \in DOMAIN reports, Report(k) PROVE StrategyInv'
<1> DEFINE rs2 == reports'
           id == reports[k].id
           q == reports[k].qty
           side == orders[id].side
<1>1. BaseInv /\ VwapInv /\ MakerInv /\ SignalInv
  BY DEF StrategyInv
<1>2. /\ OrdersInv(orders, reports) /\ k \in 1 .. Len(reports) /\ Len(orders) \in Nat
      /\ \A i \in 1 .. Len(orders) : orders[i] \in OrderT
  BY <1>1, OrdersFacts DEF BaseInv
<1>3. /\ position' = Booked(side, q) /\ OnFill(side, q) /\ rs2 = RemoveAt(reports, k)
      /\ setup' = setup /\ now' = now /\ orders' = orders
      /\ ticks' = ticks /\ strays' = strays /\ cancels' = cancels
      /\ overlapped' = overlapped /\ exposed' = exposed
  BY DEF Report, history, Booked
<1>4. OrdersInv(orders, rs2) /\ ReportEffect(orders, reports, rs2, id, q)
  <2>1. /\ OrdersInv(orders, rs2)
        /\ id \in 1 .. Len(orders) /\ q \in Int /\ FillFits(q, orders[id].qty)
        /\ Rep(orders, rs2, id) = Rep(orders, reports, id) + q
        /\ Out(orders, rs2, id) = Out(orders, reports, id) - q
        /\ \A i \in 1 .. Len(orders) : i # id =>
              /\ Rep(orders, rs2, i) = Rep(orders, reports, i)
              /\ Out(orders, rs2, i) = Out(orders, reports, i)
    BY <1>2, <1>3, OrderReported
  <2> QED
    BY <2>1 DEF ReportEffect
<1> HIDE DEF rs2, id, q
<1>5. /\ id \in 1 .. Len(orders) /\ q \in Int /\ FillFits(q, orders[id].qty)
      /\ Out(orders, rs2, id) = Out(orders, reports, id) - q
      /\ \A i \in 1 .. Len(orders) : i # id => Out(orders, rs2, i) = Out(orders, reports, i)
  BY <1>4 DEF ReportEffect
<1>6. /\ RepSum(orders, rs2) = RepSum(orders, reports) + q
      /\ OutSum(orders, rs2, side) = OutSum(orders, reports, side) - q
      /\ \A other : other # side => OutSum(orders, rs2, other) = OutSum(orders, reports, other)
  BY <1>2, <1>4, ReportSums
<1>7. side \in Sides /\ orders[id].qty \in Int
  BY <1>2, <1>5 DEF OrderT
<1> HIDE DEF side
<1>8. /\ active' \in BOOLEAN /\ remaining' \in Int
      /\ quote' \in [Sides -> Nat \cup {None}] /\ side_fills' \in [Sides -> Nat]
      /\ slices_sent' = slices_sent /\ next_slice_time' = next_slice_time /\ prices' = prices
      /\ setup.kind = "VWAP" => /\ remaining' = remaining - q
                                /\ active' = (active /\ remaining' # 0)
      /\ setup.kind = "MarketMaking" =>
            /\ quote' = [quote EXCEPT ![side] = None]
            /\ side_fills' = [side_fills EXCEPT ![side] = @ + 1]
  BY <1>1, <1>3, <1>5, <1>7, FillKeepsTypes
<1>9. /\ position \in Int /\ setup.booked \in BOOLEAN /\ setup.quantity \in Nat
      /\ MaxPosition \in Nat /\ exposed \in [Sides -> Int] /\ strays \in Nat
  BY <1>1, SetupFacts DEF BaseInv
<1>10. position' \in Int
  BY <1>3, <1>5, <1>9 DEF Booked, Signed
<1>11. BaseInv'
  BY <1>1, <1>3, <1>4, <1>8, <1>10 DEF BaseInv, rs2
\* Of an order for at least one unit something was still to be reported.
<1>12. AllPositive(orders) => /\ q > 0 /\ Out(orders, rs2, id) >= 0
                              /\ Out(orders, reports, id) \in Int /\ Out(orders, reports, id) >= q
  <2> SUFFICES ASSUME AllPositive(orders)
      PROVE /\ q > 0 /\ Out(orders, rs2, id) >= 0
            /\ Out(orders, reports, id) \in Int /\ Out(orders, reports, id) >= q
    OBVIOUS
  <2>1. orders[id].qty > 0
    BY <1>5 DEF AllPositive
  <2>2. q > 0
    BY <1>5, <2>1 DEF FillFits
  <2>3. /\ Out(orders, rs2, id) \in Int /\ Told(rs2, id) \in Int
        /\ Told(rs2, id) >= 0 /\ Out(orders, rs2, id) >= Told(rs2, id)
    BY <1>4, <1>5, <2>1, OrdersFacts
  <2>4. Out(orders, reports, id) \in Int
    BY <1>2, <1>5, OrdersFacts
  <2> QED
    BY <1>5, <2>2, <2>3, <2>4
<1>13. VwapInv'
  <2> SUFFICES ASSUME setup.kind = "VWAP"
      PROVE /\ Len(orders) = slices_sent
            /\ next_slice_time = slices_sent * Interval
            /\ \A i \in 1 .. Len(orders) : orders[i].sent >= (i - 1) * Interval
            /\ SentSum(orders) <= slices_sent * SliceQuantity
            /\ ~ setup.all =>
                  /\ AllPositive(orders)
                  /\ remaining' = setup.quantity - RepSum(orders, rs2)
                  /\ active' <=> remaining' # 0
    <3>1. SliceQuantity' = SliceQuantity
      BY <1>3 DEF SliceQuantity
    <3> QED
      BY <1>3, <1>8, <3>1 DEF VwapInv, rs2
  <2>1. /\ Len(orders) = slices_sent
        /\ next_slice_time = slices_sent * Interval
        /\ \A i \in 1 .. Len(orders) : orders[i].sent >= (i - 1) * Interval
        /\ SentSum(orders) <= slices_sent * SliceQuantity
    BY <1>1 DEF VwapInv
  <2>2. ASSUME ~ setup.all
        PROVE /\ AllPositive(orders)
              /\ remaining' = setup.quantity - RepSum(orders, rs2)
              /\ active' <=> remaining' # 0
    <3>1. /\ AllPositive(orders) /\ remaining = setup.quantity - RepSum(orders, reports)
          /\ active <=> remaining # 0
      BY <1>1, <2>2 DEF VwapInv
    <3>2. /\ RepSum(orders, reports) \in Int /\ OutAll(orders, reports) \in Int
          /\ SentSum(orders) \in Int
          /\ RepSum(orders, reports) + OutAll(orders, reports) <= SentSum(orders)
          /\ Out(orders, reports, id) <= OutAll(orders, reports)
      BY <1>2, <1>5, <3>1, SumsFacts, PositiveSums
    <3>3. remaining' = setup.quantity - RepSum(orders, rs2)
      BY <1>5, <1>6, <1>8, <1>9, <3>1, <3>2
    <3>4. slices_sent * SliceQuantity <= setup.quantity /\ slices_sent * SliceQuantity \in Int
      <4>1. /\ slices_sent \in 0 .. Slices /\ Slices \in Nat /\ SliceQuantity \in Nat
            /\ \A n \in 0 .. Slices : n * SliceQuantity <= setup.quantity
        BY <1>1, SetupFacts DEF BaseInv
      <4> QED
        BY <4>1
    <3>5. remaining # 0
      <4> DEFINE most == slices_sent * SliceQuantity
      <4>1. most \in Int /\ most <= setup.quantity /\ SentSum(orders) <= most
        BY <2>1, <3>4
      <4>2. setup.quantity \in Int /\ Out(orders, reports, id) \in Int
        BY <1>9, <1>12, <3>1
      <4>3. Out(orders, reports, id) > 0
        BY <1>5, <1>12, <3>1
      <4> HIDE DEF most
      <4> QED
        BY <3>1, <3>2, <4>1, <4>2, <4>3
    <3>6. active' <=> remaining' # 0
      BY <1>8, <3>1, <3>5
    <3> QED
      BY <3>1, <3>3, <3>6
  <2> QED
    BY <2>1, <2>2
<1>14. ASSUME setup.kind = "MarketMaking" PROVE MakerInv'
  <2>1. AllPositive(orders)
    BY <1>1, <1>14 DEF BaseInv
  <2>2. /\ \A other \in Sides :
              Within(Signed(other, position), OutSum(orders, reports, other), exposed[other])
        /\ side_fills["Buy"] + side_fills["Sell"] <= RepSum(orders, reports) + strays
    BY <1>1, <1>14 DEF MakerInv
  <2>4. side_fills'["Buy"] + side_fills'["Sell"] <= RepSum(orders, rs2) + strays
    <3>1. side_fills \in [Sides -> Nat] /\ side_fills' = [side_fills EXCEPT ![side] = @ + 1]
      BY <1>1, <1>8, <1>14 DEF BaseInv
    <3>2. /\ side_fills'["Buy"] + side_fills'["Sell"] = side_fills["Buy"] + side_fills["Sell"] + 1
          /\ side_fills["Buy"] \in Nat /\ side_fills["Sell"] \in Nat
      BY <1>7, <3>1 DEF Sides
    <3>3. RepSum(orders, reports) \in Int
      BY <1>2, SumsFacts
    <3> QED
      BY <1>5, <1>6, <1>9, <1>12, <2>1, <2>2, <3>2, <3>3
  <2>5. \A other \in Sides :
           Within(Signed(other, position'), OutSum(orders, rs2, other), exposed[other])
    <3> SUFFICES ASSUME NEW other \in Sides
        PROVE Within(Signed(other, position'), OutSum(orders, rs2, other), exposed[other])
      OBVIOUS
    <3> DEFINE a == OutSum(orders, reports, other)
               b == OutSum(orders, rs2, other)
               top == exposed[other]
    <3>1. /\ a \in Int /\ b \in Int /\ top \in Int
          /\ a >= 0 /\ b >= 0
      BY <1>2, <1>4, <1>9, <2>1, SumsFacts, PositiveSums
    <3>2. Within(Signed(other, position), a, top)
      BY <2>2
    <3>3. q > 0
      BY <1>12, <2>1
    <3>4. b = IF other = side THEN a - q ELSE a
      BY <1>6
    <3> HIDE DEF a, b, top
    <3>5. Within(Signed(other, position'), b, top)
      <4> DEFINE pos == Signed(other, position)
                 pos2 == Signed(other, position')
      <4>0. pos \in Int /\ pos2 \in Int /\ MaxPosition + top \in Int /\ q \in Int
        BY <1>5, <1>9, <1>10, <3>1 DEF Signed
      <4>1. CASE other = side
        <5>1. pos2 = IF setup.booked THEN pos + q ELSE pos
          BY <1>3, <1>5, <1>7, <1>9, <4>1 DEF Signed, Booked, Sides
        <5>2. b = a - q
          BY <3>4, <4>1
        <5>3. Within(pos, a, top)
          BY <3>2
        <5> HIDE DEF pos, pos2
        <5>4. Within(pos2, b, top)
          BY <3>1, <3>3, <4>0, <5>1, <5>2, <5>3 DEF Within
        <5> QED
          BY <5>4 DEF pos2
      <4>2. CASE other # side
        <5>1. pos2 = IF setup.booked THEN pos - q ELSE pos
          BY <1>3, <1>5, <1>7, <1>9, <4>2 DEF Signed, Booked, Sides
        <5>2. b = a
          BY <3>4, <4>2
        <5>3. Within(pos, a, top)
          BY <3>2
        <5> HIDE DEF pos, pos2
        <5>4. Within(pos2, b, top)
          BY <3>1, <3>3, <4>0, <5>1, <5>2, <5>3 DEF Within
        <5> QED
          BY <5>4 DEF pos2
      <4> QED
        BY <4>1, <4>2
    <3> QED
      BY <3>5 DEF b, top
  <2> QED
    BY <1>3, <2>2, <2>4, <2>5 DEF MakerInv, rs2
<1>15. ASSUME setup.kind \in {"MeanReversion", "Momentum"} PROVE SignalInv'
  <2> DEFINE last == Len(orders)
  <2> SUFFICES ASSUME ~ overlapped
      PROVE /\ \A i \in 1 .. last - 1 : Out(orders, rs2, i) = 0
            /\ last = 0 => position' = 0
            /\ last > 0 => OneSided(position',
                                    position' + Signed(orders[last].side, Out(orders, rs2, last)),
                                    setup.quantity)
    BY <1>3 DEF SignalInv, rs2
  <2>1. /\ \A i \in 1 .. last - 1 : Out(orders, reports, i) = 0
        /\ last > 0 => OneSided(position,
                                position + Signed(orders[last].side, Out(orders, reports, last)),
                                setup.quantity)
    BY <1>1, <1>15 DEF SignalInv
  <2>2. AllPositive(orders)
    BY <1>1, <1>15 DEF BaseInv
  <2> HIDE DEF last
  <2>3. id = last /\ last > 0
    <3>1. Out(orders, reports, id) # 0
      BY <1>5, <1>12, <2>2
    <3>2. id \notin 1 .. last - 1
      BY <2>1, <3>1
    <3> QED
      BY <1>2, <1>5, <3>2 DEF last
  <2>4. \A i \in 1 .. last - 1 : Out(orders, rs2, i) = 0
    <3>1. \A i \in 1 .. last - 1 : i \in 1 .. Len(orders) /\ i # id
      BY <1>2, <2>3 DEF last
    <3> QED
      BY <1>5, <2>1, <3>1
  <2>5. OneSided(position', position' + Signed(orders[last].side, Out(orders, rs2, last)),
                 setup.quantity)
    <3> DEFINE a == Out(orders, reports, last)
               b == Out(orders, rs2, last)
    <3>1. OneSided(position, position + Signed(side, a), setup.quantity)
      BY <2>1, <2>3 DEF side
    <3>2. a \in Int /\ b = a - q /\ q > 0 /\ b >= 0 /\ q \in Int
      BY <1>5, <1>12, <2>2, <2>3
    <3> HIDE DEF a, b
    <3>3. OneSided(position', position' + Signed(side, b), setup.quantity)
      BY <1>3, <1>7, <1>9, <3>1, <3>2 DEF OneSided, Signed, Booked, Sides
    <3> QED
      BY <2>3, <3>3 DEF b, side
  <2> QED
    BY <2>3, <2>4, <2>5
<1> QED
  BY <1>3, <1>11, <1>13, <1>14, <1>15, OtherKinds DEF StrategyInv

LEMMA NextHolds == StrategyInv /\ [Next]_vars => StrategyInv'
<1> SUFFICES ASSUME StrategyInv, [Next]_vars PROVE StrategyInv'
  OBVIOUS
<1>1. ASSUME NEW mid \in Mids, NEW wait \in setup.waits, OnTick(mid, wait) PROVE StrategyInv'
  BY <1>1, OnTickHolds
<1>2. ASSUME NEW id \in DOMAIN orders, NEW fills \in FillsOf(orders[id].qty), Match(id, fills)
      PROVE  StrategyInv'
  BY <1>2, MatchHolds
<1>3. ASSUME NEW id \in DOMAIN orders, NEW valid \in BOOLEAN, Rest(id, valid) PROVE StrategyInv'
  BY <1>3, RestHolds
<1>4. ASSUME NEW id \in DOMAIN orders, NEW qty \in 1 .. orders[id].left, Trade(id, qty)
      PROVE  StrategyInv'
  BY <1>4, TradeHolds
<1>5. ASSUME NEW i \in DOMAIN reports, Report(i) PROVE StrategyInv'
  BY <1>5, ReportHolds
<1>6. ASSUME NEW side \in Sides, Stray(side) PROVE StrategyInv'
  BY <1>6, StrayHolds
<1>7. CASE UNCHANGED vars
  <2>1. /\ setup' = setup /\ UNCHANGED <<strategyVars, now, position, history>>
        /\ orders' = orders /\ reports' = reports
    BY <1>7 DEF vars, venueVars, history
  <2>2. /\ active' = active /\ remaining' = remaining /\ slices_sent' = slices_sent
        /\ next_slice_time' = next_slice_time /\ prices' = prices /\ quote' = quote
        /\ side_fills' = side_fills /\ now' = now /\ position' = position /\ ticks' = ticks
        /\ strays' = strays /\ cancels' = cancels /\ overlapped' = overlapped /\ exposed' = exposed
    BY <2>1 DEF strategyVars, history
  <2>3. BaseInv'
    BY <2>1, <2>2 DEF StrategyInv, BaseInv
  <2>4. VwapInv'
    BY <2>1, <2>2 DEF StrategyInv, VwapInv, SliceQuantity
  <2>5. MakerInv'
    BY <2>1, <2>2 DEF StrategyInv, MakerInv
  <2>6. SignalInv'
    BY <2>1, <2>2 DEF StrategyInv, SignalInv
  <2> QED
    BY <2>3, <2>4, <2>5, <2>6 DEF StrategyInv
<1> QED
  BY <1>1, <1>2, <1>3, <1>4, <1>5, <1>6, <1>7 DEF Next

\* Whatever strategy runs, and however its orders fare: every order and the reports of
\* its fills agree, a VWAP execution has sent one slice for each it counted and what it
\* thinks remains is the total less the fills it was told of, the inventory of a market
\* maker and the most that may be added to it stay below the limit and what was out at
\* once, and what may still come of the last order of a signal keeps its position on one
\* side and within its size.
THEOREM StrategiesAreConsistent == Spec => []StrategyInv
<1> QED
  BY InitHolds, NextHolds, PTL DEF Spec

-----------------------------------------------------------------------------
(* What follows                                                            *)

LEMMA TypesFollow == StrategyInv => TypeOK
<1> SUFFICES ASSUME StrategyInv PROVE TypeOK
  OBVIOUS
<1>1. BaseInv
  BY DEF StrategyInv
<1>2. prices \in UNION { [1 .. n -> Mids] : n \in 0 .. Lookback }
  <2>1. prices \in Seq(Mids) /\ Len(prices) <= Lookback /\ Lookback \in Nat
    BY <1>1, SetupFacts DEF BaseInv
  <2>2. prices \in [1 .. Len(prices) -> Mids] /\ Len(prices) \in 0 .. Lookback
    BY <2>1, LenProperties
  <2> QED
    BY <2>2
<1>3. ASSUME NEW id \in DOMAIN orders
      PROVE  /\ orders[id].side \in Sides /\ orders[id].qty \in Int \ {0}
             /\ orders[id].at \in {"sent", "resting", "over", "rejected"}
             /\ Size(Reported(id)) <= Size(orders[id].qty)
  <2>1. /\ OrdersInv(orders, reports) /\ id \in 1 .. Len(orders) /\ orders[id] \in OrderT
        /\ Told(reports, id) \in Int
    BY <1>1, OrdersFacts DEF BaseInv
  <2>2. SoundOrder(orders[id], Told(reports, id))
    BY <2>1 DEF OrdersInv
  <2>3. /\ orders[id].side \in Sides /\ orders[id].qty \in Int /\ orders[id].left \in Int
        /\ orders[id].at \in {"sent", "resting", "over", "rejected"}
    BY <2>1 DEF OrderT
  <2>4. Reported(id) = orders[id].qty - orders[id].left - Told(reports, id)
    BY Bridges DEF Rep
  <2>5. orders[id].qty # 0 /\ Size(Reported(id)) <= Size(orders[id].qty)
    <3> DEFINE qty == orders[id].qty
               left == orders[id].left
               u == Told(reports, id)
               rep == Reported(id)
    <3>1. qty \in Int /\ left \in Int /\ u \in Int /\ rep = qty - left - u /\ qty # 0
      BY <2>1, <2>2, <2>3, <2>4 DEF SoundOrder
    <3>2. IF qty > 0 THEN left >= 0 /\ u >= 0 /\ left + u <= qty ELSE left + u \in {0, qty}
      BY <2>2 DEF SoundOrder
    <3> HIDE DEF qty, left, u, rep
    <3>3. Size(rep) <= Size(qty)
      BY <3>1, <3>2 DEF Size
    <3> QED
      BY <3>1, <3>3 DEF qty, rep
  <2> QED
    BY <2>3, <2>5
<1>4. /\ setup \in Setups /\ active \in BOOLEAN /\ overlapped \in BOOLEAN
      /\ remaining \in Int /\ position \in Int /\ slices_sent \in 0 .. Slices
      /\ {next_slice_time, now, ticks, strays} \subseteq Nat /\ cancels \subseteq Nat
      /\ quote \in [Sides -> Nat \cup {None}] /\ side_fills \in [Sides -> Nat]
  BY <1>1 DEF BaseInv
<1> QED
  BY <1>2, <1>3, <1>4 DEF TypeOK

LEMMA VwapFollows == StrategyInv => NeverOverExecutes
<1> SUFFICES ASSUME StrategyInv, setup.kind = "VWAP"
    PROVE /\ AllSent <= setup.quantity
          /\ \A id \in DOMAIN orders : orders[id].sent >= (id - 1) * Interval
          /\ ~ setup.all =>
                /\ remaining = setup.quantity - AllReported
                /\ AllOutstanding <= remaining
                /\ \A id \in DOMAIN orders : orders[id].qty > 0
                /\ active <=> remaining # 0
  BY DEF NeverOverExecutes
<1>1. BaseInv /\ VwapInv
  BY DEF StrategyInv
<1>2. /\ OrdersInv(orders, reports) /\ DOMAIN orders = 1 .. Len(orders)
  BY <1>1, OrdersFacts DEF BaseInv
<1>3. /\ AllSent = SentSum(orders) /\ AllReported = RepSum(orders, reports)
      /\ AllOutstanding = OutAll(orders, reports)
  BY Bridges
<1>4. /\ SentSum(orders) \in Int /\ RepSum(orders, reports) \in Int
      /\ OutAll(orders, reports) \in Int
  BY <1>2, SumsFacts
<1>5. SentSum(orders) <= setup.quantity
  <2>1. /\ slices_sent \in 0 .. Slices /\ setup.quantity \in Nat
        /\ Slices \in Nat /\ SliceQuantity \in Nat
        /\ \A n \in 0 .. Slices : n * SliceQuantity <= setup.quantity
    BY <1>1, SetupFacts DEF BaseInv
  <2>2. slices_sent * SliceQuantity <= setup.quantity /\ slices_sent * SliceQuantity \in Int
    BY <2>1
  <2>3. SentSum(orders) <= slices_sent * SliceQuantity
    BY <1>1 DEF VwapInv
  <2> QED
    BY <1>4, <2>1, <2>2, <2>3
<1>6. \A id \in DOMAIN orders : orders[id].sent >= (id - 1) * Interval
  BY <1>1, <1>2 DEF VwapInv
<1>7. ASSUME ~ setup.all
      PROVE  /\ remaining = setup.quantity - AllReported
             /\ AllOutstanding <= remaining
             /\ \A id \in DOMAIN orders : orders[id].qty > 0
             /\ active <=> remaining # 0
  <2>1. /\ AllPositive(orders) /\ remaining = setup.quantity - RepSum(orders, reports)
        /\ active <=> remaining # 0
    BY <1>1, <1>7 DEF VwapInv
  <2>2. RepSum(orders, reports) + OutAll(orders, reports) <= SentSum(orders)
    BY <1>2, <2>1, PositiveSums
  <2>3. setup.quantity \in Nat
    BY <1>1, SetupFacts DEF BaseInv
  <2>4. AllOutstanding <= remaining
    BY <1>3, <1>4, <1>5, <2>1, <2>2, <2>3
  <2>5. \A id \in DOMAIN orders : orders[id].qty > 0
    BY <1>2, <2>1 DEF AllPositive
  <2> QED
    BY <1>3, <2>1, <2>4, <2>5
<1> QED
  BY <1>3, <1>5, <1>6, <1>7

LEMMA MakerFollows == StrategyInv => InventoryWithinQuotes
<1> SUFFICES ASSUME StrategyInv, setup.kind = "MarketMaking"
    PROVE /\ position > 0 => position < MaxPosition + exposed["Buy"]
          /\ position < 0 => position > -(MaxPosition + exposed["Sell"])
          /\ side_fills["Buy"] + side_fills["Sell"] <= AllReported + strays
  BY DEF InventoryWithinQuotes
<1>1. BaseInv /\ MakerInv
  BY DEF StrategyInv
<1>2. /\ OrdersInv(orders, reports) /\ AllPositive(orders) /\ DOMAIN orders = 1 .. Len(orders)
      /\ position \in Int /\ MaxPosition \in Nat /\ exposed \in [Sides -> Int]
  BY <1>1, OrdersFacts, SetupFacts DEF BaseInv
<1>3. side_fills["Buy"] + side_fills["Sell"] <= AllReported + strays
  BY <1>1, <1>2, Bridges DEF MakerInv
<1>4. /\ OutSum(orders, reports, "Buy") \in Int /\ OutSum(orders, reports, "Buy") >= 0
      /\ OutSum(orders, reports, "Sell") \in Int /\ OutSum(orders, reports, "Sell") >= 0
  BY <1>2, SumsFacts, PositiveSums
<1>5. /\ Within(position, OutSum(orders, reports, "Buy"), exposed["Buy"])
      /\ Within(- position, OutSum(orders, reports, "Sell"), exposed["Sell"])
  <2>1. \A side \in Sides :
           Within(Signed(side, position), OutSum(orders, reports, side), exposed[side])
    BY <1>1 DEF MakerInv
  <2>2. Signed("Buy", position) = position /\ Signed("Sell", position) = - position
    BY DEF Signed
  <2> QED
    BY <2>1, <2>2 DEF Sides
<1>6. exposed["Buy"] \in Int /\ exposed["Sell"] \in Int
  BY <1>2 DEF Sides
<1>7. position > 0 => position < MaxPosition + exposed["Buy"]
  BY <1>2, <1>4, <1>5, <1>6 DEF Within
<1>8. position < 0 => position > -(MaxPosition + exposed["Sell"])
  BY <1>2, <1>4, <1>5, <1>6 DEF Within
<1> QED
  BY <1>3, <1>7, <1>8

\* What may come of some of the orders, when only the last has something to come.
LEMMA LastOnly ==
    ASSUME NEW n \in Nat, NEW S, IsFiniteSet(S), \A i \in S : i \in 1 .. n,
           NEW f, \A i \in 1 .. n : f[i] \in Int, \A i \in 1 .. n - 1 : f[i] = 0
    PROVE  SumFunctionOnSet(f, S) = 0 \/ (n > 0 /\ SumFunctionOnSet(f, S) = f[n])
<1>1. CASE n \notin S
  <2>1. \A i \in S : i \in 1 .. n - 1
    BY <1>1
  <2>2. \A i \in S : f[i] = 0
    BY <2>1
  <2> QED
    BY <2>2, SumZero
<1>2. CASE n \in S
  <2>1. \A i \in S : f[i] \in Int
    OBVIOUS
  <2>2. SumFunctionOnSet(f, S) = f[n] + SumFunctionOnSet(f, S \ {n})
    BY <1>2, <2>1, SumRemove
  <2>3. SumFunctionOnSet(f, S \ {n}) = 0
    <3>1. IsFiniteSet(S \ {n})
      BY FS_RemoveElement
    <3>2. \A i \in S \ {n} : i \in 1 .. n - 1
      OBVIOUS
    <3>3. \A i \in S \ {n} : f[i] = 0
      BY <3>2
    <3> QED
      BY <3>1, <3>3, SumZero
  <2>4. n > 0 /\ f[n] \in Int
    BY <1>2, <2>1
  <2> QED
    BY <2>2, <2>3, <2>4
<1> QED
  BY <1>1, <1>2

LEMMA SignalFollows == StrategyInv => PositionWithinSize
<1> DEFINE f == [id \in DOMAIN orders |-> Signed(orders[id].side, Outstanding(orders, id))]
<1> SUFFICES ASSUME StrategyInv, setup.kind \in {"MeanReversion", "Momentum"}, ~ overlapped,
                    NEW open \in SUBSET DOMAIN orders
    PROVE /\ Size(position + SumFunctionOnSet(f, open)) <= setup.quantity
          /\ position * (position + SumFunctionOnSet(f, open)) >= 0
  BY DEF PositionWithinSize
<1> DEFINE n == Len(orders)
           S == SumFunctionOnSet(f, open)
<1>1. BaseInv /\ SignalInv
  BY DEF StrategyInv
<1>2. /\ OrdersInv(orders, reports) /\ n \in Nat /\ DOMAIN orders = 1 .. n
      /\ position \in Int /\ setup.quantity \in Nat
      /\ \A id \in 1 .. n : Out(orders, reports, id) \in Int
  BY <1>1, OrdersFacts, SetupFacts DEF BaseInv
<1>3. \A id \in 1 .. n : f[id] = Signed(orders[id].side, Out(orders, reports, id))
  BY <1>2, Bridges
<1>4. \A id \in 1 .. n : f[id] \in Int
  BY <1>2, <1>3 DEF Signed
<1>5. /\ \A id \in 1 .. n - 1 : Out(orders, reports, id) = 0
      /\ n = 0 => position = 0
      /\ n > 0 => OneSided(position, position + Signed(orders[n].side, Out(orders, reports, n)),
                           setup.quantity)
  BY <1>1 DEF SignalInv
<1> HIDE DEF f, n
<1>6. \A id \in 1 .. n - 1 : f[id] = 0
  <2>1. \A id \in 1 .. n - 1 : id \in 1 .. n
    BY <1>2
  <2> QED
    BY <1>3, <1>5, <2>1 DEF Signed
<1>7. IsFiniteSet(open) /\ \A id \in open : id \in 1 .. n
  <2>1. IsFiniteSet(1 .. n) /\ open \subseteq 1 .. n
    BY <1>2, FS_Interval
  <2> QED
    BY <2>1, FS_Subset
<1>8. S = 0 \/ (n > 0 /\ S = f[n])
  BY <1>2, <1>4, <1>6, <1>7, LastOnly
<1> HIDE DEF S
<1>9. S \in Int
  BY <1>2, <1>4, <1>8
<1>10. OneSided(position, position + S, setup.quantity)
  <2>1. CASE n = 0
    BY <1>2, <1>5, <1>8, <1>9, <2>1 DEF OneSided
  <2>2. CASE n > 0
    <3>1. n \in 1 .. n
      BY <1>2, <2>2
    <3>2. OneSided(position, position + f[n], setup.quantity)
      BY <1>3, <1>5, <2>2, <3>1
    <3>3. f[n] \in Int
      BY <1>4, <3>1
    <3> QED
      BY <1>2, <1>8, <1>9, <3>2, <3>3 DEF OneSided
  <2> QED
    BY <1>2, <2>1, <2>2
<1>11. Size(position + S) <= setup.quantity
  BY <1>2, <1>9, <1>10 DEF OneSided, Size
<1>12. position * (position + S) >= 0
  <2>1. \A a, b \in Int : ((a >= 0 /\ b >= 0) \/ (a <= 0 /\ b <= 0)) => a * b >= 0
    OBVIOUS
  <2>2. position + S \in Int /\ ((position >= 0 /\ position + S >= 0)
                                    \/ (position <= 0 /\ position + S <= 0))
    BY <1>2, <1>9, <1>10 DEF OneSided
  <2> QED
    BY <1>2, <2>1, <2>2
<1> QED
  BY <1>11, <1>12 DEF S

\* The state has the types of its declarations, and what was reported of an order is
\* never less than nothing nor more than it had (strategy_base.cpp:6).
THEOREM StrategiesTypeCorrect == Spec => []TypeOK
<1> QED
  BY StrategiesAreConsistent, TypesFollow, PTL

\* A VWAP execution, whatever its total and its slices and whatever becomes of them,
\* sends no more than its total, no slice before its time, is never over-filled and has
\* stopped exactly when all is filled, if it is told of its own fills (strategies.cpp:24).
THEOREM ExecutionsKeepTheirTotal == Spec => []NeverOverExecutes
<1> QED
  BY StrategiesAreConsistent, VwapFollows, PTL

\* Whatever its limit and size, and whatever becomes of its quotes and when it is told,
\* the inventory of the market maker exceeds max_position_ by no more than the quotes of
\* a side that were out at once, and it counts no fill twice (strategies.cpp:191).
THEOREM InventoryIsBounded == Spec => []InventoryWithinQuotes
<1> QED
  BY StrategiesAreConsistent, MakerFollows, PTL

\* A strategy that follows a signal and never decides while an order of its own is
\* outstanding stays within position_size_ and on its side of zero (strategies.cpp:126
\* and 262), for any window, thresholds and prices.
THEOREM PositionsKeepTheirSize == Spec => []PositionWithinSize
<1> QED
  BY StrategiesAreConsistent, SignalFollows, PTL
=============================================================================
