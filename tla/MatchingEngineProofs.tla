------------------------ MODULE MatchingEngineProofs ------------------------
(***************************************************************************)
(* Proofs about MatchingEngine, for every set of symbols, prices,          *)
(* quantities, types and strategies, every number of orders, and with or   *)
(* without callbacks that cancel.  The first part is the inductive         *)
(* invariant, EngineInv.  The second is about who trades with whom, and    *)
(* how much: price-time priority, then the totals of the levels, then what *)
(* the matching loop owes to the orders that may not wait.                 *)
(***************************************************************************)
EXTENDS MatchingEngine, SumTheorems, SequenceTheorems, TLAPS

-----------------------------------------------------------------------------
(* The linked list of a level                                              *)

Listed(s, x) == \E i \in 1 .. Len(s) : s[i] = x

Ascending(s) == \A i, j \in 1 .. Len(s) : i < j => s[i] < s[j]

\* Unlinking an order that is in the list once shortens the list by that order:
\* what is left has the same members but one, in the same order.
LEMMA UnlinkProperties ==
    ASSUME NEW S, \A x \in S : x \in Nat, NEW s \in Seq(S), Ascending(s),
           NEW id, Listed(s, id)
    PROVE  /\ Unlink(s, id) \in Seq(S)
           /\ Len(Unlink(s, id)) = Len(s) - 1
           /\ Ascending(Unlink(s, id))
           /\ \A x : Listed(Unlink(s, id), x) <=> x # id /\ Listed(s, x)
<1> DEFINE i == CHOOSE j \in 1 .. Len(s) : s[j] = id
           n == Len(s)
           u == [j \in 1 .. n - 1 |-> IF j < i THEN s[j] ELSE s[j + 1]]
<1>1. n \in Nat /\ Len(s) = n /\ \A j \in 1 .. n : s[j] \in S /\ s[j] \in Nat
  BY ElementOfSeq, LenProperties
<1>2. i \in 1 .. n /\ s[i] = id
  BY DEF Listed
<1>3. Unlink(s, id) = u
  BY DEF Unlink
<1>4. \A j \in 1 .. n - 1 : u[j] = IF j < i THEN s[j] ELSE s[j + 1]
  OBVIOUS
<1>5. \A a, b \in 1 .. n : a < b => s[a] < s[b]
  BY DEF Ascending
<1> HIDE DEF i
<1>6. u \in Seq(S) /\ Len(u) = n - 1
  <2>1. n - 1 \in Nat
    BY <1>1, <1>2
  <2>2. \A j \in 1 .. n - 1 : (IF j < i THEN s[j] ELSE s[j + 1]) \in S
    BY <1>1, <1>2
  <2> QED
    BY <2>1, <2>2, IsASeq
<1> HIDE DEF n, u
<1>7. ASSUME NEW a \in 1 .. n - 1, NEW b \in 1 .. n - 1, a < b
      PROVE  u[a] < u[b]
  <2>1. CASE b < i
    BY <1>1, <1>2, <1>4, <1>5, <1>7, <2>1
  <2>2. CASE ~ (b < i) /\ a < i
    BY <1>1, <1>2, <1>4, <1>5, <1>7, <2>2
  <2>3. CASE ~ (a < i)
    BY <1>1, <1>2, <1>4, <1>5, <1>7, <2>3
  <2> QED
    BY <1>1, <1>2, <2>1, <2>2, <2>3
<1>8. \A j \in 1 .. n : j # i => s[j] # id
  BY <1>1, <1>2, <1>5
<1>9. ASSUME NEW x
      PROVE  (\E j \in 1 .. n - 1 : u[j] = x)
                 <=> x # id /\ \E j \in 1 .. n : s[j] = x
  <2>1. ASSUME NEW j \in 1 .. n - 1, u[j] = x
        PROVE  x # id /\ \E l \in 1 .. n : s[l] = x
    <3>1. CASE j < i
      BY <1>1, <1>2, <1>4, <1>8, <2>1, <3>1
    <3>2. CASE ~ (j < i)
      BY <1>1, <1>2, <1>4, <1>8, <2>1, <3>2
    <3> QED
      BY <3>1, <3>2
  <2>2. ASSUME x # id, NEW j \in 1 .. n, s[j] = x
        PROVE  \E l \in 1 .. n - 1 : u[l] = x
    <3>1. CASE j < i
      <4>1. j \in 1 .. n - 1 /\ u[j] = x
        BY <1>1, <1>2, <1>4, <2>2, <3>1
      <4> QED
        BY <4>1
    <3>2. CASE j > i
      <4>1. j - 1 \in 1 .. n - 1 /\ u[j - 1] = x
        BY <1>1, <1>2, <1>4, <2>2, <3>2
      <4> QED
        BY <4>1
    <3> QED
      BY <1>1, <1>2, <2>2, <3>1, <3>2
  <2> QED
    BY <2>1, <2>2
<1>10. Ascending(u)
  BY <1>6, <1>7 DEF Ascending
<1>11. ASSUME NEW x
       PROVE  Listed(u, x) <=> x # id /\ Listed(s, x)
  BY <1>1, <1>6, <1>9 DEF Listed
<1> QED
  BY <1>1, <1>3, <1>6, <1>10, <1>11

\* An order that arrives after all others keeps the list in order of arrival.
LEMMA ArrivalProperties ==
    ASSUME NEW S, \A x \in S : x \in Nat, NEW s \in Seq(S), Ascending(s), NEW id \in S,
           \A x : Listed(s, x) => x < id
    PROVE  /\ Append(s, id) \in Seq(S)
           /\ Append(s, id) # <<>>
           /\ Ascending(Append(s, id))
           /\ \A x : Listed(Append(s, id), x) <=> x = id \/ Listed(s, x)
  BY AppendProperties, ElementOfSeq, LenProperties DEF Ascending, Listed

\* Changing one level changes that level only, and keeps the type of the rest.
LEMMA UpdateLevel ==
    ASSUME NEW V, NEW f \in [Symbols -> [Sides -> [Prices -> V]]],
           NEW a \in Symbols, NEW b \in Sides, NEW c \in Prices, NEW v \in V,
           NEW g, g = [f EXCEPT ![a][b][c] = v]
    PROVE  /\ g \in [Symbols -> [Sides -> [Prices -> V]]]
           /\ \A sym \in Symbols, side \in Sides, p \in Prices :
                 g[sym][side][p] =
                    IF sym = a /\ side = b /\ p = c THEN v ELSE f[sym][side][p]
<1>1. \A side \in Sides : f[a][side] \in [Prices -> V]
  OBVIOUS
<1>2. [f[a][b] EXCEPT ![c] = v] \in [Prices -> V]
  BY <1>1
<1>3. /\ [f[a] EXCEPT ![b][c] = v] \in [Sides -> [Prices -> V]]
      /\ \A side \in Sides : [f[a] EXCEPT ![b][c] = v][side] =
            IF side = b THEN [f[a][b] EXCEPT ![c] = v] ELSE f[a][side]
  BY <1>1, <1>2
<1>4. \A sym \in Symbols : g[sym] = IF sym = a THEN [f[a] EXCEPT ![b][c] = v] ELSE f[sym]
  OBVIOUS
<1>5. g \in [Symbols -> [Sides -> [Prices -> V]]]
  BY <1>3
<1>6. ASSUME NEW sym \in Symbols, NEW side \in Sides, NEW p \in Prices
      PROVE  g[sym][side][p] =
                IF sym = a /\ side = b /\ p = c THEN v ELSE f[sym][side][p]
  BY <1>1, <1>3, <1>4
<1> QED
  BY <1>5, <1>6

-----------------------------------------------------------------------------
(* BookMatchesOrders, one order at a time                                  *)

InLevel(sym, side, p, id) == Listed(fifo[sym][side][p], id)

IndexOK ==
    \A sym \in Symbols : \A id : id \in index[sym] <=>
        id \in DOMAIN orders /\ orders[id].sym = sym /\ Bookable(id)

LevelsOK ==
    \A sym \in Symbols, side \in Sides, p \in Prices :
        /\ Ascending(fifo[sym][side][p])
        /\ \A id : InLevel(sym, side, p, id) <=>
              id \in index[sym] /\ orders[id].side = side /\ orders[id].price = p

LEMMA BookView == BookMatchesOrders <=> IndexOK /\ LevelsOK
  BY DEF BookMatchesOrders, IndexOK, LevelsOK, InLevel, Ascending, Listed

LEMMA BookViewNext == BookMatchesOrders' <=> IndexOK' /\ LevelsOK'
  BY DEF BookMatchesOrders, IndexOK, LevelsOK, InLevel, Ascending, Listed

\* The types of the parts of the book, for a given set of order ids.
BookTypesNext(ids) ==
    /\ index' \in [Symbols -> SUBSET ids]
    /\ fifo' \in [Symbols -> [Sides -> [Prices -> Seq(ids)]]]
    /\ total' \in [Symbols -> [Sides -> [Prices -> Int]]]

LEMMA OrderFacts ==
    ASSUME TypeOK, NEW id \in DOMAIN orders
    PROVE  /\ orders[id] \in Order
           /\ orders[id].sym \in Symbols
           /\ orders[id].side \in Sides
           /\ orders[id].rem \in Nat
           /\ orders[id].filled \in Nat
           /\ orders[id].type \in Types
           /\ orders[id].price \in Prices \cup {0}
           /\ orders[id].type \in {"Limit", "GTC"} => orders[id].price \in Prices
           /\ orders[id].price \in Nat
           /\ id \in Nat
<1>1. orders[id] \in Order
  BY ElementOfSeq DEF TypeOK
<1>2. id \in Nat
  BY LenProperties DEF TypeOK
<1>3. /\ orders[id] \in
            [sym : Symbols, side : Sides, type : Types, price : Prices \cup {0},
             qty : Quantities, filled : Nat, rem : Nat,
             status : {"New", "PartiallyFilled", "Filled", "Cancelled", "Rejected"},
             strat : Strategies]
      /\ PriceFits(orders[id].type, orders[id].price)
  BY <1>1 DEF Order
<1>4. orders[id].type \in {"Limit", "GTC"} => orders[id].price # 0
  BY <1>3 DEF PriceFits
<1>5. orders[id].price \in Nat
  <2>1. \A p \in Prices : p \in Nat
    BY PricesAssumption
  <2>2. orders[id].price \in Prices \cup {0}
    BY <1>3
  <2> QED
    BY <2>1, <2>2
<1> HIDE DEF Order
<1> QED
  BY <1>1, <1>2, <1>3, <1>4, <1>5

\* remove_order takes the order out of the index and out of its level, leaves
\* every other order where it was, and keeps the lists in order of arrival.
LEMMA RemoveEffect ==
    ASSUME TypeOK, IndexOK, LevelsOK, NEW id \in DOMAIN orders, RemoveFromBook(id)
    PROVE  /\ BookTypesNext(DOMAIN orders)
           /\ \A sym \in Symbols : \A x : x \in index'[sym] <=> x \in index[sym] /\ x # id
           /\ \A sym \in Symbols, side \in Sides, p \in Prices :
                 /\ Ascending(fifo'[sym][side][p])
                 /\ \A x : InLevel(sym, side, p, x)' <=>
                              InLevel(sym, side, p, x) /\ x # id
<1> DEFINE o == orders[id]
           left == Unlink(fifo[o.sym][o.side][o.price], id)
<1>1. CASE id \notin index[o.sym]
  <2>1. index' = index /\ fifo' = fifo /\ total' = total
    BY <1>1 DEF RemoveFromBook, book
  <2>2. BookTypesNext(DOMAIN orders)
    BY <2>1 DEF TypeOK, BookTypesNext
  <2>3. \A sym \in Symbols : id \notin index[sym]
    BY <1>1 DEF IndexOK
  <2>4. \A sym \in Symbols, side \in Sides, p \in Prices : ~ InLevel(sym, side, p, id)
    BY <2>3 DEF LevelsOK
  <2>5. \A sym \in Symbols, side \in Sides, p \in Prices : \A x :
           InLevel(sym, side, p, x)' <=> InLevel(sym, side, p, x)
    BY <2>1 DEF InLevel
  <2> QED
    BY <2>1, <2>2, <2>3, <2>4, <2>5 DEF LevelsOK
<1>2. CASE id \in index[o.sym]
  <2>1. o.sym \in Symbols /\ o.side \in Sides /\ o.price \in Prices /\ o.rem \in Nat
    BY <1>2, OrderFacts DEF IndexOK, Bookable
  <2>2. /\ fifo[o.sym][o.side][o.price] \in Seq(DOMAIN orders)
        /\ total[o.sym][o.side][o.price] \in Int
    BY <2>1 DEF TypeOK
  <2>3. Ascending(fifo[o.sym][o.side][o.price]) /\ InLevel(o.sym, o.side, o.price, id)
    BY <1>2, <2>1 DEF LevelsOK
  <2>4. \A x \in DOMAIN orders : x \in Nat
    BY OrderFacts
  <2>5. /\ left \in Seq(DOMAIN orders)
        /\ Ascending(left)
        /\ \A x : Listed(left, x) <=> x # id /\ InLevel(o.sym, o.side, o.price, x)
    <3> DEFINE old == fifo[o.sym][o.side][o.price]
    <3>1. old \in Seq(DOMAIN orders) /\ Ascending(old) /\ Listed(old, id)
      BY <2>2, <2>3 DEF InLevel
    <3>2. \A x : InLevel(o.sym, o.side, o.price, x) <=> Listed(old, x)
      BY DEF InLevel
    <3>3. left = Unlink(old, id)
      OBVIOUS
    <3> HIDE DEF old, left
    <3> QED
      BY <2>4, <3>1, <3>2, <3>3, UnlinkProperties
  <2> HIDE DEF left
  <2>6. /\ index' = [index EXCEPT ![o.sym] = @ \ {id}]
        /\ fifo'  = [fifo EXCEPT ![o.sym][o.side][o.price] = left]
        /\ total' = [total EXCEPT ![o.sym][o.side][o.price] =
                        IF left = <<>> THEN 0 ELSE @ - o.rem]
    BY <1>2 DEF RemoveFromBook, left
  <2>7. /\ fifo' \in [Symbols -> [Sides -> [Prices -> Seq(DOMAIN orders)]]]
        /\ \A sym \in Symbols, side \in Sides, p \in Prices :
              fifo'[sym][side][p] =
                 IF sym = o.sym /\ side = o.side /\ p = o.price THEN left
                 ELSE fifo[sym][side][p]
    <3>1. fifo \in [Symbols -> [Sides -> [Prices -> Seq(DOMAIN orders)]]]
      BY DEF TypeOK
    <3> HIDE DEF o
    <3> QED
      BY <2>1, <2>5, <2>6, <3>1, UpdateLevel
  <2>71. BookTypesNext(DOMAIN orders)
    <3> DEFINE t == IF left = <<>> THEN 0 ELSE total[o.sym][o.side][o.price] - o.rem
    <3>1. /\ total \in [Symbols -> [Sides -> [Prices -> Int]]]
          /\ index \in [Symbols -> SUBSET DOMAIN orders]
      BY DEF TypeOK
    <3>2. t \in Int
      BY <2>1, <2>2
    <3>3. total' = [total EXCEPT ![o.sym][o.side][o.price] = t]
      BY <2>6
    <3>4. index' \in [Symbols -> SUBSET DOMAIN orders]
      BY <2>1, <2>6, <3>1
    <3> HIDE DEF o, t
    <3>5. total' \in [Symbols -> [Sides -> [Prices -> Int]]]
      BY <2>1, <3>1, <3>2, <3>3, UpdateLevel
    <3> QED
      BY <2>7, <3>4, <3>5 DEF BookTypesNext
  <2>8. \A sym \in Symbols : \A x : x \in index'[sym] <=> x \in index[sym] /\ x # id
    BY <2>1, <2>6 DEF TypeOK, IndexOK
  <2>9. ASSUME NEW sym \in Symbols, NEW side \in Sides, NEW p \in Prices
        PROVE  /\ Ascending(fifo'[sym][side][p])
               /\ \A x : InLevel(sym, side, p, x)' <=>
                            InLevel(sym, side, p, x) /\ x # id
    <3>1. CASE sym = o.sym /\ side = o.side /\ p = o.price
      <4>1. fifo'[sym][side][p] = left
        BY <2>7, <3>1
      <4> QED
        BY <2>5, <3>1, <4>1 DEF InLevel
    <3>2. CASE ~ (sym = o.sym /\ side = o.side /\ p = o.price)
      <4>1. fifo'[sym][side][p] = fifo[sym][side][p]
        BY <2>7, <3>2
      <4>2. ~ InLevel(sym, side, p, id)
        BY <3>2 DEF LevelsOK, IndexOK
      <4> QED
        BY <4>1, <4>2 DEF InLevel, LevelsOK
    <3> QED
      BY <3>1, <3>2
  <2> QED
    BY <2>71, <2>8, <2>9
<1> QED
  BY <1>1, <1>2

\* add_order puts the newest order into the index and at the end of the level of
\* its side and price, and leaves every other order where it was.
LEMMA AddEffect ==
    ASSUME TypeOK, IndexOK, LevelsOK, NEW id \in DOMAIN orders, ~ Bookable(id),
           \A x \in DOMAIN orders : x <= id,
           orders[id].type \in {"Limit", "GTC"}, AddToBook(id)
    PROVE  /\ BookTypesNext(DOMAIN orders)
           /\ \A sym \in Symbols : \A x : x \in index'[sym] <=>
                 x \in index[sym] \/ (x = id /\ sym = orders[id].sym)
           /\ \A sym \in Symbols, side \in Sides, p \in Prices :
                 /\ Ascending(fifo'[sym][side][p])
                 /\ \A x : InLevel(sym, side, p, x)' <=>
                      \/ InLevel(sym, side, p, x)
                      \/ /\ x = id /\ sym = orders[id].sym
                         /\ side = orders[id].side /\ p = orders[id].price
<1> DEFINE o == orders[id]
           old == fifo[o.sym][o.side][o.price]
           new == Append(old, id)
           t == total[o.sym][o.side][o.price] + o.rem
<1>1. /\ o.sym \in Symbols /\ o.side \in Sides /\ o.price \in Prices /\ o.rem \in Nat
      /\ \A x \in DOMAIN orders : x \in Nat
  BY OrderFacts
<1>2. /\ old \in Seq(DOMAIN orders)
      /\ t \in Int
  BY <1>1 DEF TypeOK
<1>3. \A sym \in Symbols : id \notin index[sym]
  BY DEF IndexOK
<1>4. \A x : Listed(old, x) => x < id
  <2>1. ASSUME NEW x, Listed(old, x)
        PROVE  x < id
    <3>1. x \in index[o.sym]
      BY <1>1, <2>1 DEF LevelsOK, InLevel
    <3>2. x \in DOMAIN orders /\ x # id
      BY <1>1, <1>3, <3>1 DEF IndexOK
    <3> QED
      BY <1>1, <3>2
  <2> QED
    BY <2>1
<1>5. Ascending(old)
  BY <1>1 DEF LevelsOK
<1>6. /\ index' = [index EXCEPT ![o.sym] = @ \cup {id}]
      /\ fifo'  = [fifo EXCEPT ![o.sym][o.side][o.price] = new]
      /\ total' = [total EXCEPT ![o.sym][o.side][o.price] = t]
  BY DEF AddToBook
<1>7. /\ index \in [Symbols -> SUBSET DOMAIN orders]
      /\ fifo \in [Symbols -> [Sides -> [Prices -> Seq(DOMAIN orders)]]]
      /\ total \in [Symbols -> [Sides -> [Prices -> Int]]]
  BY DEF TypeOK
<1>8. \A sym \in Symbols, side \in Sides, p \in Prices :
         (sym = o.sym /\ side = o.side /\ p = o.price) => fifo[sym][side][p] = old
  OBVIOUS
<1> HIDE DEF old
<1>9. /\ new \in Seq(DOMAIN orders)
      /\ Ascending(new)
      /\ \A x : Listed(new, x) <=> x = id \/ Listed(old, x)
  BY <1>1, <1>2, <1>4, <1>5, ArrivalProperties
<1> HIDE DEF o, new, t
<1>10. /\ fifo' \in [Symbols -> [Sides -> [Prices -> Seq(DOMAIN orders)]]]
       /\ \A sym \in Symbols, side \in Sides, p \in Prices :
              fifo'[sym][side][p] =
                 IF sym = o.sym /\ side = o.side /\ p = o.price THEN new
                 ELSE fifo[sym][side][p]
  <2>1. fifo \in [Symbols -> [Sides -> [Prices -> Seq(DOMAIN orders)]]]
    BY <1>7
  <2>2. fifo'  = [fifo EXCEPT ![o.sym][o.side][o.price] = new]
    BY <1>6
  <2> QED
    BY <1>1, <1>9, <2>1, <2>2, UpdateLevel
<1>11. total' \in [Symbols -> [Sides -> [Prices -> Int]]]
  BY <1>1, <1>2, <1>6, <1>7, UpdateLevel
<1>12. /\ index' \in [Symbols -> SUBSET DOMAIN orders]
       /\ \A sym \in Symbols : \A x : x \in index'[sym] <=>
             x \in index[sym] \/ (x = id /\ sym = o.sym)
  BY <1>1, <1>6, <1>7
<1>13. ASSUME NEW sym \in Symbols, NEW side \in Sides, NEW p \in Prices
       PROVE  /\ Ascending(fifo'[sym][side][p])
              /\ \A x : InLevel(sym, side, p, x)' <=>
                    \/ InLevel(sym, side, p, x)
                    \/ x = id /\ sym = o.sym /\ side = o.side /\ p = o.price
  <2>1. CASE sym = o.sym /\ side = o.side /\ p = o.price
    <3>1. fifo'[sym][side][p] = new /\ fifo[sym][side][p] = old
      BY <1>8, <1>10, <2>1
    <3> QED
      BY <1>9, <2>1, <3>1 DEF InLevel
  <2>2. CASE ~ (sym = o.sym /\ side = o.side /\ p = o.price)
    <3>1. fifo'[sym][side][p] = fifo[sym][side][p]
      BY <1>10, <2>2
    <3> QED
      BY <2>2, <3>1 DEF InLevel, LevelsOK
  <2> QED
    BY <2>1, <2>2
<1>14. BookTypesNext(DOMAIN orders)
  BY <1>10, <1>11, <1>12 DEF BookTypesNext
<1> QED
  BY <1>12, <1>13, <1>14 DEF o

-----------------------------------------------------------------------------
(* How a step carries the book's invariants over                           *)

\* The fields that say where an order belongs never change.
SamePlaces ==
    /\ DOMAIN orders' = DOMAIN orders
    /\ \A id \in DOMAIN orders :
          /\ orders'[id].sym = orders[id].sym
          /\ orders'[id].side = orders[id].side
          /\ orders'[id].price = orders[id].price

\* A step that leaves the book alone keeps it in agreement with the orders if it
\* changes nobody's right to be there.
LEMMA BookKept ==
    ASSUME TypeOK, BookMatchesOrders, index' = index, fifo' = fifo,
           \A id \in DOMAIN orders :
              /\ id \in DOMAIN orders'
              /\ orders'[id].sym = orders[id].sym
              /\ orders'[id].side = orders[id].side
              /\ orders'[id].price = orders[id].price,
           \A id \in DOMAIN orders : Bookable(id)' <=> Bookable(id),
           \A id \in DOMAIN orders' \ DOMAIN orders : ~ Bookable(id)'
    PROVE  BookMatchesOrders'
<1>1. IndexOK /\ LevelsOK
  BY BookView
<1>2. IndexOK'
  BY <1>1 DEF IndexOK
<1>3. \A sym \in Symbols : \A x : x \in index[sym] => x \in DOMAIN orders
  BY <1>1 DEF IndexOK
<1>4. \A sym \in Symbols, side \in Sides, p \in Prices : \A x :
         InLevel(sym, side, p, x)' <=> InLevel(sym, side, p, x)
  BY DEF InLevel
<1>5. LevelsOK'
  BY <1>1, <1>3, <1>4 DEF LevelsOK
<1> QED
  BY <1>2, <1>5, BookViewNext

\* A step that removes an order keeps the agreement if that order, and no other,
\* loses its right to be in the book.
LEMMA BookWithout ==
    ASSUME TypeOK, BookMatchesOrders, SamePlaces, NEW id \in DOMAIN orders,
           RemoveFromBook(id),
           \A x \in DOMAIN orders : Bookable(x)' <=> Bookable(x) /\ x # id
    PROVE  BookMatchesOrders'
<1>1. IndexOK /\ LevelsOK
  BY BookView
<1>2. /\ \A sym \in Symbols : \A x : x \in index'[sym] <=> x \in index[sym] /\ x # id
      /\ \A sym \in Symbols, side \in Sides, p \in Prices :
            /\ Ascending(fifo'[sym][side][p])
            /\ \A x : InLevel(sym, side, p, x)' <=> InLevel(sym, side, p, x) /\ x # id
  BY <1>1, RemoveEffect
<1>3. IndexOK'
  BY <1>1, <1>2 DEF IndexOK, SamePlaces
<1>4. \A sym \in Symbols : \A x : x \in index[sym] => x \in DOMAIN orders
  BY <1>1 DEF IndexOK
<1>5. LevelsOK'
  BY <1>1, <1>2, <1>4 DEF LevelsOK, SamePlaces
<1> QED
  BY <1>3, <1>5, BookViewNext

\* A step that adds the newest order keeps the agreement if that order, and no
\* other, gains its right to be in the book.
LEMMA BookWith ==
    ASSUME TypeOK, BookMatchesOrders, SamePlaces, NEW id \in DOMAIN orders,
           ~ Bookable(id), \A x \in DOMAIN orders : x <= id,
           orders[id].type \in {"Limit", "GTC"}, AddToBook(id),
           \A x \in DOMAIN orders : Bookable(x)' <=> Bookable(x) \/ x = id
    PROVE  BookMatchesOrders'
<1>1. IndexOK /\ LevelsOK
  BY BookView
<1>2. /\ \A sym \in Symbols : \A x : x \in index'[sym] <=>
            x \in index[sym] \/ (x = id /\ sym = orders[id].sym)
      /\ \A sym \in Symbols, side \in Sides, p \in Prices :
            /\ Ascending(fifo'[sym][side][p])
            /\ \A x : InLevel(sym, side, p, x)' <=>
                 \/ InLevel(sym, side, p, x)
                 \/ /\ x = id /\ sym = orders[id].sym
                    /\ side = orders[id].side /\ p = orders[id].price
  BY <1>1, AddEffect
<1>3. IndexOK'
  BY <1>1, <1>2 DEF IndexOK, SamePlaces
<1>4. \A sym \in Symbols : \A x : x \in index[sym] => x \in DOMAIN orders
  BY <1>1 DEF IndexOK
<1>5. LevelsOK'
  <2>1. ASSUME NEW sym \in Symbols, NEW side \in Sides, NEW p \in Prices, NEW x
        PROVE  InLevel(sym, side, p, x)' <=>
                  x \in index'[sym] /\ orders'[x].side = side /\ orders'[x].price = p
    <3>1. CASE x = id
      BY <1>1, <1>2, <3>1 DEF LevelsOK, IndexOK, SamePlaces
    <3>2. CASE x # id
      <4>1. InLevel(sym, side, p, x)' <=> InLevel(sym, side, p, x)
        BY <1>2, <3>2
      <4>2. x \in index'[sym] <=> x \in index[sym]
        BY <1>2, <3>2
      <4> QED
        BY <1>1, <1>4, <4>1, <4>2 DEF LevelsOK, SamePlaces
    <3> QED
      BY <3>1, <3>2
  <2> QED
    BY <1>2, <2>1 DEF LevelsOK
<1> QED
  BY <1>3, <1>5, BookViewNext

LEMMA NonEmptyListed ==
    ASSUME NEW S, NEW s \in Seq(S)
    PROVE  s # <<>> <=> \E x : Listed(s, x)
<1>1. ASSUME s # <<>>
      PROVE  Listed(s, s[1])
  <2>1. 1 \in 1 .. Len(s)
    BY <1>1, LenProperties, EmptySeq
  <2> QED
    BY <2>1 DEF Listed
<1>2. ASSUME s = <<>>, NEW x, Listed(s, x)
      PROVE  FALSE
  BY <1>2 DEF Listed
<1> QED
  BY <1>1, <1>2

\* Where no order gains a place, no price does, and the book stays uncrossed.
LEMMA NoNewPrices ==
    ASSUME TypeOK, BookUncrossed,
           NEW ids, fifo' \in [Symbols -> [Sides -> [Prices -> Seq(ids)]]],
           \A sym \in Symbols, side \in Sides, p \in Prices : \A x :
              InLevel(sym, side, p, x)' => InLevel(sym, side, p, x)
    PROVE  /\ BookUncrossed'
           /\ \A sym \in Symbols, side \in Sides : \A p \in LevelPrices(sym, side)' :
                 p \in LevelPrices(sym, side)
<1>1. ASSUME NEW sym \in Symbols, NEW side \in Sides, NEW p \in Prices,
             fifo'[sym][side][p] # <<>>
      PROVE  fifo[sym][side][p] # <<>>
  <2>1. /\ fifo[sym][side][p] \in Seq(DOMAIN orders)
        /\ fifo'[sym][side][p] \in Seq(ids)
    BY DEF TypeOK
  <2>2. PICK x : InLevel(sym, side, p, x)'
    BY <1>1, <2>1, NonEmptyListed DEF InLevel
  <2>3. Listed(fifo[sym][side][p], x)
    BY <2>2 DEF InLevel
  <2> QED
    BY <2>1, <2>3, NonEmptyListed
<1>2. \A sym \in Symbols, side \in Sides : \A p \in LevelPrices(sym, side)' :
         p \in LevelPrices(sym, side)
  BY <1>1 DEF LevelPrices
<1>3. BookUncrossed'
  BY <1>2 DEF BookUncrossed, Sides
<1> QED
  BY <1>2, <1>3

-----------------------------------------------------------------------------
(* What happens to an order                                                *)

Placed(o, x) ==
    /\ x \in Order
    /\ x.sym = o.sym /\ x.side = o.side /\ x.type = o.type /\ x.price = o.price

LEMMA CancelOfOrder ==
    ASSUME NEW o \in Order
    PROVE  /\ Placed(o, CancelOf(o))
           /\ CancelOf(o).rem = o.rem
           /\ ~ Active(CancelOf(o))
  BY DEF CancelOf, Active, Placed, Order

LEMMA FillOfOrder ==
    ASSUME NEW o \in Order, NEW q \in Nat, q <= o.rem
    PROVE  /\ Placed(o, ApplyFill(o, q))
           /\ ApplyFill(o, q).rem = o.rem - q
           /\ ApplyFill(o, q).rem = 0 => ~ Active(ApplyFill(o, q))
           /\ ApplyFill(o, q).rem # 0 => Active(ApplyFill(o, q))
<1> DEFINE x == ApplyFill(o, q)
<1>1. o \in [sym : Symbols, side : Sides, type : Types, price : Prices \cup {0},
             qty : Quantities, filled : Nat, rem : Nat,
             status : {"New", "PartiallyFilled", "Filled", "Cancelled", "Rejected"},
             strat : Strategies] /\ PriceFits(o.type, o.price)
  BY DEF Order
<1>2. /\ x.rem = o.rem - q
      /\ x.status = IF o.rem = q THEN "Filled" ELSE "PartiallyFilled"
      /\ x.sym = o.sym /\ x.side = o.side /\ x.type = o.type /\ x.price = o.price
  BY <1>1 DEF ApplyFill
<1>3. o.filled + q \in Nat /\ o.rem - q \in Nat
  BY <1>1
<1>4. x \in [sym : Symbols, side : Sides, type : Types, price : Prices \cup {0},
             qty : Quantities, filled : Nat, rem : Nat,
             status : {"New", "PartiallyFilled", "Filled", "Cancelled", "Rejected"},
             strat : Strategies]
  BY <1>1, <1>3 DEF ApplyFill
<1>5. x \in Order
  BY <1>1, <1>2, <1>4 DEF Order
<1>6. o.rem \in Nat
  BY <1>1
<1> HIDE DEF x
<1>7. Placed(o, x)
  BY <1>2, <1>5 DEF Placed
<1>8. (x.rem = 0 => ~ Active(x)) /\ (x.rem # 0 => Active(x))
  BY <1>2, <1>6 DEF Active
<1> QED
  BY <1>2, <1>7, <1>8 DEF x


\* Changing one order of the list.
LEMMA UpdateOrder ==
    ASSUME NEW s \in Seq(Order), NEW id \in DOMAIN s, NEW x, Placed(s[id], x),
           NEW new, new = [s EXCEPT ![id] = x]
    PROVE  /\ new \in Seq(Order)
           /\ DOMAIN new = DOMAIN s
           /\ Len(new) = Len(s)
           /\ new[id] = x
           /\ \A i \in DOMAIN s : i # id => new[i] = s[i]
           /\ \A i \in DOMAIN s : Placed(s[i], new[i])
<1>1. x \in Order
  BY DEF Placed
<1>2. /\ new \in Seq(Order)
      /\ DOMAIN new = DOMAIN s
      /\ Len(new) = Len(s)
  <2>1. id \in 1 .. Len(s)
    BY LenProperties
  <2> QED
    BY <1>1, <2>1, ExceptSeq, LenProperties
<1>3. /\ new[id] = x
      /\ \A i \in DOMAIN s : i # id => new[i] = s[i]
  OBVIOUS
<1>4. \A i \in DOMAIN s : s[i] \in Order
  BY ElementOfSeq, LenProperties
<1> QED
  BY <1>2, <1>3, <1>4 DEF Placed

-----------------------------------------------------------------------------
(* The best price                                                          *)

\* If the best opposite price is beyond o's limit, every opposite price is.
LEMMA BeyondLimit ==
    ASSUME NEW o, o.sym \in Symbols, o.side \in Sides, o.price \in Nat,
           ~ \E p \in Prices : IsBest(o.sym, Opposite(o.side), p) /\ Willing(o, p)
    PROVE  \A p \in LevelPrices(o.sym, Opposite(o.side)) : ~ Willing(o, p)
<1> DEFINE S == LevelPrices(o.sym, Opposite(o.side))
<1>1. SUFFICES ASSUME NEW p \in S, Willing(o, p)
               PROVE  FALSE
  OBVIOUS
<1>2. S \in SUBSET Prices /\ S # {} /\ \A q \in S : q \in Nat /\ q \in Prices
  BY PricesAssumption DEF LevelPrices
<1>3. PICK lo \in S : \A q \in S : lo <= q
  BY <1>2, PricesAssumption
<1>4. PICK hi \in S : \A q \in S : q <= hi
  BY <1>2, PricesAssumption
<1>5. CASE o.side = "Buy"
  <2>1. IsBest(o.sym, Opposite(o.side), lo)
    BY <1>2, <1>3, <1>5 DEF IsBest, Better, Opposite
  <2>2. o.price >= p /\ lo <= p
    BY <1>3, <1>5, <1>1 DEF Willing
  <2>3. Willing(o, lo)
    BY <1>2, <1>5, <2>2 DEF Willing
  <2> QED
    BY <1>2, <2>1, <2>3
<1>6. CASE o.side = "Sell"
  <2>1. IsBest(o.sym, Opposite(o.side), hi)
    BY <1>2, <1>4, <1>6 DEF IsBest, Better, Opposite
  <2>2. o.price <= p /\ p <= hi
    BY <1>4, <1>6, <1>1 DEF Willing
  <2>3. Willing(o, hi)
    BY <1>2, <1>6, <2>2 DEF Willing
  <2> QED
    BY <1>2, <2>1, <2>3
<1> QED
  BY <1>5, <1>6 DEF Sides

-----------------------------------------------------------------------------
(* The inductive invariant, one action at a time                           *)

LEMMA InitEngineInv == Init => EngineInv
<1> SUFFICES ASSUME Init
             PROVE  EngineInv
  OBVIOUS
<1>1. orders = <<>> /\ DOMAIN orders = {} /\ Len(orders) = 0
  BY DEF Init
<1>2. TypeOK
  BY <1>1, ConstantsAssumption DEF Init, TypeOK
<1>3. ControlOK
  BY DEF Init, ControlOK
<1>4. BookMatchesOrders
  <2>1. IndexOK
    BY <1>1 DEF Init, IndexOK
  <2>2. LevelsOK
    BY DEF Init, LevelsOK, InLevel, Listed, Ascending
  <2> QED
    BY <2>1, <2>2, BookView
<1>5. BookUncrossed
  BY DEF Init, BookUncrossed, LevelPrices, Sides
<1>6. RestsOutside
  BY DEF Init, RestsOutside
<1> QED
  BY <1>2, <1>3, <1>4, <1>5, <1>6 DEF EngineInv

\* Ids are numbers, so no id is the null pointer.
LEMMA IdFacts ==
    ASSUME TypeOK
    PROVE  /\ \A id \in DOMAIN orders : id \in Nat /\ id # None /\ id <= Len(orders)
           /\ \A p \in Prices : p # None
           /\ Len(orders) \in Nat
           /\ DOMAIN orders = 1 .. Len(orders)
  BY LenProperties, PricesAssumption, ConstantsAssumption DEF TypeOK

\* Steps that only move the loop.
LEMMA SameBook ==
    ASSUME EngineInv, UNCHANGED <<orders, book, aggressor, passive>>
    PROVE  BookMatchesOrders' /\ BookUncrossed'
<1>1. BookMatchesOrders'
  BY BookKept DEF EngineInv, book, Bookable, Rests, Active
<1>2. BookUncrossed'
  BY DEF EngineInv, book, BookUncrossed, LevelPrices
<1> QED
  BY <1>1, <1>2

LEMMA TakeLevelKeeps ==
    ASSUME EngineInv, TakeLevel
    PROVE  EngineInv'
<1>1. BookMatchesOrders' /\ BookUncrossed'
  BY SameBook DEF TakeLevel
<1>2. level' \in Prices /\ level' # None
  BY IdFacts DEF TakeLevel, EngineInv
<1>3. TypeOK'
  BY <1>2 DEF EngineInv, TypeOK, TakeLevel, book
<1>4. ControlOK'
  BY <1>2 DEF EngineInv, ControlOK, TakeLevel, Active
<1>5. RestsOutside'
  BY DEF TakeLevel, RestsOutside
<1> QED
  BY <1>1, <1>3, <1>4, <1>5 DEF EngineInv

LEMMA LeaveLevelKeeps ==
    ASSUME EngineInv, LeaveLevel
    PROVE  EngineInv'
<1>1. BookMatchesOrders' /\ BookUncrossed'
  BY SameBook DEF LeaveLevel
<1>2. TypeOK'
  BY DEF EngineInv, TypeOK, LeaveLevel, book
<1>3. ControlOK'
  BY DEF EngineInv, ControlOK, LeaveLevel, Active
<1>4. RestsOutside'
  BY DEF LeaveLevel, RestsOutside
<1> QED
  BY <1>1, <1>2, <1>3, <1>4 DEF EngineInv

LEMMA LeaveLevelsKeeps ==
    ASSUME EngineInv, LeaveLevels
    PROVE  EngineInv'
<1>1. BookMatchesOrders' /\ BookUncrossed'
  BY SameBook DEF LeaveLevels
<1>2. TypeOK'
  BY DEF EngineInv, TypeOK, LeaveLevels, book
<1>3. ControlOK'
  BY DEF EngineInv, ControlOK, LeaveLevels, Active
<1>4. RestsOutside'
  <2> DEFINE o == orders[aggressor]
  <2>1. SUFFICES ASSUME o.type \in {"Limit", "GTC"}, o.rem # 0
                 PROVE  \A p \in LevelPrices(o.sym, Opposite(o.side)) : ~ Willing(o, p)
    BY DEF RestsOutside, LeaveLevels, book, LevelPrices
  <2>2. aggressor \in DOMAIN orders
    BY DEF EngineInv, ControlOK, TypeOK, LeaveLevels
  <2>3. o.sym \in Symbols /\ o.side \in Sides /\ o.price \in Nat
    BY <2>2, OrderFacts DEF EngineInv
  <2>4. ~ \E p \in Prices : IsBest(o.sym, Opposite(o.side), p) /\ MayTakeLevel(o, p)
    BY <2>1 DEF LeaveLevels
  <2>5. \A p \in Prices : Willing(o, p) => MayTakeLevel(o, p)
    BY DEF MayTakeLevel
  <2> HIDE DEF o
  <2> QED
    BY <2>3, <2>4, <2>5, BeyondLimit
<1> QED
  BY <1>1, <1>2, <1>3, <1>4 DEF EngineInv

LEMMA CancelAllOrdersKeeps ==
    ASSUME EngineInv, NEW strat \in Strategies, CancelAllOrders(strat)
    PROVE  EngineInv'
<1>1. BookMatchesOrders' /\ BookUncrossed'
  BY SameBook DEF CancelAllOrders
<1>2. TypeOK'
  BY DEF EngineInv, TypeOK, CancelAllOrders, book
<1>3. ControlOK'
  BY DEF EngineInv, ControlOK, CancelAllOrders, Active, MayCancel
<1>4. RestsOutside'
  BY DEF CancelAllOrders, RestsOutside, MayCancel
<1> QED
  BY <1>1, <1>2, <1>3, <1>4 DEF EngineInv

\* A cancellation, between calls or in the callbacks of a fill.
LEMMA CancelOneKeeps ==
    ASSUME EngineInv, NEW id \in DOMAIN orders, CancelOne(id),
           UNCHANGED <<pc, aggressor, level, passive>>, pc \in {"idle", "callbacks"},
           \A x \in sweep' : x \in sweep /\ x # id
    PROVE  EngineInv'
<1> DEFINE x == CancelOf(orders[id])
<1>1. orders[id] \in Order /\ orders \in Seq(Order)
  BY OrderFacts DEF EngineInv, TypeOK
<1>2. /\ Placed(orders[id], x)
      /\ ~ Active(x)
      /\ x.rem = orders[id].rem
  BY <1>1, CancelOfOrder
<1>3. orders' = [orders EXCEPT ![id] = x]
  BY DEF CancelOne
<1> HIDE DEF x
<1>4. /\ orders' \in Seq(Order)
      /\ DOMAIN orders' = DOMAIN orders
      /\ Len(orders') = Len(orders)
      /\ orders'[id] = x
      /\ \A i \in DOMAIN orders : i # id => orders'[i] = orders[i]
      /\ \A i \in DOMAIN orders : Placed(orders[i], orders'[i])
  BY <1>1, <1>2, <1>3, UpdateOrder
<1>5. SamePlaces
  BY <1>4 DEF SamePlaces, Placed
<1>6. IndexOK /\ LevelsOK
  BY BookView DEF EngineInv
<1>7. /\ BookTypesNext(DOMAIN orders)
      /\ \A sym \in Symbols, side \in Sides, p \in Prices : \A i :
            InLevel(sym, side, p, i)' => InLevel(sym, side, p, i)
  BY <1>6, RemoveEffect DEF CancelOne, EngineInv
<1>8. TypeOK'
  BY <1>4, <1>7 DEF EngineInv, TypeOK, BookTypesNext
<1>9. ControlOK'
  <2>1. aggressor # None => orders'[aggressor].type = orders[aggressor].type
    BY <1>4 DEF EngineInv, TypeOK, Placed
  <2>2. \A i \in sweep' : Active(orders'[i])
    BY <1>4 DEF EngineInv, ControlOK, TypeOK
  <2>3. (passive # None /\ orders'[passive].rem = 0) => ~ Active(orders'[passive])
    BY <1>2, <1>4 DEF EngineInv, ControlOK, TypeOK
  <2> QED
    BY <1>4, <2>1, <2>2, <2>3 DEF EngineInv, ControlOK
<1>10. \A i \in DOMAIN orders : Bookable(i)' <=> Bookable(i) /\ i # id
  <2>1. ~ Bookable(id)'
    BY <1>2, <1>4 DEF EngineInv, ControlOK, CancelOne, Bookable, Rests
  <2>2. \A i \in DOMAIN orders : i # id => (Bookable(i)' <=> Bookable(i))
    BY <1>4 DEF Bookable, Rests, Active
  <2> QED
    BY <2>1, <2>2
<1>11. BookMatchesOrders'
  BY <1>5, <1>10, BookWithout DEF CancelOne, EngineInv
<1>12. BookUncrossed'
  BY <1>7, NoNewPrices DEF EngineInv, BookTypesNext
<1>13. RestsOutside'
  BY DEF RestsOutside
<1> QED
  BY <1>8, <1>9, <1>11, <1>12, <1>13 DEF EngineInv

LEMMA CancelOrderKeeps ==
    ASSUME EngineInv, NEW id \in DOMAIN orders, CancelOrder(id)
    PROVE  EngineInv'
  BY CancelOneKeeps DEF CancelOrder, MayCancel

LEMMA CancelNextKeeps ==
    ASSUME EngineInv, NEW id \in DOMAIN orders, CancelNext(id)
    PROVE  EngineInv'
<1>1. pc \in {"idle", "callbacks"}
  BY DEF CancelNext, EngineInv, ControlOK
<1> QED
  BY <1>1, CancelOneKeeps DEF CancelNext

\* After the callbacks the passive order leaves the book if it was filled whole.
LEMMA AfterFillKeeps ==
    ASSUME EngineInv, AfterFill
    PROVE  EngineInv'
<1>1. /\ passive \in DOMAIN orders
      /\ orders' = orders /\ aggressor' = aggressor /\ passive' = None
      /\ \A id \in DOMAIN orders : id # None
      /\ orders[passive].rem \in Nat
  BY IdFacts, OrderFacts DEF EngineInv, ControlOK, TypeOK, AfterFill
<1>2. ControlOK'
  BY DEF EngineInv, ControlOK, AfterFill, Active
<1>3. RestsOutside'
  BY DEF RestsOutside, AfterFill
<1>4. CASE orders[passive].rem # 0
  <2>1. UNCHANGED book
    BY <1>4 DEF AfterFill
  <2>2. TypeOK'
    BY <1>1, <2>1 DEF EngineInv, TypeOK, AfterFill, book
  <2>3. \A id \in DOMAIN orders : Bookable(id)' <=> Bookable(id)
    BY <1>1, <1>4 DEF Bookable, Rests, Active
  <2>4. BookMatchesOrders'
    BY <1>1, <2>1, <2>3, BookKept DEF EngineInv, book
  <2>5. BookUncrossed'
    BY <2>1 DEF EngineInv, book, BookUncrossed, LevelPrices
  <2> QED
    BY <1>2, <1>3, <2>2, <2>4, <2>5 DEF EngineInv
<1>5. CASE orders[passive].rem = 0
  <2>1. RemoveFromBook(passive)
    BY <1>5 DEF AfterFill
  <2>2. IndexOK /\ LevelsOK
    BY BookView DEF EngineInv
  <2>3. /\ BookTypesNext(DOMAIN orders)
        /\ \A sym \in Symbols, side \in Sides, p \in Prices : \A i :
              InLevel(sym, side, p, i)' => InLevel(sym, side, p, i)
    BY <1>1, <2>1, <2>2, RemoveEffect DEF EngineInv
  <2>4. TypeOK'
    BY <1>1, <2>3 DEF EngineInv, TypeOK, AfterFill, BookTypesNext
  <2>5. \A id \in DOMAIN orders : Bookable(id)' <=> Bookable(id) /\ id # passive
    BY <1>1, <1>5 DEF Bookable, Rests, Active
  <2>6. SamePlaces
    BY <1>1 DEF SamePlaces
  <2>7. BookMatchesOrders'
    BY <1>1, <2>1, <2>5, <2>6, BookWithout DEF EngineInv
  <2>8. BookUncrossed'
    BY <2>3, NoNewPrices DEF EngineInv, BookTypesNext
  <2> QED
    BY <1>2, <1>3, <2>4, <2>7, <2>8 DEF EngineInv
<1> QED
  BY <1>4, <1>5

\* The order filled is open, rests in the level in use, and is not the aggressor.
LEMMA PassiveFacts ==
    ASSUME EngineInv, Fill
    PROVE  LET pa == Head(LevelFifo)
               q  == FillQty(orders[aggressor], orders[pa])
           IN  /\ aggressor \in DOMAIN orders
               /\ pa \in DOMAIN orders /\ pa # aggressor /\ pa # None
               /\ passive = None /\ sweep = {}
               /\ orders[aggressor].sym \in Symbols
               /\ Opposite(orders[aggressor].side) \in Sides
               /\ level \in Prices
               /\ InLevel(orders[aggressor].sym, Opposite(orders[aggressor].side),
                          level, pa)
               /\ orders[pa].type \in {"Limit", "GTC"} /\ Rests(orders[pa])
               /\ q \in Nat /\ q # 0 /\ q <= orders[aggressor].rem /\ q <= orders[pa].rem
<1> DEFINE o  == orders[aggressor]
           pa == Head(LevelFifo)
           q  == FillQty(o, orders[pa])
           side == Opposite(o.side)
<1>1. /\ aggressor \in DOMAIN orders /\ level \in Prices
      /\ passive = None /\ sweep = {}
  BY DEF EngineInv, ControlOK, TypeOK, Fill
<1>2. /\ o.sym \in Symbols /\ o.rem \in Nat /\ o.rem # 0 /\ side \in Sides
  BY <1>1, OrderFacts DEF EngineInv, Fill, Opposite, Sides
<1>3. /\ LevelFifo \in Seq(DOMAIN orders) /\ LevelFifo # <<>>
      /\ LevelFifo = fifo[o.sym][side][level]
  <2>1. LevelFifo = fifo[o.sym][side][level]
    BY DEF LevelFifo
  <2>2. LevelFifo # <<>>
    BY DEF Fill
  <2>3. fifo \in [Symbols -> [Sides -> [Prices -> Seq(DOMAIN orders)]]]
    BY DEF EngineInv, TypeOK
  <2> QED
    BY <1>1, <1>2, <2>1, <2>2, <2>3
<1>4. pa = LevelFifo[1] /\ 1 \in 1 .. Len(LevelFifo)
  BY <1>3, EmptySeq, LenProperties
<1>5. pa \in DOMAIN orders
  BY <1>3, <1>4, ElementOfSeq
<1>6. InLevel(o.sym, side, level, pa)
  BY <1>3, <1>4 DEF InLevel, Listed
<1>7. Bookable(pa)
  BY <1>1, <1>2, <1>6, BookView DEF EngineInv, LevelsOK, IndexOK
<1>8. /\ pa # None /\ pa # aggressor /\ Rests(orders[pa])
      /\ orders[pa].type \in {"Limit", "GTC"}
      /\ orders[pa].rem \in Nat /\ orders[pa].rem # 0
  BY <1>1, <1>5, <1>7, IdFacts, OrderFacts DEF EngineInv, Bookable, Rests
<1>9. q \in Nat /\ q # 0 /\ q <= o.rem /\ q <= orders[pa].rem
  BY <1>2, <1>8 DEF FillQty
<1> QED
  BY <1>1, <1>2, <1>5, <1>6, <1>8, <1>9

\* A fill changes two orders, the incoming one and the head of the level, and
\* moves neither of them.
LEMMA FillOrders ==
    ASSUME EngineInv, Fill
    PROVE  LET pa == Head(LevelFifo)
               p2 == ApplyFill(orders[pa], FillQty(orders[aggressor], orders[pa]))
           IN  /\ orders' \in Seq(Order)
               /\ DOMAIN orders' = DOMAIN orders
               /\ Len(orders') = Len(orders)
               /\ orders'[pa] = p2
               /\ p2.rem \in Nat
               /\ p2.rem = 0 => ~ Active(p2)
               /\ p2.rem # 0 => Active(p2)
               /\ orders'[aggressor].rem # 0 => Active(orders'[aggressor])
               /\ \A i \in DOMAIN orders :
                     i # pa /\ i # aggressor => orders'[i] = orders[i]
               /\ \A i \in DOMAIN orders : Placed(orders[i], orders'[i])
<1> DEFINE o  == orders[aggressor]
           pa == Head(LevelFifo)
           q  == FillQty(o, orders[pa])
           side == Opposite(o.side)
           a2 == ApplyFill(o, q)
           p2 == ApplyFill(orders[pa], q)
           mid == [orders EXCEPT ![aggressor] = a2]
<1>1. /\ aggressor \in DOMAIN orders
      /\ pa \in DOMAIN orders /\ pa # aggressor /\ pa # None
      /\ passive = None /\ sweep = {}
      /\ o.sym \in Symbols /\ side \in Sides /\ level \in Prices
      /\ orders[pa].type \in {"Limit", "GTC"} /\ Rests(orders[pa])
      /\ q \in Nat /\ q # 0 /\ q <= o.rem /\ q <= orders[pa].rem
  BY PassiveFacts
<1>2. /\ orders' = [orders EXCEPT ![aggressor] = ApplyFill(@, q),
                                  ![pa] = ApplyFill(@, q)]
      /\ passive' = pa
      /\ pc = "orders" /\ pc' = "callbacks"
      /\ UNCHANGED <<index, fifo, aggressor, level, sweep>>
  BY DEF Fill
<1>3. orders' = [mid EXCEPT ![pa] = p2]
  BY <1>1, <1>2
<1>4. orders[pa].rem \in Nat
  BY <1>1, OrderFacts DEF EngineInv
<1>5. /\ o \in Order /\ orders[pa] \in Order
      /\ orders \in Seq(Order)
  BY <1>1, OrderFacts DEF EngineInv, TypeOK
<1>6. /\ Placed(o, a2)
      /\ a2.rem # 0 => Active(a2)
      /\ Placed(orders[pa], p2)
      /\ p2.rem = orders[pa].rem - q
      /\ p2.rem = 0 => ~ Active(p2)
      /\ p2.rem # 0 => Active(p2)
  <2> HIDE DEF pa, q
  <2>1. Placed(o, a2) /\ (a2.rem # 0 => Active(a2))
    BY <1>1, <1>5, FillOfOrder
  <2>2. /\ Placed(orders[pa], p2)
        /\ p2.rem = orders[pa].rem - q
        /\ p2.rem = 0 => ~ Active(p2)
        /\ p2.rem # 0 => Active(p2)
    BY <1>1, <1>5, FillOfOrder
  <2> QED
    BY <2>1, <2>2
<1>7. p2.rem \in Nat
  <2> HIDE DEF pa, q, p2
  <2> QED
    BY <1>1, <1>4, <1>6
<1> HIDE DEF pa, q, side, a2, p2
<1>8. mid = [orders EXCEPT ![aggressor] = a2]
  OBVIOUS
<1> HIDE DEF mid
<1>9. /\ mid \in Seq(Order)
      /\ DOMAIN mid = DOMAIN orders
      /\ Len(mid) = Len(orders)
      /\ mid[aggressor] = a2
      /\ \A i \in DOMAIN orders : i # aggressor => mid[i] = orders[i]
      /\ \A i \in DOMAIN orders : Placed(orders[i], mid[i])
  BY <1>1, <1>5, <1>6, <1>8, UpdateOrder
<1>10. /\ orders' \in Seq(Order)
       /\ DOMAIN orders' = DOMAIN orders
       /\ Len(orders') = Len(orders)
       /\ orders'[pa] = p2 /\ orders'[aggressor] = a2
       /\ \A i \in DOMAIN orders : i # pa /\ i # aggressor => orders'[i] = orders[i]
       /\ \A i \in DOMAIN orders : Placed(orders[i], orders'[i])
  <2>1. mid \in Seq(Order) /\ pa \in DOMAIN mid /\ Placed(mid[pa], p2)
    BY <1>1, <1>6, <1>9
  <2>2. /\ orders' \in Seq(Order)
        /\ DOMAIN orders' = DOMAIN mid
        /\ Len(orders') = Len(mid)
        /\ orders'[pa] = p2
        /\ \A i \in DOMAIN mid : i # pa => orders'[i] = mid[i]
        /\ \A i \in DOMAIN mid : Placed(mid[i], orders'[i])
    BY <1>3, <2>1, UpdateOrder
  <2> QED
    BY <1>1, <1>9, <2>2 DEF Placed
<1> QED
  BY <1>6, <1>7, <1>10 DEF pa, q, p2

LEMMA FillKeeps ==
    ASSUME EngineInv, Fill
    PROVE  EngineInv'
<1> DEFINE o  == orders[aggressor]
           pa == Head(LevelFifo)
           q  == FillQty(o, orders[pa])
           side == Opposite(o.side)
           p2 == ApplyFill(orders[pa], q)
           t == total[o.sym][side][level] - q
<1>1. /\ aggressor \in DOMAIN orders
      /\ pa \in DOMAIN orders /\ pa # aggressor /\ pa # None
      /\ passive = None /\ sweep = {}
      /\ o.sym \in Symbols /\ side \in Sides /\ level \in Prices
      /\ orders[pa].type \in {"Limit", "GTC"} /\ Rests(orders[pa])
      /\ q \in Nat
  BY PassiveFacts
<1>2. /\ total' = [total EXCEPT ![o.sym][side][level] = t]
      /\ passive' = pa
      /\ pc = "orders" /\ pc' = "callbacks"
      /\ UNCHANGED <<index, fifo, aggressor, level, sweep>>
  BY DEF Fill
<1>3. /\ orders' \in Seq(Order)
      /\ DOMAIN orders' = DOMAIN orders
      /\ Len(orders') = Len(orders)
      /\ orders'[pa] = p2
      /\ p2.rem \in Nat
      /\ p2.rem = 0 => ~ Active(p2)
      /\ p2.rem # 0 => Active(p2)
      /\ \A i \in DOMAIN orders : i # pa /\ i # aggressor => orders'[i] = orders[i]
      /\ \A i \in DOMAIN orders : Placed(orders[i], orders'[i])
  BY FillOrders
<1>4. t \in Int
  <2>1. total[o.sym][side][level] \in Int
    BY <1>1 DEF EngineInv, TypeOK
  <2> HIDE DEF q
  <2> QED
    BY <1>1, <2>1
<1> HIDE DEF pa, q, side, p2, t
<1>5. TypeOK'
  <2>1. total' \in [Symbols -> [Sides -> [Prices -> Int]]]
    <3>1. total \in [Symbols -> [Sides -> [Prices -> Int]]]
      BY DEF EngineInv, TypeOK
    <3> HIDE DEF o
    <3> QED
      BY <1>1, <1>2, <1>4, <3>1, UpdateLevel
  <2> QED
    BY <1>1, <1>2, <1>3, <2>1 DEF EngineInv, TypeOK
<1>6. ControlOK'
  BY <1>1, <1>2, <1>3 DEF EngineInv, ControlOK, Placed
<1>7. \A i \in DOMAIN orders : Bookable(i)' <=> Bookable(i)
  <2>1. Bookable(pa)
    BY <1>1 DEF Bookable
  <2>5. ASSUME NEW i \in DOMAIN orders, i = pa
         PROVE  Bookable(i)'
    <3>1. orders'[i] = p2 /\ passive' = i /\ aggressor' # i
      BY <1>1, <1>2, <1>3, <2>5
    <3>2. p2.type \in {"Limit", "GTC"}
      BY <1>1, <1>3 DEF Placed
    <3>3. p2.rem = 0 \/ (Active(p2) /\ p2.rem > 0)
      BY <1>3
    <3> QED
      BY <3>1, <3>2, <3>3 DEF Bookable, Rests, Active
  <2>2. \A i \in DOMAIN orders : i = aggressor => ~ Bookable(i) /\ ~ Bookable(i)'
    BY <1>2 DEF Bookable
  <2>3. \A i \in DOMAIN orders : i # None
    BY IdFacts DEF EngineInv
  <2>4. ASSUME NEW i \in DOMAIN orders, i # pa, i # aggressor
        PROVE  Bookable(i)' <=> Bookable(i)
    BY <1>1, <1>2, <1>3, <2>3, <2>4 DEF Bookable, Rests, Active
  <2> QED
    BY <1>1, <2>1, <2>5, <2>2, <2>4
<1>8. BookMatchesOrders'
  BY <1>2, <1>3, <1>7, BookKept DEF EngineInv, Placed
<1>9. BookUncrossed'
  BY <1>2 DEF EngineInv, BookUncrossed, LevelPrices
<1>10. RestsOutside'
  BY <1>2 DEF RestsOutside
<1> QED
  BY <1>5, <1>6, <1>8, <1>9, <1>10 DEF EngineInv

\* Adding an order that is willing to trade at no opposite price crosses nothing.
LEMMA AddUncrossed ==
    ASSUME TypeOK, IndexOK, LevelsOK, BookUncrossed, NEW id \in DOMAIN orders,
           ~ Bookable(id), \A x \in DOMAIN orders : x <= id,
           orders[id].type \in {"Limit", "GTC"}, AddToBook(id),
           \A p \in LevelPrices(orders[id].sym, Opposite(orders[id].side)) :
               ~ Willing(orders[id], p)
    PROVE  BookUncrossed'
<1> DEFINE o == orders[id]
<1>1. /\ o.sym \in Symbols /\ o.side \in Sides /\ o.price \in Prices
      /\ o.price \in Nat /\ \A p \in Prices : p \in Nat
  BY OrderFacts, PricesAssumption
<1>2. /\ fifo' \in [Symbols -> [Sides -> [Prices -> Seq(DOMAIN orders)]]]
      /\ \A sym \in Symbols, side \in Sides, p \in Prices : \A x :
            InLevel(sym, side, p, x)' =>
               \/ InLevel(sym, side, p, x)
               \/ sym = o.sym /\ side = o.side /\ p = o.price
  BY AddEffect DEF BookTypesNext
<1> HIDE DEF o
<1>3. ASSUME NEW sym \in Symbols, NEW side \in Sides, NEW p \in LevelPrices(sym, side)'
      PROVE  /\ p \in Prices
             /\ p \in LevelPrices(sym, side) \/ (sym = o.sym /\ side = o.side /\ p = o.price)
  <2>1. p \in Prices /\ fifo'[sym][side][p] # <<>>
    BY DEF LevelPrices
  <2>2. /\ fifo[sym][side][p] \in Seq(DOMAIN orders)
        /\ fifo'[sym][side][p] \in Seq(DOMAIN orders)
    BY <1>2, <2>1 DEF TypeOK
  <2>3. PICK x : InLevel(sym, side, p, x)'
    BY <2>1, <2>2, NonEmptyListed DEF InLevel
  <2>4. CASE InLevel(sym, side, p, x)
    BY <2>1, <2>2, <2>4, NonEmptyListed DEF InLevel, LevelPrices
  <2> QED
    BY <1>2, <2>1, <2>3, <2>4
<1>4. ASSUME NEW sym \in Symbols,
             NEW b \in LevelPrices(sym, "Buy")', NEW a \in LevelPrices(sym, "Sell")'
      PROVE  b < a
  <2>1. /\ b \in Prices /\ a \in Prices
        /\ b \in LevelPrices(sym, "Buy") \/ (sym = o.sym /\ o.side = "Buy" /\ b = o.price)
        /\ a \in LevelPrices(sym, "Sell") \/ (sym = o.sym /\ o.side = "Sell" /\ a = o.price)
    BY <1>3, <1>4 DEF Sides
  <2>2. CASE sym = o.sym /\ o.side = "Buy" /\ b = o.price
    <3>1. a \in LevelPrices(o.sym, Opposite(o.side))
      BY <2>1, <2>2 DEF Opposite
    <3>2. ~ (o.price >= a)
      BY <2>2, <3>1 DEF Willing, o
    <3> QED
      BY <1>1, <2>1, <2>2, <3>2
  <2>3. CASE sym = o.sym /\ o.side = "Sell" /\ a = o.price
    <3>1. b \in LevelPrices(o.sym, Opposite(o.side))
      BY <2>1, <2>3 DEF Opposite
    <3>2. ~ (o.price <= b)
      BY <2>3, <3>1 DEF Willing, o
    <3> QED
      BY <1>1, <2>1, <2>3, <3>2
  <2> QED
    BY <2>1, <2>2, <2>3 DEF BookUncrossed
<1> QED
  BY <1>4 DEF BookUncrossed

LEMMA FinishKeeps ==
    ASSUME EngineInv, Finish
    PROVE  EngineInv'
<1> DEFINE o == orders[aggressor]
<1>1. /\ aggressor \in DOMAIN orders /\ aggressor' = None
      /\ passive = None /\ passive' = None /\ sweep = {} /\ sweep' = {}
      /\ level = None /\ level' = None /\ pc' = "idle"
      /\ \A id \in DOMAIN orders : id # None /\ id <= aggressor
      /\ o.rem \in Nat
  BY IdFacts, OrderFacts DEF EngineInv, ControlOK, TypeOK, Finish
<1>2. ControlOK'
  BY <1>1 DEF ControlOK
<1>3. RestsOutside'
  BY <1>1 DEF RestsOutside
<1>4. ASSUME UNCHANGED book, orders' \in Seq(Order), Len(orders') = Len(orders),
             \A i \in DOMAIN orders : Placed(orders[i], orders'[i]),
             \A i \in DOMAIN orders : i # aggressor => orders'[i] = orders[i],
             DOMAIN orders' = DOMAIN orders,
             ~ (orders'[aggressor].type \in {"Limit", "GTC"} /\ Rests(orders'[aggressor]))
      PROVE  EngineInv'
  <2>1. TypeOK'
    BY <1>1, <1>4 DEF EngineInv, TypeOK, book
  <2>2. \A i \in DOMAIN orders : Bookable(i)' <=> Bookable(i)
    BY <1>1, <1>4 DEF Bookable, Rests, Active
  <2>3. BookMatchesOrders'
    BY <1>4, <2>2, BookKept DEF EngineInv, book, Placed
  <2>4. BookUncrossed'
    BY <1>4 DEF EngineInv, BookUncrossed, LevelPrices, book
  <2> QED
    BY <1>2, <1>3, <2>1, <2>3, <2>4 DEF EngineInv
<1>5. /\ orders \in Seq(Order)
      /\ \A i \in DOMAIN orders : orders[i] \in Order
  BY OrderFacts DEF EngineInv, TypeOK
<1>6. CASE o.type \in {"Market", "IOC"}
  <2> DEFINE x == CancelOf(o)
  <2>1. orders' = [orders EXCEPT ![aggressor] = x] /\ UNCHANGED book
    BY <1>6 DEF Finish
  <2>2. Placed(o, x)
    BY <1>1, <1>5, CancelOfOrder
  <2> HIDE DEF x
  <2>3. /\ orders' \in Seq(Order)
        /\ DOMAIN orders' = DOMAIN orders
        /\ Len(orders') = Len(orders)
        /\ orders'[aggressor] = x
        /\ \A i \in DOMAIN orders : i # aggressor => orders'[i] = orders[i]
        /\ \A i \in DOMAIN orders : Placed(orders[i], orders'[i])
    BY <1>1, <1>5, <2>1, <2>2, UpdateOrder
  <2> QED
    BY <1>1, <1>4, <1>6, <2>1, <2>3 DEF Placed
<1>7. CASE o.type \in {"Limit", "GTC"} /\ Active(o) /\ o.rem # 0
  <2>1. orders' = orders /\ AddToBook(aggressor)
    BY <1>7 DEF Finish
  <2>2. IndexOK /\ LevelsOK /\ ~ Bookable(aggressor)
    BY BookView DEF EngineInv, Bookable
  <2>3. BookTypesNext(DOMAIN orders)
    BY <1>1, <1>7, <2>1, <2>2, AddEffect DEF EngineInv
  <2>4. TypeOK'
    BY <1>1, <2>1, <2>3 DEF EngineInv, TypeOK, BookTypesNext
  <2>5. \A i \in DOMAIN orders : Bookable(i)' <=> Bookable(i) \/ i = aggressor
    BY <1>1, <1>7, <2>1 DEF Bookable, Rests, Active
  <2>6. SamePlaces
    BY <2>1 DEF SamePlaces
  <2>7. BookMatchesOrders'
    BY <1>1, <1>7, <2>1, <2>2, <2>5, <2>6, BookWith DEF EngineInv
  <2>8. \A p \in LevelPrices(o.sym, Opposite(o.side)) : ~ Willing(o, p)
    BY <1>7 DEF EngineInv, RestsOutside, Finish
  <2>9. BookUncrossed'
    BY <1>1, <1>7, <2>1, <2>2, <2>8, AddUncrossed DEF EngineInv
  <2> QED
    BY <1>2, <1>3, <2>4, <2>7, <2>9 DEF EngineInv
<1>8. CASE \/ o.type = "FOK"
           \/ o.type \in {"Limit", "GTC"} /\ ~ (Active(o) /\ o.rem # 0)
  <2>1. orders' = orders /\ UNCHANGED book
    BY <1>8 DEF Finish
  <2>2. ~ (o.type \in {"Limit", "GTC"} /\ Rests(o))
    BY <1>8, <1>1 DEF Rests
  <2>3. \A i \in DOMAIN orders : Placed(orders[i], orders[i])
    BY <1>5 DEF Placed
  <2> QED
    BY <1>4, <1>5, <2>1, <2>2, <2>3
<1> QED
  BY <1>6, <1>7, <1>8 DEF Finish

LEMMA SeqOfMore ==
    ASSUME NEW S, NEW T, S \subseteq T, NEW s \in Seq(S)
    PROVE  s \in Seq(T)
<1>1. \A i \in 1 .. Len(s) : s[i] \in T
  BY ElementOfSeq
<1>2. Len(s) \in Nat /\ s = [i \in 1 .. Len(s) |-> s[i]]
  BY LenProperties
<1> QED
  BY <1>1, <1>2, IsASeq

\* An order accepted by submit_order is in no book yet.
LEMMA SubmitKeeps ==
    ASSUME EngineInv, NEW r \in Requests, Submit(r)
    PROVE  EngineInv'
<1> DEFINE o == NewOrder(r)
           id == Len(orders) + 1
<1>1. PICK x \in {o, [o EXCEPT !.status = "Rejected"]} : orders' = Append(orders, x)
  BY DEF Submit
<1>2. /\ pc = "idle" /\ sweep = {} /\ aggressor = None /\ level = None /\ passive = None
      /\ Len(orders) < MaxOrders
      /\ UNCHANGED <<book, level, passive, sweep>>
  BY DEF Submit, EngineInv, ControlOK
<1>3. /\ x \in Order /\ o \in Order
      /\ x.sym = o.sym /\ x.side = o.side /\ x.type = o.type /\ x.price = o.price
      /\ x.rem = o.rem
  <2>1. r \in [sym : Symbols, side : Sides, type : Types, price : Prices \cup {0},
               qty : Quantities, strat : Strategies] /\ PriceFits(r.type, r.price)
    BY DEF Requests
  <2>2. r.qty \in Nat
    BY <2>1, ConstantsAssumption
  <2>3. o \in Order
    BY <2>1, <2>2 DEF NewOrder, Order
  <2>4. [o EXCEPT !.status = "Rejected"] \in Order
    BY <2>1, <2>2 DEF NewOrder, Order
  <2>5. CASE x = o
    BY <2>3, <2>5
  <2>6. CASE x = [o EXCEPT !.status = "Rejected"]
    BY <2>3, <2>4, <2>6 DEF NewOrder
  <2> QED
    BY <2>5, <2>6
<1>4. orders \in Seq(Order) /\ Len(orders) \in Nat /\ DOMAIN orders = 1 .. Len(orders)
  BY LenProperties DEF EngineInv, TypeOK
<1> HIDE DEF o
<1>5. /\ orders' \in Seq(Order)
      /\ Len(orders') = id
      /\ DOMAIN orders' = 1 .. id
      /\ orders'[id] = x
      /\ \A i \in DOMAIN orders : i \in DOMAIN orders' /\ orders'[i] = orders[i]
  BY <1>1, <1>3, <1>4, AppendProperties, LenProperties
<1>6. id \in Nat /\ id # None /\ id \notin DOMAIN orders /\ id <= MaxOrders
  BY <1>2, <1>4, ConstantsAssumption
<1>7. \/ /\ aggressor' = id
         /\ pc' \in {"levels", "finish"}
         /\ x.type \notin {"StopMarket", "StopLimit"}
      \/ /\ aggressor' = None
         /\ pc' = "idle"
         /\ x.type \notin {"Limit", "GTC"}
  <2>1. o.type \notin {"Limit", "GTC"} \/ aggressor' = id
    BY DEF Submit, o
  <2>2. \/ o.type \notin {"StopMarket", "StopLimit"}
        \/ aggressor' = aggressor /\ pc' = pc
    BY DEF Submit, o, EntersLoop
  <2>3. \/ aggressor' = id /\ pc' \in {"levels", "finish"}
        \/ aggressor' = aggressor /\ pc' = pc
    BY DEF Submit
  <2> QED
    BY <1>2, <1>3, <1>6, <2>1, <2>2, <2>3
<1>8. TypeOK'
  <2>1. index' \in [Symbols -> SUBSET DOMAIN orders']
    BY <1>2, <1>5 DEF EngineInv, TypeOK, book
  <2>2. fifo' \in [Symbols -> [Sides -> [Prices -> Seq(DOMAIN orders')]]]
    <3>1. DOMAIN orders \subseteq DOMAIN orders'
      BY <1>5
    <3>2. \A s \in Seq(DOMAIN orders) : s \in Seq(DOMAIN orders')
      BY <3>1, SeqOfMore
    <3> QED
      BY <1>2, <3>2 DEF EngineInv, TypeOK, book
  <2>3. /\ aggressor' \in DOMAIN orders' \cup {None}
        /\ pc' \in {"idle", "levels", "orders", "callbacks", "finish"}
    BY <1>4, <1>5, <1>6, <1>7
  <2> QED
    BY <1>2, <1>5, <1>6, <2>1, <2>2, <2>3 DEF EngineInv, TypeOK, book
<1>9. ControlOK'
  BY <1>2, <1>5, <1>6, <1>7 DEF ControlOK
<1>10. BookMatchesOrders'
  <2>1. \A i \in DOMAIN orders' : i \notin DOMAIN orders => i = id
    BY <1>4, <1>5
  <2>2. ASSUME NEW i \in DOMAIN orders
        PROVE  Bookable(i)' <=> Bookable(i)
    BY <1>2, <1>5, <1>6, <1>7, IdFacts DEF Bookable, Rests, Active, EngineInv
  <2>3. \A i \in DOMAIN orders' \ DOMAIN orders : ~ Bookable(i)'
    BY <1>5, <1>7, <2>1 DEF Bookable
  <2> QED
    BY <1>2, <1>5, <2>2, <2>3, BookKept DEF EngineInv, book
<1>11. BookUncrossed'
  BY <1>2 DEF EngineInv, BookUncrossed, LevelPrices, book
<1>12. RestsOutside'
  <2>1. SUFFICES ASSUME pc' = "finish", x.type \in {"Limit", "GTC"}
                 PROVE  \A p \in LevelPrices(x.sym, Opposite(x.side))' : ~ Willing(x, p)
    BY <1>2, <1>5, <1>7 DEF RestsOutside
  <2>2. ~ EntersLoop(o)
    BY <1>2, <2>1 DEF Submit, o
  <2>3. ~ \E p \in Prices : IsBest(o.sym, Opposite(o.side), p) /\ Willing(o, p)
    BY <1>3, <2>1, <2>2 DEF EntersLoop
  <2>4. o.sym \in Symbols /\ o.side \in Sides /\ o.price \in Nat
    <3>1. o.price \in Prices \cup {0} /\ \A p \in Prices : p \in Nat
      BY <1>3, PricesAssumption DEF Order
    <3> QED
      BY <1>3, <3>1 DEF Order
  <2>5. \A p \in LevelPrices(o.sym, Opposite(o.side)) : ~ Willing(o, p)
    BY <2>3, <2>4, BeyondLimit
  <2> QED
    BY <1>2, <1>3, <2>5 DEF LevelPrices, Willing, book
<1> QED
  BY <1>8, <1>9, <1>10, <1>11, <1>12 DEF EngineInv

LEMMA NextEngineInv ==
    ASSUME EngineInv, [Next]_vars
    PROVE  EngineInv'
<1>1. ASSUME NEW r \in Requests, Submit(r)
      PROVE  EngineInv'
  BY <1>1, SubmitKeeps
<1>2. CASE TakeLevel
  BY <1>2, TakeLevelKeeps
<1>3. CASE LeaveLevels
  BY <1>3, LeaveLevelsKeeps
<1>4. CASE Fill
  BY <1>4, FillKeeps
<1>5. CASE AfterFill
  BY <1>5, AfterFillKeeps
<1>6. CASE LeaveLevel
  BY <1>6, LeaveLevelKeeps
<1>7. CASE Finish
  BY <1>7, FinishKeeps
<1>8. ASSUME NEW id \in DOMAIN orders, CancelOrder(id)
      PROVE  EngineInv'
  BY <1>8, CancelOrderKeeps
<1>9. ASSUME NEW strat \in Strategies, CancelAllOrders(strat)
      PROVE  EngineInv'
  BY <1>9, CancelAllOrdersKeeps
<1>10. ASSUME NEW id \in DOMAIN orders, CancelNext(id)
       PROVE  EngineInv'
  BY <1>10, CancelNextKeeps
<1>11. CASE UNCHANGED vars
  <2>1. BookMatchesOrders' /\ BookUncrossed'
    BY <1>11, SameBook DEF vars
  <2>2. TypeOK'
    BY <1>11 DEF EngineInv, TypeOK, vars, book
  <2>3. ControlOK'
    BY <1>11 DEF EngineInv, ControlOK, vars, Active
  <2>4. RestsOutside'
    BY <1>11 DEF EngineInv, RestsOutside, vars, book, LevelPrices
  <2> QED
    BY <2>1, <2>2, <2>3, <2>4 DEF EngineInv
<1> QED
  BY <1>1, <1>2, <1>3, <1>4, <1>5, <1>6, <1>7, <1>8, <1>9, <1>10, <1>11 DEF Next

-----------------------------------------------------------------------------
(* Theorems                                                                *)

\* The inductive invariant of the engine, for any number of orders and prices,
\* with and without cancelling callbacks: the matching loop, resting and the
\* cancellations all keep it.
THEOREM EngineIsConsistent == Spec => []EngineInv
<1>1. Init => EngineInv
  BY InitEngineInv
<1>2. EngineInv /\ [Next]_vars => EngineInv'
  BY NextEngineInv
<1> QED
  BY <1>1, <1>2, PTL DEF Spec

\* Every variable of the engine keeps its type; no quantity becomes negative.
THEOREM TypeCorrect == Spec => []TypeOK
<1>1. EngineInv => TypeOK
  BY DEF EngineInv
<1> QED
  BY <1>1, EngineIsConsistent, PTL

\* OrderBook::orders_, the level lists and the orders' own fields agree at every
\* step of submit_order and of the cancellations.
THEOREM BookAgreesWithOrders == Spec => []BookMatchesOrders
<1>1. EngineInv => BookMatchesOrders
  BY DEF EngineInv
<1> QED
  BY <1>1, EngineIsConsistent, PTL

\* No sequence of submissions and cancellations leaves a bid at or above an ask.
THEOREM BookNeverCrosses == Spec => []BookUncrossed
<1>1. EngineInv => BookUncrossed
  BY DEF EngineInv
<1> QED
  BY <1>1, EngineIsConsistent, PTL

-----------------------------------------------------------------------------
(* What each kind of step does to the orders                               *)

\* A cancellation changes one order, an active one, and fills none.
LEMMA CancelOrders ==
    ASSUME EngineInv, NEW id \in DOMAIN orders, CancelOne(id)
    PROVE  /\ Active(orders[id])
           /\ DOMAIN orders' = DOMAIN orders
           /\ \A i \in DOMAIN orders : i # id => orders'[i] = orders[i]
           /\ \A i \in DOMAIN orders : Placed(orders[i], orders'[i])
           /\ orders'[id].filled = orders[id].filled
           /\ \A sym \in Symbols, side \in Sides : \A p \in LevelPrices(sym, side)' :
                 p \in LevelPrices(sym, side)
<1> DEFINE x == CancelOf(orders[id])
<1>1. orders[id] \in Order /\ orders \in Seq(Order)
  BY OrderFacts DEF EngineInv, TypeOK
<1>2. Placed(orders[id], x) /\ x.filled = orders[id].filled
  BY <1>1, CancelOfOrder DEF CancelOf, Order
<1>3. orders' = [orders EXCEPT ![id] = x] /\ Active(orders[id])
  BY DEF CancelOne
<1> HIDE DEF x
<1>4. /\ DOMAIN orders' = DOMAIN orders
      /\ orders'[id] = x
      /\ \A i \in DOMAIN orders : i # id => orders'[i] = orders[i]
      /\ \A i \in DOMAIN orders : Placed(orders[i], orders'[i])
  BY <1>1, <1>2, <1>3, UpdateOrder
<1>5. IndexOK /\ LevelsOK
  BY BookView DEF EngineInv
<1>6. /\ fifo' \in [Symbols -> [Sides -> [Prices -> Seq(DOMAIN orders)]]]
      /\ \A sym \in Symbols, side \in Sides, p \in Prices : \A i :
            InLevel(sym, side, p, i)' => InLevel(sym, side, p, i)
  BY <1>5, RemoveEffect DEF CancelOne, EngineInv, BookTypesNext
<1>7. \A sym \in Symbols, side \in Sides : \A p \in LevelPrices(sym, side)' :
         p \in LevelPrices(sym, side)
  BY <1>6, NoNewPrices DEF EngineInv
<1> QED
  BY <1>2, <1>3, <1>4, <1>7

LEMMA SubmitOrders ==
    ASSUME EngineInv, NEW r \in Requests, Submit(r)
    PROVE  \A i \in DOMAIN orders : orders'[i] = orders[i]
<1> DEFINE o == NewOrder(r)
<1>1. PICK x : orders' = Append(orders, x)
  BY DEF Submit
<1>2. orders \in Seq(Order) /\ DOMAIN orders = 1 .. Len(orders)
  BY LenProperties DEF EngineInv, TypeOK
<1> QED
  BY <1>1, <1>2

LEMMA FinishOrders ==
    ASSUME EngineInv, Finish
    PROVE  /\ aggressor \in DOMAIN orders
           /\ \A i \in DOMAIN orders : i # aggressor => orders'[i] = orders[i]
           /\ orders'[aggressor].filled = orders[aggressor].filled
           /\ orders'[aggressor] = orders[aggressor] \/ Active(orders[aggressor])
<1>1. aggressor \in DOMAIN orders
  BY DEF EngineInv, ControlOK, TypeOK, Finish
<1>2. orders[aggressor] \in Order
  BY <1>1, OrderFacts DEF EngineInv
<1>3. CASE orders' = [orders EXCEPT ![aggressor] = CancelOf(@)]
  <2> DEFINE x == CancelOf(orders[aggressor])
  <2>1. x.filled = orders[aggressor].filled
    BY <1>2 DEF CancelOf, Order
  <2>2. x = orders[aggressor] \/ Active(orders[aggressor])
    BY DEF CancelOf
  <2>3. orders' = [orders EXCEPT ![aggressor] = x]
    BY <1>3
  <2> HIDE DEF x
  <2> QED
    BY <1>1, <2>1, <2>2, <2>3
<1>4. CASE orders' = orders
  BY <1>1, <1>4
<1> QED
  BY <1>3, <1>4 DEF Finish

\* Every step but a fill leaves the filled quantity of every order alone.
LEMMA OnlyFillFills ==
    ASSUME EngineInv, [Next]_vars, ~ Fill, NEW id \in DOMAIN orders
    PROVE  orders'[id].filled = orders[id].filled
<1>1. ASSUME NEW r \in Requests, Submit(r)
      PROVE  orders'[id].filled = orders[id].filled
  BY <1>1, SubmitOrders
<1>2. ASSUME NEW i \in DOMAIN orders, CancelOne(i)
      PROVE  orders'[id].filled = orders[id].filled
  BY <1>2, CancelOrders
<1>3. CASE Finish
  BY <1>3, FinishOrders
<1>4. CASE orders' = orders
  BY <1>4
<1> QED
  BY <1>1, <1>2, <1>3, <1>4
     DEF Next, vars, TakeLevel, LeaveLevels, AfterFill, LeaveLevel, CancelOrder,
         CancelAllOrders, CancelNext

\* No step moves an order to another symbol or side.
LEMMA OrdersKeepPlace ==
    ASSUME EngineInv, [Next]_vars, NEW id \in DOMAIN orders
    PROVE  orders'[id].sym = orders[id].sym /\ orders'[id].side = orders[id].side
<1> DEFINE Kept == orders'[id].sym = orders[id].sym /\ orders'[id].side = orders[id].side
<1>1. ASSUME NEW r \in Requests, Submit(r) PROVE Kept
  BY <1>1, SubmitOrders
<1>2. ASSUME NEW i \in DOMAIN orders, CancelOne(i) PROVE Kept
  <2>1. Placed(orders[id], orders'[id])
    BY <1>2, CancelOrders
  <2> QED
    BY <2>1 DEF Placed
<1>3. CASE Fill
  <2>1. Placed(orders[id], orders'[id])
    BY <1>3, FillOrders
  <2> QED
    BY <2>1 DEF Placed
<1>4. CASE orders' = orders
  BY <1>4
<1>5. CASE Finish /\ orders' # orders
  <2>1. aggressor \in DOMAIN orders /\ orders' = [orders EXCEPT ![aggressor] = CancelOf(@)]
    BY <1>5, FinishOrders DEF Finish
  <2>2. Placed(orders[id], CancelOf(orders[id]))
    BY OrderFacts, CancelOfOrder DEF EngineInv
  <2>3. orders'[id] = orders[id] \/ orders'[id] = CancelOf(orders[id])
    BY <2>1
  <2> QED
    BY <2>2, <2>3 DEF Placed
<1> QED
  BY <1>1, <1>2, <1>3, <1>4, <1>5
     DEF Next, vars, TakeLevel, LeaveLevels, AfterFill, LeaveLevel, CancelOrder,
         CancelAllOrders, CancelNext

-----------------------------------------------------------------------------
(* Price-time priority                                                     *)

LEMMA LevelStaysBest ==
    ASSUME EngineInv, LevelIsBest, [Next]_vars
    PROVE  LevelIsBest'
<1> SUFFICES ASSUME pc' \in {"orders", "callbacks"}
             PROVE  LevelIsBest'
  BY DEF LevelIsBest
<1>1. CASE TakeLevel
  BY <1>1 DEF TakeLevel, IsBest, LevelIsBest, LevelPrices, book
\* Every other step that ends in the inner loop starts there, keeps the level in
\* use and the incoming order's place, and adds no price to the book.
<1>2. ASSUME UNCHANGED <<aggressor, level>>, pc \in {"orders", "callbacks"},
             orders'[aggressor].sym = orders[aggressor].sym,
             orders'[aggressor].side = orders[aggressor].side,
             \A sym \in Symbols, side \in Sides : \A p \in LevelPrices(sym, side)' :
                p \in LevelPrices(sym, side)
      PROVE  LevelIsBest'
  <2>1. aggressor \in DOMAIN orders
    BY <1>2 DEF EngineInv, ControlOK, TypeOK
  <2>2. orders[aggressor].sym \in Symbols /\ Opposite(orders[aggressor].side) \in Sides
    BY <2>1, OrderFacts DEF EngineInv, Opposite, Sides
  <2> DEFINE sym == orders[aggressor].sym
             opp == Opposite(orders[aggressor].side)
  <2>3. \A p \in LevelPrices(sym, opp) : ~ Better(opp, p, level)
    BY <1>2 DEF LevelIsBest
  <2>4. ASSUME NEW p \in LevelPrices(orders[aggressor].sym, Opposite(orders[aggressor].side))'
        PROVE  ~ Better(opp, p, level)
    <3>1. p \in Prices /\ fifo'[sym][opp][p] # <<>>
      BY <1>2, <2>4 DEF LevelPrices
    <3>2. p \in LevelPrices(sym, opp)
      BY <1>2, <2>2, <3>1 DEF LevelPrices
    <3> QED
      BY <2>3, <3>2
  <2> QED
    BY <1>2, <2>4 DEF LevelIsBest, Better
<1>3. CASE Fill
  <2>1. aggressor \in DOMAIN orders
    BY <1>3, PassiveFacts
  <2>2. \A i \in DOMAIN orders : Placed(orders[i], orders'[i])
    BY <1>3, FillOrders
  <2>3. UNCHANGED <<aggressor, level, fifo>> /\ pc = "orders"
    BY <1>3 DEF Fill
  <2> QED
    BY <1>2, <2>1, <2>2, <2>3 DEF Placed, LevelPrices
<1>4. CASE AfterFill
  <2>1. /\ passive \in DOMAIN orders
        /\ UNCHANGED <<orders, aggressor, level>> /\ pc = "callbacks"
    BY <1>4 DEF EngineInv, ControlOK, TypeOK, AfterFill
  <2>2. CASE RemoveFromBook(passive)
    <3>1. IndexOK /\ LevelsOK
      BY BookView DEF EngineInv
    <3>2. /\ fifo' \in [Symbols -> [Sides -> [Prices -> Seq(DOMAIN orders)]]]
          /\ \A sym \in Symbols, side \in Sides, p \in Prices : \A i :
                InLevel(sym, side, p, i)' => InLevel(sym, side, p, i)
      BY <2>1, <2>2, <3>1, RemoveEffect DEF EngineInv, BookTypesNext
    <3>3. \A sym \in Symbols, side \in Sides : \A p \in LevelPrices(sym, side)' :
             p \in LevelPrices(sym, side)
      BY <3>2, NoNewPrices DEF EngineInv
    <3> QED
      BY <1>2, <2>1, <3>3
  <2>3. CASE UNCHANGED book
    BY <1>2, <2>1, <2>3 DEF book, LevelPrices
  <2> QED
    BY <1>4, <2>2, <2>3 DEF AfterFill
<1>5. ASSUME NEW id \in DOMAIN orders, CancelOne(id),
             UNCHANGED <<pc, aggressor, level, passive>>
      PROVE  LevelIsBest'
  <2>1. aggressor \in DOMAIN orders
    BY <1>5 DEF EngineInv, ControlOK, TypeOK
  <2> QED
    BY <1>2, <1>5, <2>1, CancelOrders DEF Placed
<1>6. CASE UNCHANGED <<orders, book, pc, aggressor, level>>
  BY <1>2, <1>6 DEF book, LevelPrices
<1>7. ~ (\E r \in Requests : Submit(r)) /\ ~ LeaveLevels /\ ~ LeaveLevel /\ ~ Finish
  BY DEF Submit, LeaveLevels, LeaveLevel, Finish
<1> QED
  BY <1>1, <1>3, <1>4, <1>5, <1>6, <1>7
     DEF Next, vars, CancelOrder, CancelAllOrders, CancelNext

\* The head of the best level goes first.
LEMMA FillHasPriority ==
    ASSUME EngineInv, LevelIsBest, Fill,
           NEW id \in DOMAIN orders \ {aggressor}, FilledBy(id),
           NEW other \in DOMAIN orders \ {aggressor}, Rests(orders[other]),
           orders[other].sym = orders[id].sym, orders[other].side = orders[id].side
    PROVE  \/ Better(orders[id].side, orders[id].price, orders[other].price)
           \/ orders[id].price = orders[other].price /\ id <= other
<1> DEFINE o == orders[aggressor]
           opp == Opposite(o.side)
<1>1. PICK pa : pa = Head(LevelFifo)
  OBVIOUS
<1>2. /\ id = pa
      /\ InLevel(o.sym, opp, level, pa)
      /\ o.sym \in Symbols /\ opp \in Sides /\ level \in Prices
  <2>1. \A i \in DOMAIN orders : i # pa /\ i # aggressor => orders'[i] = orders[i]
    BY <1>1, FillOrders
  <2>2. /\ orders[id].filled \in Nat
        /\ InLevel(o.sym, opp, level, pa)
        /\ o.sym \in Symbols /\ opp \in Sides /\ level \in Prices
    BY <1>1, PassiveFacts, OrderFacts DEF EngineInv
  <2>3. id = pa
    <3>1. SUFFICES ASSUME id # pa
                   PROVE  FALSE
      OBVIOUS
    <3>2. orders'[id] = orders[id]
      BY <2>1, <3>1
    <3> QED
      BY <2>2, <3>2 DEF FilledBy
  <2> QED
    BY <2>2, <2>3
<1>3. IndexOK /\ LevelsOK /\ pc = "orders"
  BY BookView DEF EngineInv, Fill
<1>4. orders[id].sym = o.sym /\ orders[id].side = opp /\ orders[id].price = level
  BY <1>2, <1>3 DEF LevelsOK, IndexOK
<1>5. /\ orders[other].type \in {"Limit", "GTC"}
      /\ orders[other].price \in Prices
      /\ orders[other].price \in Nat /\ level \in Nat /\ id \in Nat /\ other \in Nat
  BY <1>2, OrderFacts, PricesAssumption DEF EngineInv, Rests
<1>6. InLevel(o.sym, opp, orders[other].price, other)
  <2>1. Bookable(other)
    BY <1>5 DEF Bookable
  <2>2. other \in index[o.sym]
    BY <1>2, <1>3, <1>4, <2>1 DEF IndexOK
  <2> QED
    BY <1>2, <1>3, <1>4, <1>5, <2>2 DEF LevelsOK
<1>7. orders[other].price \in LevelPrices(o.sym, opp)
  <2>1. fifo[o.sym][opp][orders[other].price] \in Seq(DOMAIN orders)
    BY <1>2, <1>5 DEF EngineInv, TypeOK
  <2> QED
    BY <1>5, <1>6, <2>1, NonEmptyListed DEF LevelPrices, InLevel
<1>8. ~ Better(opp, orders[other].price, level)
  BY <1>3, <1>7 DEF LevelIsBest
<1>9. CASE orders[other].price # level
  BY <1>2, <1>4, <1>5, <1>8, <1>9 DEF Better
<1>10. CASE orders[other].price = level
  <2> DEFINE f == fifo[o.sym][opp][level]
  <2>1. f \in Seq(DOMAIN orders) /\ f # <<>> /\ f = LevelFifo
    <3>1. fifo \in [Symbols -> [Sides -> [Prices -> Seq(DOMAIN orders)]]]
      BY DEF EngineInv, TypeOK
    <3>2. f = LevelFifo
      BY DEF LevelFifo
    <3>3. LevelFifo # <<>>
      BY DEF Fill
    <3> QED
      BY <1>2, <3>1, <3>2, <3>3
  <2>2. Ascending(f)
    BY <1>2, <1>3 DEF LevelsOK
  <2>3. Listed(f, other)
    BY <1>6, <1>10 DEF InLevel
  <2> HIDE DEF f
  <2>4. id = f[1] /\ 1 \in 1 .. Len(f) /\ Len(f) \in Nat
    BY <1>1, <1>2, <2>1, EmptySeq, LenProperties
  <2>5. PICK j \in 1 .. Len(f) : f[j] = other
    BY <2>3 DEF Listed
  <2>6. id <= other
    <3>1. CASE j = 1
      BY <1>5, <2>4, <2>5, <3>1
    <3>2. CASE 1 < j
      BY <1>5, <2>2, <2>4, <2>5, <3>2 DEF Ascending
    <3> QED
      BY <2>4, <2>5, <3>1, <3>2
  <2> QED
    BY <1>4, <1>10, <2>6
<1> QED
  BY <1>9, <1>10

-----------------------------------------------------------------------------
(* Closed orders                                                           *)

\* With callbacks that cancel nothing, calls do not overlap, and an order that
\* still wants something while it is matched is still open.
CallsAlone ==
    /\ sweep # {} => pc = "idle"
    /\ (aggressor # None /\ orders[aggressor].rem # 0) => Active(orders[aggressor])

LEMMA CallsStayAlone ==
    ASSUME Reentrant = FALSE, EngineInv, CallsAlone, [Next]_vars
    PROVE  CallsAlone'
<1>1. ASSUME NEW r \in Requests, Submit(r)
      PROVE  CallsAlone'
  <2>1. CASE aggressor' = Len(orders) + 1 /\ orders' = Append(orders, NewOrder(r))
    <3>1. orders'[aggressor'] = NewOrder(r)
      BY <2>1, LenProperties DEF EngineInv, TypeOK
    <3>2. Active(NewOrder(r))
      BY DEF NewOrder, Active
    <3> QED
      BY <1>1, <3>1, <3>2 DEF CallsAlone, Submit, Active
  <2>2. CASE aggressor' = aggressor
    BY <1>1, <2>2 DEF CallsAlone, Submit, EngineInv, ControlOK
  <2> QED
    BY <1>1, <2>1, <2>2 DEF Submit
<1>2. CASE Fill
  <2>1. aggressor' = aggressor /\ sweep' = {}
    BY <1>2, PassiveFacts DEF Fill
  <2>2. orders'[aggressor].rem # 0 => Active(orders'[aggressor])
    BY <1>2, FillOrders
  <2> QED
    BY <2>1, <2>2 DEF CallsAlone, Active
<1>3. CASE Finish
  BY <1>3 DEF CallsAlone, Finish, EngineInv, ControlOK
<1>4. ASSUME pc = "idle", UNCHANGED <<pc, aggressor>>
      PROVE  CallsAlone'
  BY <1>4 DEF CallsAlone, EngineInv, ControlOK
<1>5. ASSUME NEW id \in DOMAIN orders, CancelOrder(id)
      PROVE  CallsAlone'
  BY <1>4, <1>5 DEF CancelOrder, MayCancel
<1>6. ASSUME NEW strat \in Strategies, CancelAllOrders(strat)
      PROVE  CallsAlone'
  BY <1>4, <1>6 DEF CancelAllOrders, MayCancel
<1>7. ASSUME NEW id \in DOMAIN orders, CancelNext(id)
      PROVE  CallsAlone'
  BY <1>4, <1>7 DEF CancelNext, CallsAlone
<1>8. ASSUME UNCHANGED <<orders, aggressor, sweep>>, sweep # {} => pc' = "idle"
      PROVE  CallsAlone'
  BY <1>8 DEF CallsAlone, Active
<1>9. CASE TakeLevel \/ LeaveLevels \/ AfterFill \/ LeaveLevel
  BY <1>8, <1>9 DEF TakeLevel, LeaveLevels, AfterFill, LeaveLevel, CallsAlone
<1>10. CASE UNCHANGED vars
  BY <1>8, <1>10 DEF vars, CallsAlone
<1> QED
  BY <1>1, <1>2, <1>3, <1>5, <1>6, <1>7, <1>9, <1>10 DEF Next

\* A step changes the status or the fills of open orders only.
LEMMA ClosedUntouched ==
    ASSUME EngineInv, CallsAlone, [Next]_vars,
           NEW id \in DOMAIN orders, Terminal(orders[id])
    PROVE  orders'[id].status = orders[id].status /\ ~ FilledBy(id)
<1>1. ~ Active(orders[id]) /\ orders[id].filled \in Nat
  BY OrderFacts DEF Active, Terminal, EngineInv
<1>2. orders'[id] = orders[id]
  <2>1. CASE Fill
    <3>1. PICK pa : pa = Head(LevelFifo)
      OBVIOUS
    <3>2. /\ Rests(orders[pa]) /\ aggressor # None /\ orders[aggressor].rem # 0
          /\ \A i \in DOMAIN orders : i # pa /\ i # aggressor => orders'[i] = orders[i]
      <4>1. Rests(orders[pa]) /\ aggressor \in DOMAIN orders
        BY <2>1, <3>1, PassiveFacts
      <4>2. \A i \in DOMAIN orders : i # pa /\ i # aggressor => orders'[i] = orders[i]
        BY <2>1, <3>1, FillOrders
      <4>3. orders[aggressor].rem # 0
        BY <2>1 DEF Fill
      <4>4. aggressor # None
        BY <4>1, IdFacts DEF EngineInv
      <4> QED
        BY <4>1, <4>2, <4>3, <4>4
    <3> QED
      BY <1>1, <3>2 DEF Rests, CallsAlone
  <2>2. ASSUME NEW i \in DOMAIN orders, CancelOne(i)
        PROVE  orders'[id] = orders[id]
    BY <1>1, <2>2, CancelOrders
  <2>3. CASE Finish
    BY <1>1, <2>3, FinishOrders
  <2>4. ASSUME NEW r \in Requests, Submit(r)
        PROVE  orders'[id] = orders[id]
    BY <2>4, SubmitOrders
  <2>5. CASE orders' = orders
    BY <2>5
  <2> QED
    BY <2>1, <2>2, <2>3, <2>4, <2>5
       DEF Next, vars, TakeLevel, LeaveLevels, AfterFill, LeaveLevel, CancelOrder,
           CancelAllOrders, CancelNext
<1> QED
  BY <1>1, <1>2 DEF FilledBy

-----------------------------------------------------------------------------
(* The totals of the levels                                                *)

Members(s) == { s[i] : i \in 1 .. Len(s) }

LEMMA TotalsView ==
    TotalsMatchOrders <=>
        \A sym \in Symbols, side \in Sides, p \in Prices :
            total[sym][side][p] = SumFunctionOnSet(Wanted, Members(fifo[sym][side][p]))
  BY DEF TotalsMatchOrders, Members

LEMMA TotalsViewNext ==
    TotalsMatchOrders' <=>
        \A sym \in Symbols, side \in Sides, p \in Prices :
            total'[sym][side][p] = SumFunctionOnSet(Wanted', Members(fifo'[sym][side][p]))
  BY DEF TotalsMatchOrders, Members

LEMMA MembersListed == \A s : \A x : x \in Members(s) <=> Listed(s, x)
  BY DEF Members, Listed

\* The orders of a level are known orders, so their quantities can be summed.
LEMMA LevelMembers ==
    ASSUME TypeOK, NEW s \in Seq(DOMAIN orders)
    PROVE  /\ IsFiniteSet(Members(s))
           /\ \A x \in Members(s) : x \in DOMAIN orders /\ Wanted[x] \in Nat /\ Wanted[x] \in Int
<1>1. Members(s) \subseteq DOMAIN orders
  BY ElementOfSeq DEF Members
<1>2. IsFiniteSet(DOMAIN orders)
  BY IdFacts, FS_Interval
<1>3. \A x \in DOMAIN orders : Wanted[x] \in Nat
  BY OrderFacts DEF Wanted
<1> QED
  BY <1>1, <1>2, <1>3, FS_Subset

LEMMA LevelSequences ==
    ASSUME TypeOK, NEW sym \in Symbols, NEW side \in Sides, NEW p \in Prices
    PROVE  fifo[sym][side][p] \in Seq(DOMAIN orders) /\ total[sym][side][p] \in Int
  BY DEF TypeOK

\* A level keeps its sum if its orders keep their quantities.
LEMMA SameSum ==
    ASSUME TypeOK, NEW s \in Seq(DOMAIN orders),
           \A x \in Members(s) : x \in DOMAIN orders' /\ orders'[x].rem = orders[x].rem
    PROVE  SumFunctionOnSet(Wanted', Members(s)) = SumFunctionOnSet(Wanted, Members(s))
<1>1. /\ IsFiniteSet(Members(s))
      /\ \A x \in Members(s) : x \in DOMAIN orders /\ Wanted[x] \in Int
  BY LevelMembers
<1>2. \A x \in Members(s) : Wanted'[x] = Wanted[x]
  BY <1>1 DEF Wanted
<1> QED
  BY <1>1, <1>2, SumEqual

LEMMA TotalsKept ==
    ASSUME TypeOK, TotalsMatchOrders, UNCHANGED <<fifo, total>>,
           \A id \in DOMAIN orders : id \in DOMAIN orders' /\ orders'[id].rem = orders[id].rem
    PROVE  TotalsMatchOrders'
<1>1. ASSUME NEW sym \in Symbols, NEW side \in Sides, NEW p \in Prices
      PROVE  total[sym][side][p] = SumFunctionOnSet(Wanted', Members(fifo[sym][side][p]))
  <2>1. fifo[sym][side][p] \in Seq(DOMAIN orders)
    BY LevelSequences
  <2>2. \A x \in Members(fifo[sym][side][p]) : x \in DOMAIN orders
    BY <2>1, LevelMembers
  <2>3. total[sym][side][p] = SumFunctionOnSet(Wanted, Members(fifo[sym][side][p]))
    BY TotalsView
  <2> QED
    BY <2>1, <2>2, <2>3, SameSum
<1> QED
  BY <1>1, TotalsViewNext

\* remove_order of an order that is in the book, level by level.
LEMMA RemovalDetail ==
    ASSUME TypeOK, IndexOK, LevelsOK, NEW id \in DOMAIN orders, RemoveFromBook(id),
           id \in index[orders[id].sym]
    PROVE  LET o == orders[id]
               old == fifo[o.sym][o.side][o.price]
               left == Unlink(old, id)
               t == IF left = <<>> THEN 0 ELSE total[o.sym][o.side][o.price] - o.rem
           IN  /\ o.sym \in Symbols /\ o.side \in Sides /\ o.price \in Prices /\ o.rem \in Nat
               /\ old \in Seq(DOMAIN orders) /\ Listed(old, id)
               /\ total[o.sym][o.side][o.price] \in Int
               /\ left \in Seq(DOMAIN orders)
               /\ \A x : Listed(left, x) <=> x # id /\ Listed(old, x)
               /\ \A sym \in Symbols, side \in Sides, p \in Prices :
                     fifo'[sym][side][p] =
                        IF sym = o.sym /\ side = o.side /\ p = o.price THEN left
                        ELSE fifo[sym][side][p]
               /\ \A sym \in Symbols, side \in Sides, p \in Prices :
                     total'[sym][side][p] =
                        IF sym = o.sym /\ side = o.side /\ p = o.price THEN t
                        ELSE total[sym][side][p]
<1> DEFINE o == orders[id]
           old == fifo[o.sym][o.side][o.price]
           left == Unlink(old, id)
           t == IF left = <<>> THEN 0 ELSE total[o.sym][o.side][o.price] - o.rem
<1>1. o.sym \in Symbols /\ o.side \in Sides /\ o.price \in Prices /\ o.rem \in Nat
  BY OrderFacts DEF IndexOK, Bookable
<1>2. /\ old \in Seq(DOMAIN orders) /\ Ascending(old) /\ Listed(old, id)
      /\ total[o.sym][o.side][o.price] \in Int
  BY <1>1, LevelSequences DEF LevelsOK, InLevel
<1>3. \A x \in DOMAIN orders : x \in Nat
  BY OrderFacts
<1>4. /\ left \in Seq(DOMAIN orders)
      /\ \A x : Listed(left, x) <=> x # id /\ Listed(old, x)
  <2> HIDE DEF old
  <2> QED
    BY <1>2, <1>3, UnlinkProperties
<1>5. t \in Int
  <2> HIDE DEF left, o
  <2> QED
    BY <1>1, <1>2
<1>6. /\ fifo'  = [fifo EXCEPT ![o.sym][o.side][o.price] = left]
      /\ total' = [total EXCEPT ![o.sym][o.side][o.price] = t]
  BY DEF RemoveFromBook
<1> HIDE DEF o, old, left, t
<1>7. \A sym \in Symbols, side \in Sides, p \in Prices :
         fifo'[sym][side][p] =
            IF sym = o.sym /\ side = o.side /\ p = o.price THEN left ELSE fifo[sym][side][p]
  <2>1. fifo \in [Symbols -> [Sides -> [Prices -> Seq(DOMAIN orders)]]]
    BY DEF TypeOK
  <2>2. fifo' = [fifo EXCEPT ![o.sym][o.side][o.price] = left]
    BY <1>6
  <2> QED
    BY <1>1, <1>4, <2>1, <2>2, UpdateLevel
<1>8. \A sym \in Symbols, side \in Sides, p \in Prices :
         total'[sym][side][p] =
            IF sym = o.sym /\ side = o.side /\ p = o.price THEN t ELSE total[sym][side][p]
  <2>1. total \in [Symbols -> [Sides -> [Prices -> Int]]]
    BY DEF TypeOK
  <2>2. total' = [total EXCEPT ![o.sym][o.side][o.price] = t]
    BY <1>6
  <2> QED
    BY <1>1, <1>5, <2>1, <2>2, UpdateLevel
<1> QED
  BY <1>1, <1>2, <1>4, <1>7, <1>8 DEF o, old, left, t

\* remove_order: the level loses the order and what it still wanted.
LEMMA TotalsWithout ==
    ASSUME TypeOK, IndexOK, LevelsOK, TotalsMatchOrders,
           NEW id \in DOMAIN orders, RemoveFromBook(id),
           \A i \in DOMAIN orders : i \in DOMAIN orders' /\ orders'[i].rem = orders[i].rem
    PROVE  TotalsMatchOrders'
<1> DEFINE o == orders[id]
           old == fifo[o.sym][o.side][o.price]
           left == Unlink(old, id)
           t == IF left = <<>> THEN 0 ELSE total[o.sym][o.side][o.price] - o.rem
<1>1. CASE id \notin index[o.sym]
  BY <1>1, TotalsKept DEF RemoveFromBook, book
<1>2. CASE id \in index[o.sym]
  <2>1. /\ o.sym \in Symbols /\ o.side \in Sides /\ o.price \in Prices /\ o.rem \in Nat
        /\ old \in Seq(DOMAIN orders) /\ Listed(old, id)
        /\ left \in Seq(DOMAIN orders)
        /\ \A x : Listed(left, x) <=> x # id /\ Listed(old, x)
    BY <1>2, RemovalDetail
  <2>2. /\ \A sym \in Symbols, side \in Sides, p \in Prices :
              fifo'[sym][side][p] =
                 IF sym = o.sym /\ side = o.side /\ p = o.price THEN left
                 ELSE fifo[sym][side][p]
        /\ \A sym \in Symbols, side \in Sides, p \in Prices :
              total'[sym][side][p] =
                 IF sym = o.sym /\ side = o.side /\ p = o.price THEN t
                 ELSE total[sym][side][p]
    BY <1>2, RemovalDetail
  <2>5. total[o.sym][o.side][o.price] = SumFunctionOnSet(Wanted, Members(old))
    BY <2>1, TotalsView
  <2> HIDE DEF left, old
  <2>7. Members(left) = Members(old) \ {id} /\ id \in Members(old)
    BY <2>1, MembersListed
  <2>8. Wanted[id] = o.rem
    BY DEF Wanted
  <2>9. /\ IsFiniteSet(Members(old)) /\ \A x \in Members(old) : Wanted[x] \in Int
        /\ IsFiniteSet(Members(left)) /\ \A x \in Members(left) : Wanted[x] \in Int
    BY <2>1, LevelMembers
  <2>10. SumFunctionOnSet(Wanted, Members(old)) =
           o.rem + SumFunctionOnSet(Wanted, Members(left))
    <3>1. SumFunctionOnSet(Wanted, Members(old)) =
            Wanted[id] + SumFunctionOnSet(Wanted, Members(old) \ {id})
      BY <2>7, <2>9, SumRemove
    <3> QED
      BY <2>7, <2>8, <3>1
  <2>11. SumFunctionOnSet(Wanted, Members(left)) \in Int
    BY <2>9, SumType
  <2>12. t = SumFunctionOnSet(Wanted, Members(left))
    <3>1. CASE left = <<>>
      <4>1. Members(left) = {}
        BY <3>1 DEF Members
      <4> QED
        BY <3>1, <4>1, SumEmpty
    <3>2. CASE left # <<>>
      BY <2>1, <2>5, <2>10, <2>11, <3>2
    <3> QED
      BY <3>1, <3>2
  <2> HIDE DEF o, t
  <2>15. ASSUME NEW sym \in Symbols, NEW side \in Sides, NEW p \in Prices
         PROVE  total'[sym][side][p] = SumFunctionOnSet(Wanted', Members(fifo'[sym][side][p]))
    <3>1. CASE sym = o.sym /\ side = o.side /\ p = o.price
      <4>1. fifo'[sym][side][p] = left /\ total'[sym][side][p] = t
        BY <2>2, <3>1
      <4>2. SumFunctionOnSet(Wanted', Members(left)) = SumFunctionOnSet(Wanted, Members(left))
        BY <2>1, LevelMembers, SameSum
      <4> QED
        BY <2>12, <4>1, <4>2
    <3>2. CASE ~ (sym = o.sym /\ side = o.side /\ p = o.price)
      <4>1. fifo'[sym][side][p] = fifo[sym][side][p] /\ total'[sym][side][p] = total[sym][side][p]
        BY <2>2, <3>2
      <4>2. fifo[sym][side][p] \in Seq(DOMAIN orders)
        BY LevelSequences
      <4>3. SumFunctionOnSet(Wanted', Members(fifo[sym][side][p])) =
              SumFunctionOnSet(Wanted, Members(fifo[sym][side][p]))
        BY <4>2, LevelMembers, SameSum
      <4>4. total[sym][side][p] = SumFunctionOnSet(Wanted, Members(fifo[sym][side][p]))
        BY TotalsView
      <4> QED
        BY <4>1, <4>3, <4>4
    <3> QED
      BY <3>1, <3>2
  <2> QED
    BY <2>15, TotalsViewNext
<1> QED
  BY <1>1, <1>2

\* add_order: the level gains the order and what it still wants.
LEMMA TotalsWith ==
    ASSUME TypeOK, IndexOK, LevelsOK, TotalsMatchOrders, NEW id \in DOMAIN orders,
           ~ Bookable(id), orders[id].type \in {"Limit", "GTC"}, AddToBook(id),
           UNCHANGED orders
    PROVE  TotalsMatchOrders'
<1> DEFINE o == orders[id]
           old == fifo[o.sym][o.side][o.price]
           new == Append(old, id)
           t == total[o.sym][o.side][o.price] + o.rem
<1>1. o.sym \in Symbols /\ o.side \in Sides /\ o.price \in Prices /\ o.rem \in Nat
  BY OrderFacts
<1>2. old \in Seq(DOMAIN orders) /\ new \in Seq(DOMAIN orders) /\ t \in Int
  <2>1. old \in Seq(DOMAIN orders) /\ total[o.sym][o.side][o.price] \in Int
    BY <1>1, LevelSequences
  <2> QED
    BY <1>1, <2>1, AppendProperties
<1>3. /\ fifo'  = [fifo EXCEPT ![o.sym][o.side][o.price] = new]
      /\ total' = [total EXCEPT ![o.sym][o.side][o.price] = t]
  BY DEF AddToBook
<1>4. id \notin Members(old)
  BY <1>1, MembersListed DEF LevelsOK, IndexOK, InLevel
<1>5. total[o.sym][o.side][o.price] = SumFunctionOnSet(Wanted, Members(old))
  BY <1>1, TotalsView
<1> HIDE DEF old
<1>6. Members(new) = Members(old) \cup {id}
  <2>1. \A x : Listed(new, x) <=> x = id \/ Listed(old, x)
    BY <1>2, AppendProperties, LenProperties DEF Listed
  <2> HIDE DEF new
  <2> QED
    BY <2>1, MembersListed
<1>7. /\ IsFiniteSet(Members(old))
      /\ \A x \in Members(old) \cup {id} : Wanted[x] \in Int
  <2>1. Wanted[id] \in Int
    BY <1>1 DEF Wanted
  <2> QED
    BY <1>2, <2>1, LevelMembers
<1>8. t = SumFunctionOnSet(Wanted, Members(new))
  <2>1. SumFunctionOnSet(Wanted, Members(old) \cup {id}) =
          Wanted[id] + SumFunctionOnSet(Wanted, Members(old))
    BY <1>4, <1>7, SumAdd
  <2>2. Wanted[id] = o.rem /\ SumFunctionOnSet(Wanted, Members(old)) \in Int
    BY <1>7, SumType DEF Wanted
  <2>3. SumFunctionOnSet(Wanted, Members(new)) = o.rem + SumFunctionOnSet(Wanted, Members(old))
    BY <1>6, <2>1, <2>2
  <2> QED
    BY <1>1, <1>5, <2>2, <2>3
<1> HIDE DEF o, t, new
<1>9. /\ \A sym \in Symbols, side \in Sides, p \in Prices :
            fifo'[sym][side][p] =
               IF sym = o.sym /\ side = o.side /\ p = o.price THEN new
               ELSE fifo[sym][side][p]
      /\ \A sym \in Symbols, side \in Sides, p \in Prices :
            total'[sym][side][p] =
               IF sym = o.sym /\ side = o.side /\ p = o.price THEN t
               ELSE total[sym][side][p]
  <2>1. fifo \in [Symbols -> [Sides -> [Prices -> Seq(DOMAIN orders)]]]
    BY DEF TypeOK
  <2>11. fifo'  = [fifo EXCEPT ![o.sym][o.side][o.price] = new]
    BY <1>3
  <2>12. total \in [Symbols -> [Sides -> [Prices -> Int]]]
    BY DEF TypeOK
  <2>13. total' = [total EXCEPT ![o.sym][o.side][o.price] = t]
    BY <1>3
  <2>14. o.sym \in Symbols /\ o.side \in Sides /\ o.price \in Prices /\ t \in Int
    BY <1>1, <1>2
  <2>2. \A sym \in Symbols, side \in Sides, p \in Prices :
            fifo'[sym][side][p] =
               IF sym = o.sym /\ side = o.side /\ p = o.price THEN new
               ELSE fifo[sym][side][p]
    <3>1. new \in Seq(DOMAIN orders)
      BY <1>2
    <3> QED
      BY <2>1, <2>11, <2>14, <3>1, UpdateLevel
  <2>3. \A sym \in Symbols, side \in Sides, p \in Prices :
            total'[sym][side][p] =
               IF sym = o.sym /\ side = o.side /\ p = o.price THEN t
               ELSE total[sym][side][p]
    BY <2>12, <2>13, <2>14, UpdateLevel
  <2> QED
    BY <2>2, <2>3
<1>10. Wanted' = Wanted
  BY DEF Wanted
<1>11. \A sym \in Symbols, side \in Sides, p \in Prices :
         total[sym][side][p] = SumFunctionOnSet(Wanted, Members(fifo[sym][side][p]))
  BY TotalsView
<1>12. ASSUME NEW sym \in Symbols, NEW side \in Sides, NEW p \in Prices
       PROVE  total'[sym][side][p] = SumFunctionOnSet(Wanted', Members(fifo'[sym][side][p]))
  BY <1>8, <1>9, <1>10, <1>11
<1> QED
  BY <1>12, TotalsViewNext

\* The matching loop: what the head of the level gives leaves the level's total.
LEMMA TotalsAfterFill ==
    ASSUME EngineInv, TotalsMatchOrders, Fill
    PROVE  TotalsMatchOrders'
<1> DEFINE o  == orders[aggressor]
           pa == Head(LevelFifo)
           q  == FillQty(o, orders[pa])
           opp == Opposite(o.side)
           f == fifo[o.sym][opp][level]
           t == total[o.sym][opp][level] - q
<1>1. /\ aggressor \in DOMAIN orders
      /\ pa \in DOMAIN orders /\ pa # aggressor
      /\ o.sym \in Symbols /\ opp \in Sides /\ level \in Prices
      /\ InLevel(o.sym, opp, level, pa)
      /\ q \in Nat /\ q <= orders[pa].rem
  BY PassiveFacts
<1>2. total' = [total EXCEPT ![o.sym][opp][level] = t] /\ fifo' = fifo
  BY DEF Fill
<1>3. /\ DOMAIN orders' = DOMAIN orders
      /\ orders'[pa] = ApplyFill(orders[pa], q)
      /\ \A i \in DOMAIN orders : i # pa /\ i # aggressor => orders'[i] = orders[i]
  BY FillOrders
<1>4. TypeOK /\ IndexOK /\ LevelsOK
  BY BookView DEF EngineInv
<1>5. f \in Seq(DOMAIN orders) /\ total[o.sym][opp][level] \in Int
  BY <1>1, <1>4, LevelSequences
<1>6. orders[pa].rem \in Nat /\ orders[pa] \in Order
  BY <1>1, <1>4, OrderFacts
<1>7. \A sym \in Symbols, side \in Sides, p \in Prices :
         /\ aggressor \notin Members(fifo[sym][side][p])
         /\ pa \in Members(fifo[sym][side][p]) => sym = o.sym /\ side = opp /\ p = level
  <2>1. pa \in index[o.sym] /\ orders[pa].side = opp /\ orders[pa].price = level
    BY <1>1, <1>4 DEF LevelsOK
  <2> HIDE DEF pa, opp, o
  <2>2. \A sym \in Symbols, side \in Sides, p \in Prices : \A x \in Members(fifo[sym][side][p]) :
          x \in index[sym] /\ orders[x].side = side /\ orders[x].price = p
    BY <1>4, MembersListed DEF LevelsOK, InLevel
  <2>3. \A sym \in Symbols : \A x \in index[sym] : x # aggressor /\ orders[x].sym = sym
    BY <1>4 DEF IndexOK, Bookable
  <2> QED
    BY <1>1, <2>1, <2>2, <2>3
<1>8. orders'[pa].rem = orders[pa].rem - q
  <2> HIDE DEF pa, q
  <2> QED
    BY <1>1, <1>3, <1>6, FillOfOrder
<1>9. t \in Int
  <2> HIDE DEF q
  <2> QED
    BY <1>1, <1>5
<1>10. pa \in Members(f)
  BY <1>1, MembersListed DEF InLevel
<1> HIDE DEF o, pa, q, opp
<1>11. SumFunctionOnSet(Wanted', Members(f)) = t
  <2> HIDE DEF f
  <2>1. /\ IsFiniteSet(Members(f))
        /\ \A x \in Members(f) : x \in DOMAIN orders /\ Wanted[x] \in Int
    BY <1>4, <1>5, LevelMembers
  <2>2. /\ Wanted'[pa] = Wanted[pa] - q /\ Wanted[pa] \in Int /\ Wanted'[pa] \in Int
        /\ \A x \in Members(f) : x # pa => Wanted'[x] = Wanted[x]
    <3>1. \A x \in Members(f) : x # aggressor
      BY <1>1, <1>7 DEF f
    <3>2. Wanted'[pa] = Wanted[pa] - q /\ Wanted[pa] = orders[pa].rem
      BY <1>1, <1>3, <1>8 DEF Wanted
    <3>3. ASSUME NEW x \in Members(f), x # pa
          PROVE  Wanted'[x] = Wanted[x]
      BY <1>3, <2>1, <3>1, <3>3 DEF Wanted
    <3> QED
      BY <1>1, <1>6, <3>2, <3>3
  <2>3. SumFunctionOnSet(Wanted', Members(f)) =
          SumFunctionOnSet(Wanted, Members(f)) - Wanted[pa] + Wanted'[pa]
    BY <1>10, <2>1, <2>2, SumUpdate
  <2>4. SumFunctionOnSet(Wanted, Members(f)) = total[o.sym][opp][level]
    BY <1>1, TotalsView DEF f
  <2> QED
    BY <1>1, <1>5, <2>2, <2>3, <2>4
<1> HIDE DEF t
<1>12. \A sym \in Symbols, side \in Sides, p \in Prices :
            total'[sym][side][p] =
               IF sym = o.sym /\ side = opp /\ p = level THEN t
               ELSE total[sym][side][p]
  <2>1. total \in [Symbols -> [Sides -> [Prices -> Int]]]
    BY <1>4 DEF TypeOK
  <2> QED
    BY <1>1, <1>2, <1>9, <2>1, UpdateLevel
<1>13. ASSUME NEW sym \in Symbols, NEW side \in Sides, NEW p \in Prices
       PROVE  total'[sym][side][p] = SumFunctionOnSet(Wanted', Members(fifo'[sym][side][p]))
  <2>1. CASE sym = o.sym /\ side = opp /\ p = level
    BY <1>2, <1>11, <1>12, <2>1
  <2>2. CASE ~ (sym = o.sym /\ side = opp /\ p = level)
    <3>1. fifo[sym][side][p] \in Seq(DOMAIN orders)
      BY <1>4, LevelSequences
    <3>2. \A x \in Members(fifo[sym][side][p]) : x \in DOMAIN orders
      BY <1>4, <3>1, LevelMembers
    <3>3. \A x \in Members(fifo[sym][side][p]) :
             x \in DOMAIN orders' /\ orders'[x].rem = orders[x].rem
      BY <1>3, <1>7, <2>2, <3>2
    <3>4. SumFunctionOnSet(Wanted', Members(fifo[sym][side][p])) =
            SumFunctionOnSet(Wanted, Members(fifo[sym][side][p]))
      BY <1>4, <3>1, <3>3, SameSum
    <3>5. total[sym][side][p] = SumFunctionOnSet(Wanted, Members(fifo[sym][side][p]))
      BY TotalsView
    <3> QED
      BY <1>2, <1>12, <2>2, <3>4, <3>5
  <2> QED
    BY <2>1, <2>2
<1> QED
  BY <1>13, TotalsViewNext

LEMMA InitTotals == Init => TotalsMatchOrders
<1> SUFFICES ASSUME Init PROVE TotalsMatchOrders
  OBVIOUS
<1>1. ASSUME NEW sym \in Symbols, NEW side \in Sides, NEW p \in Prices
      PROVE  total[sym][side][p] = SumFunctionOnSet(Wanted, Members(fifo[sym][side][p]))
  <2>1. fifo[sym][side][p] = <<>> /\ total[sym][side][p] = 0
    BY DEF Init
  <2>2. Members(<<>>) = {}
    BY DEF Members
  <2> QED
    BY <2>1, <2>2, SumEmpty
<1> QED
  BY <1>1, TotalsView

LEMMA TotalsStayRight ==
    ASSUME EngineInv, TotalsMatchOrders, [Next]_vars
    PROVE  TotalsMatchOrders'
<1>1. ASSUME UNCHANGED <<orders, book>>
      PROVE  TotalsMatchOrders'
  BY <1>1, TotalsKept DEF book, EngineInv
<1>2. ASSUME NEW r \in Requests, Submit(r)
      PROVE  TotalsMatchOrders'
  <2>1. \A id \in DOMAIN orders : id \in DOMAIN orders' /\ orders'[id] = orders[id]
    <3>1. PICK x : orders' = Append(orders, x)
      BY <1>2 DEF Submit
    <3>2. orders \in Seq(Order) /\ DOMAIN orders = 1 .. Len(orders)
      BY LenProperties DEF EngineInv, TypeOK
    <3> QED
      BY <3>1, <3>2
  <2> QED
    BY <1>2, <2>1, TotalsKept DEF Submit, book, EngineInv
<1>3. ASSUME NEW id \in DOMAIN orders, CancelOne(id)
      PROVE  TotalsMatchOrders'
  <2>1. \A i \in DOMAIN orders : i \in DOMAIN orders' /\ orders'[i].rem = orders[i].rem
    <3>1. orders[id] \in Order /\ orders \in Seq(Order)
      BY OrderFacts DEF EngineInv, TypeOK
    <3>2. orders' = [orders EXCEPT ![id] = CancelOf(orders[id])]
      BY <1>3 DEF CancelOne
    <3>3. CancelOf(orders[id]).rem = orders[id].rem
      BY <3>1, CancelOfOrder
    <3> QED
      BY <3>2, <3>3
  <2> QED
    BY <1>3, <2>1, TotalsWithout, BookView DEF CancelOne, EngineInv
<1>4. CASE AfterFill
  <2>1. passive \in DOMAIN orders /\ orders' = orders
    BY <1>4 DEF EngineInv, ControlOK, TypeOK, AfterFill
  <2>2. CASE RemoveFromBook(passive)
    BY <2>1, <2>2, TotalsWithout, BookView DEF EngineInv
  <2> QED
    BY <1>1, <1>4, <2>1, <2>2 DEF AfterFill
<1>5. CASE Finish
  <2>1. /\ aggressor \in DOMAIN orders
        /\ \A i \in DOMAIN orders : i # aggressor => orders'[i] = orders[i]
    BY <1>5, FinishOrders
  <2>2. CASE orders[aggressor].type \in {"Market", "IOC"}
    <3>1. orders' = [orders EXCEPT ![aggressor] = CancelOf(orders[aggressor])] /\ UNCHANGED book
      BY <1>5, <2>2 DEF Finish
    <3>2. CancelOf(orders[aggressor]).rem = orders[aggressor].rem
      BY <2>1, OrderFacts, CancelOfOrder DEF EngineInv
    <3>3. \A i \in DOMAIN orders : i \in DOMAIN orders' /\ orders'[i].rem = orders[i].rem
      BY <2>1, <3>1, <3>2
    <3> QED
      BY <3>1, <3>3, TotalsKept DEF book, EngineInv
  <2>3. CASE AddToBook(aggressor) /\ orders' = orders /\ orders[aggressor].type \in {"Limit", "GTC"}
    <3>1. ~ Bookable(aggressor)
      BY DEF Bookable
    <3> QED
      BY <2>1, <2>3, <3>1, TotalsWith, BookView DEF EngineInv
  <2> QED
    BY <1>1, <1>5, <2>2, <2>3 DEF Finish
<1>6. CASE Fill
  BY <1>6, TotalsAfterFill
<1> QED
  BY <1>1, <1>2, <1>3, <1>4, <1>5, <1>6
     DEF Next, vars, TakeLevel, LeaveLevels, LeaveLevel, CancelOrder,
         CancelAllOrders, CancelNext

-----------------------------------------------------------------------------
(* The quantities and the status of an order                               *)

SoundOrder(o) ==
    /\ o.filled + o.rem = o.qty
    /\ o.status = "Filled" <=> o.rem = 0 /\ o.qty > 0
    /\ o.status \in {"New", "Rejected"} => o.filled = 0

OrdersSound == \A id \in DOMAIN orders : SoundOrder(orders[id])

LEMMA QuantityFacts ==
    ASSUME NEW o \in Order
    PROVE  /\ o.qty \in Nat /\ o.filled \in Nat /\ o.rem \in Nat
           /\ Active(o) \/ Terminal(o)
           /\ ~ (Active(o) /\ Terminal(o))
           /\ o.type \in {"Limit", "GTC"} => o.type \notin {"Market", "IOC", "FOK"}
<1>1. /\ o.qty \in Quantities /\ o.filled \in Nat /\ o.rem \in Nat
      /\ o.status \in {"New", "PartiallyFilled", "Filled", "Cancelled", "Rejected"}
  BY DEF Order
<1>2. o.qty \in Nat
  BY <1>1, ConstantsAssumption
<1> QED
  BY <1>1, <1>2 DEF Active, Terminal

LEMMA NewOrderFacts ==
    ASSUME NEW r \in Requests, NEW x \in {NewOrder(r), [NewOrder(r) EXCEPT !.status = "Rejected"]}
    PROVE  /\ SoundOrder(x) /\ x.filled = 0
           /\ x.sym = r.sym /\ x.side = r.side /\ x.type = r.type /\ x.price = r.price
           /\ x.qty = r.qty /\ x.rem = r.qty /\ r.qty \in Nat
           /\ r.sym \in Symbols /\ r.side \in Sides /\ r.price \in Nat
<1>1. /\ r.qty \in Quantities /\ r.sym \in Symbols /\ r.side \in Sides
      /\ r.price \in Prices \cup {0}
  BY DEF Requests
<1>2. r.qty \in Nat /\ r.price \in Nat
  BY <1>1, ConstantsAssumption, PricesAssumption
<1> QED
  BY <1>1, <1>2 DEF NewOrder, SoundOrder

LEMMA SoundAfterFill ==
    ASSUME NEW o \in Order, SoundOrder(o), NEW q \in Nat, q # 0, q <= o.rem
    PROVE  SoundOrder(ApplyFill(o, q))
<1> DEFINE x == ApplyFill(o, q)
<1>1. o.qty \in Nat /\ o.filled \in Nat /\ o.rem \in Nat
  BY QuantityFacts
<1>2. /\ x.filled = o.filled + q /\ x.rem = o.rem - q /\ x.qty = o.qty
      /\ x.status = IF o.rem = q THEN "Filled" ELSE "PartiallyFilled"
  BY DEF ApplyFill, Order
<1> HIDE DEF x
<1>3. SoundOrder(x)
  BY <1>1, <1>2 DEF SoundOrder
<1> QED
  BY <1>3 DEF x

LEMMA SoundAfterCancel ==
    ASSUME NEW o \in Order, SoundOrder(o)
    PROVE  SoundOrder(CancelOf(o))
  BY QuantityFacts DEF CancelOf, SoundOrder, Active, Order

\* What a fill does to the incoming order.
LEMMA FillBoth ==
    ASSUME EngineInv, Fill
    PROVE  LET q == FillQty(orders[aggressor], orders[Head(LevelFifo)])
           IN  orders'[aggressor] = ApplyFill(orders[aggressor], q)
<1> DEFINE pa == Head(LevelFifo)
           q == FillQty(orders[aggressor], orders[pa])
<1>1. aggressor \in DOMAIN orders /\ pa \in DOMAIN orders /\ pa # aggressor
  BY PassiveFacts
<1>2. orders' = [orders EXCEPT ![aggressor] = ApplyFill(@, q), ![pa] = ApplyFill(@, q)]
  BY DEF Fill
<1> HIDE DEF pa, q
<1>3. orders'[aggressor] = ApplyFill(orders[aggressor], q)
  BY <1>1, <1>2
<1> QED
  BY <1>3 DEF pa, q

\* The new order is the only one that submit_order adds.
LEMMA SubmitAppends ==
    ASSUME EngineInv, NEW r \in Requests, Submit(r),
           NEW x, orders' = Append(orders, x)
    PROVE  /\ DOMAIN orders' = 1 .. Len(orders) + 1
           /\ \A id \in DOMAIN orders : id \in DOMAIN orders' /\ orders'[id] = orders[id]
           /\ \A id \in DOMAIN orders' : id \notin DOMAIN orders => id = Len(orders) + 1
           /\ Len(orders) + 1 \in DOMAIN orders'
           /\ Len(orders) + 1 \notin DOMAIN orders
           /\ orders'[Len(orders) + 1] = x
<1>1. /\ orders \in Seq(Order) /\ Len(orders) \in Nat /\ DOMAIN orders = 1 .. Len(orders)
  BY LenProperties DEF EngineInv, TypeOK
<1> QED
  BY <1>1

LEMMA SubmittedOrder ==
    ASSUME NEW r \in Requests, Submit(r)
    PROVE  \E x \in {NewOrder(r), [NewOrder(r) EXCEPT !.status = "Rejected"]} :
              orders' = Append(orders, x)
  BY DEF Submit

\* Orders are only ever added, and a new order has traded nothing yet.
LEMMA OrdersGrow ==
    ASSUME EngineInv, [Next]_vars
    PROVE  /\ \A id \in DOMAIN orders : id \in DOMAIN orders'
           /\ \A id \in DOMAIN orders' : id \notin DOMAIN orders => orders'[id].filled = 0
<1>1. ASSUME NEW r \in Requests, Submit(r)
      PROVE  /\ \A id \in DOMAIN orders : id \in DOMAIN orders'
             /\ \A id \in DOMAIN orders' : id \notin DOMAIN orders => orders'[id].filled = 0
  <2>1. PICK x \in {NewOrder(r), [NewOrder(r) EXCEPT !.status = "Rejected"]} :
           orders' = Append(orders, x)
    BY <1>1, SubmittedOrder
  <2>2. x.filled = 0
    BY NewOrderFacts
  <2>3. /\ \A id \in DOMAIN orders : id \in DOMAIN orders'
        /\ \A id \in DOMAIN orders' : id \notin DOMAIN orders => orders'[id] = x
    BY <1>1, <2>1, SubmitAppends
  <2> QED
    BY <2>2, <2>3
<1>2. CASE DOMAIN orders' = DOMAIN orders
  BY <1>2
<1> QED
  BY <1>1, <1>2, FillOrders
     DEF Next, vars, TakeLevel, LeaveLevels, AfterFill, LeaveLevel, Finish, CancelOrder,
         CancelAllOrders, CancelNext, CancelOne

\* A step leaves every order as it is, except the new one, the two that trade and
\* the one that is cancelled.
LEMMA OrdersStaySound ==
    ASSUME EngineInv, OrdersSound, [Next]_vars
    PROVE  OrdersSound'
<1>1. ASSUME NEW r \in Requests, Submit(r)
      PROVE  OrdersSound'
  <2>1. PICK x \in {NewOrder(r), [NewOrder(r) EXCEPT !.status = "Rejected"]} :
           orders' = Append(orders, x)
    BY <1>1, SubmittedOrder
  <2>2. SoundOrder(x)
    BY NewOrderFacts
  <2>3. /\ \A id \in DOMAIN orders : orders'[id] = orders[id]
        /\ \A id \in DOMAIN orders' : id \notin DOMAIN orders => orders'[id] = x
    BY <1>1, <2>1, SubmitAppends
  <2> QED
    BY <2>2, <2>3 DEF OrdersSound
<1>2. ASSUME NEW id \in DOMAIN orders, orders' = [orders EXCEPT ![id] = CancelOf(orders[id])]
      PROVE  OrdersSound'
  <2>1. SoundOrder(CancelOf(orders[id]))
    BY OrderFacts, SoundAfterCancel DEF OrdersSound, EngineInv
  <2> QED
    BY <1>2, <2>1 DEF OrdersSound
<1>3. CASE Fill
  <2> DEFINE pa == Head(LevelFifo)
             q == FillQty(orders[aggressor], orders[pa])
  <2>1. /\ aggressor \in DOMAIN orders /\ pa \in DOMAIN orders
        /\ q \in Nat /\ q # 0 /\ q <= orders[aggressor].rem /\ q <= orders[pa].rem
    BY <1>3, PassiveFacts
  <2>2. /\ DOMAIN orders' = DOMAIN orders
        /\ orders'[pa] = ApplyFill(orders[pa], q)
        /\ orders'[aggressor] = ApplyFill(orders[aggressor], q)
        /\ \A i \in DOMAIN orders : i # pa /\ i # aggressor => orders'[i] = orders[i]
    BY <1>3, FillOrders, FillBoth
  <2> HIDE DEF pa, q
  <2>3. SoundOrder(orders'[pa]) /\ SoundOrder(orders'[aggressor])
    BY <2>1, <2>2, OrderFacts, SoundAfterFill DEF OrdersSound, EngineInv
  <2> QED
    BY <2>2, <2>3 DEF OrdersSound
<1>4. CASE orders' = orders
  BY <1>4 DEF OrdersSound
<1>5. CASE Finish
  <2>1. aggressor \in DOMAIN orders
    BY <1>5, FinishOrders
  <2> QED
    BY <1>2, <1>4, <1>5, <2>1 DEF Finish
<1> QED
  BY <1>1, <1>2, <1>3, <1>4, <1>5
     DEF Next, vars, TakeLevel, LeaveLevels, AfterFill, LeaveLevel, CancelOrder,
         CancelAllOrders, CancelNext, CancelOne

-----------------------------------------------------------------------------
(* What is within reach of an order                                        *)

Within(o) == { p \in LevelPrices(o.sym, Opposite(o.side)) : Willing(o, p) }

LEMMA AvailableView ==
    ASSUME NEW o
    PROVE  AvailableWithin(o) = SumFunctionOnSet(total[o.sym][Opposite(o.side)], Within(o))
  BY DEF AvailableWithin, Within

LEMMA FinitePrices ==
    ASSUME NEW S \in SUBSET Prices
    PROVE  IsFiniteSet(S)
<1>1. CASE S = {}
  BY <1>1, FS_EmptySet
<1>2. CASE S # {}
  <2>1. PICK hi \in S : \A p \in S : p <= hi
    BY <1>2, PricesAssumption
  <2>2. \A p \in S : p \in Nat
    BY PricesAssumption
  <2>3. S \in SUBSET Nat /\ hi \in Nat
    BY <2>2
  <2> QED
    BY <2>1, <2>3, FS_BoundedSetOfNaturals
<1> QED
  BY <1>1, <1>2

LEMMA WithinFacts ==
    ASSUME TypeOK, NEW o, o.sym \in Symbols, o.side \in Sides
    PROVE  /\ Opposite(o.side) \in Sides
           /\ Within(o) \in SUBSET Prices
           /\ IsFiniteSet(Within(o))
           /\ \A p \in Prices : total[o.sym][Opposite(o.side)][p] \in Int
<1>1. Opposite(o.side) \in Sides
  BY DEF Opposite, Sides
<1>2. Within(o) \in SUBSET Prices
  BY DEF Within, LevelPrices
<1>3. \A p \in Prices : total[o.sym][Opposite(o.side)][p] \in Int
  BY <1>1, LevelSequences
<1> QED
  BY <1>1, <1>2, <1>3, FinitePrices

\* Where there is something within the limit, the best level is within it.
LEMMA BestIsWithin ==
    ASSUME NEW o, o.sym \in Symbols, o.side \in Sides, o.price \in Nat,
           NEW p \in Prices, IsBest(o.sym, Opposite(o.side), p), Within(o) # {}
    PROVE  Willing(o, p)
<1>1. PICK w \in LevelPrices(o.sym, Opposite(o.side)) : Willing(o, w)
  BY DEF Within
<1>2. w \in Nat /\ p \in Nat
  BY PricesAssumption DEF LevelPrices
<1>3. ~ Better(Opposite(o.side), w, p)
  BY DEF IsBest
<1> QED
  BY <1>1, <1>2, <1>3 DEF Willing, Better, Opposite, Sides

\* A side without a best level is empty.
LEMMA NoBestNoLevels ==
    ASSUME NEW sym \in Symbols, NEW side \in Sides, ~ \E p \in Prices : IsBest(sym, side, p)
    PROVE  LevelPrices(sym, side) = {}
<1> DEFINE L == LevelPrices(sym, side)
<1>1. L \in SUBSET Prices /\ \A p \in L : p \in Nat /\ p \in Prices
  BY PricesAssumption DEF LevelPrices
<1>2. SUFFICES ASSUME L # {} PROVE FALSE
  OBVIOUS
<1>3. PICK lo \in L : \A p \in L : lo <= p
  BY <1>1, <1>2, PricesAssumption
<1>4. PICK hi \in L : \A p \in L : p <= hi
  BY <1>1, <1>2, PricesAssumption
<1>5. CASE side = "Buy"
  <2>1. \A p \in L : ~ Better(side, p, hi)
    BY <1>1, <1>4, <1>5 DEF Better
  <2> QED
    BY <1>1, <2>1 DEF IsBest
<1>6. CASE side = "Sell"
  <2>1. \A p \in L : ~ Better(side, p, lo)
    BY <1>1, <1>3, <1>6 DEF Better
  <2> QED
    BY <1>1, <2>1 DEF IsBest
<1> QED
  BY <1>5, <1>6 DEF Sides

\* Only the book and the order's own place and limit matter.
LEMMA SameAvailable ==
    ASSUME NEW o, NEW x, x.sym = o.sym, x.side = o.side, x.price = o.price,
           UNCHANGED <<fifo, total>>
    PROVE  /\ Within(x)' = Within(o)
           /\ AvailableWithin(x)' = AvailableWithin(o)
<1>1. { p \in { q \in Prices : fifo'[x.sym][Opposite(x.side)][q] # <<>> } : Willing(x, p) }
        = { p \in { q \in Prices : fifo[o.sym][Opposite(o.side)][q] # <<>> } : Willing(o, p) }
  BY DEF Willing
<1>2. Within(x)' = Within(o)
  BY <1>1 DEF Within, LevelPrices
<1> QED
  BY <1>2, AvailableView DEF AvailableWithin, Within

-----------------------------------------------------------------------------
(* Where the matching loop stands                                          *)

\* A market or IOC order that leaves the loop wanting more left nothing to take.
LoopDone ==
    (pc = "finish" /\ orders[aggressor].rem # 0) =>
        LET o == orders[aggressor] IN
        o.type \in {"Market", "IOC"} => LevelPrices(o.sym, Opposite(o.side)) = {}

\* The limit of a Limit order was compared with the level in use.
LevelAllowed ==
    (pc \in {"orders", "callbacks"} /\ orders[aggressor].type = "Limit")
        => Willing(orders[aggressor], level)

LEMMA LoopEndsDone ==
    ASSUME EngineInv, LoopDone, [Next]_vars
    PROVE  LoopDone'
<1> SUFFICES ASSUME pc' = "finish"
             PROVE  LoopDone'
  BY DEF LoopDone
<1>1. CASE LeaveLevels
  <2> DEFINE o == orders[aggressor]
  <2>1. UNCHANGED <<orders, aggressor, fifo>>
    BY <1>1 DEF LeaveLevels, book
  <2>2. o.sym \in Symbols /\ Opposite(o.side) \in Sides
    <3>1. aggressor \in DOMAIN orders
      BY <1>1 DEF EngineInv, ControlOK, TypeOK, LeaveLevels
    <3> QED
      BY <3>1, OrderFacts DEF EngineInv, Opposite, Sides
  <2>3. ASSUME o.rem # 0, o.type \in {"Market", "IOC"}
        PROVE  LevelPrices(o.sym, Opposite(o.side)) = {}
    <3>1. ~ \E p \in Prices : IsBest(o.sym, Opposite(o.side), p)
      BY <1>1, <2>3 DEF LeaveLevels, MayTakeLevel
    <3> QED
      BY <2>2, <3>1, NoBestNoLevels
  <2> QED
    BY <2>1, <2>3 DEF LoopDone, LevelPrices
<1>2. ASSUME NEW r \in Requests, Submit(r)
      PROVE  LoopDone'
  <2>1. orders' = Append(orders, NewOrder(r)) /\ aggressor' = Len(orders) + 1
    BY <1>2 DEF Submit, EngineInv, ControlOK
  <2>2. NewOrder(r).type \in {"Limit", "GTC"}
    BY <1>2 DEF Submit
  <2>3. orders'[aggressor'].type \notin {"Market", "IOC"}
    BY <1>2, <2>1, <2>2, SubmitAppends
  <2> QED
    BY <2>3 DEF LoopDone
<1>3. CASE UNCHANGED vars
  BY <1>3 DEF LoopDone, LevelPrices, vars, book
<1>4. /\ ~ TakeLevel /\ ~ Fill /\ ~ AfterFill /\ ~ LeaveLevel /\ ~ Finish
      /\ ~ \E id \in DOMAIN orders : CancelOrder(id)
      /\ ~ \E strat \in Strategies : CancelAllOrders(strat)
      /\ ~ \E id \in DOMAIN orders : CancelNext(id)
  BY DEF TakeLevel, Fill, AfterFill, LeaveLevel, Finish, CancelOrder,
         CancelAllOrders, CancelNext, MayCancel, EngineInv, ControlOK
<1> QED
  BY <1>1, <1>2, <1>3, <1>4 DEF Next

\* Steps within the matching loop keep the place and the limit of the order.
LEMMA InnerSteps ==
    ASSUME EngineInv, [Next]_vars, ~ TakeLevel, pc' \in {"orders", "callbacks"}
    PROVE  /\ pc \in {"orders", "callbacks"}
           /\ aggressor \in DOMAIN orders
           /\ UNCHANGED <<aggressor, level>>
           /\ Placed(orders[aggressor], orders'[aggressor])
<1>1. ASSUME pc \in {"orders", "callbacks"}
      PROVE  aggressor \in DOMAIN orders /\ Placed(orders[aggressor], orders[aggressor])
  <2>1. aggressor \in DOMAIN orders
    BY <1>1 DEF EngineInv, ControlOK, TypeOK
  <2> QED
    BY <2>1, OrderFacts DEF EngineInv, Placed
<1>2. CASE Fill
  BY <1>1, <1>2, FillOrders DEF Fill
<1>3. CASE AfterFill
  BY <1>1, <1>3 DEF AfterFill
<1>4. ASSUME NEW id \in DOMAIN orders, CancelOne(id),
             UNCHANGED <<pc, aggressor, level>>
      PROVE  /\ pc \in {"orders", "callbacks"}
             /\ UNCHANGED <<aggressor, level>>
             /\ Placed(orders[aggressor], orders'[aggressor])
  BY <1>1, <1>4, CancelOrders
<1>5. CASE UNCHANGED <<orders, pc, aggressor, level>>
  BY <1>1, <1>5
<1>6. ~ (\E r \in Requests : Submit(r)) /\ ~ LeaveLevels /\ ~ LeaveLevel /\ ~ Finish
  BY DEF Submit, LeaveLevels, LeaveLevel, Finish
<1>7. CASE \E id \in DOMAIN orders : CancelOrder(id) \/ CancelNext(id)
  BY <1>1, <1>4, <1>7 DEF CancelOrder, CancelNext
<1>8. CASE UNCHANGED vars \/ \E strat \in Strategies : CancelAllOrders(strat)
  BY <1>1, <1>5, <1>8 DEF vars, CancelAllOrders
<1> QED
  BY <1>1, <1>2, <1>3, <1>6, <1>7, <1>8 DEF Next

LEMMA LevelStaysAllowed ==
    ASSUME EngineInv, LevelAllowed, [Next]_vars
    PROVE  LevelAllowed'
<1> SUFFICES ASSUME pc' \in {"orders", "callbacks"}
             PROVE  LevelAllowed'
  BY DEF LevelAllowed
<1>1. CASE TakeLevel
  BY <1>1 DEF TakeLevel, MayTakeLevel, LevelAllowed, Willing
<1>2. CASE ~ TakeLevel
  BY <1>2, InnerSteps DEF LevelAllowed, Willing, Placed
<1> QED
  BY <1>1, <1>2

-----------------------------------------------------------------------------
(* Fill or kill, with callbacks that cancel nothing                        *)

\* As long as a fill-or-kill order is matched, the levels within its limit hold
\* what it still wants, and it takes from no other level.
FokCovered ==
    (aggressor # None /\ orders[aggressor].type = "FOK") =>
        /\ orders[aggressor].rem <= AvailableWithin(orders[aggressor])
        /\ pc \in {"orders", "callbacks"} => Willing(orders[aggressor], level)
        /\ pc = "finish" => orders[aggressor].rem = 0

LEMMA FokAfterSubmit ==
    ASSUME EngineInv, NEW r \in Requests, Submit(r)
    PROVE  FokCovered'
<1> DEFINE o == NewOrder(r)
<1> SUFFICES ASSUME aggressor' # None, orders'[aggressor'].type = "FOK"
             PROVE  FokCovered'
  BY DEF FokCovered
<1>1. orders' = Append(orders, o) /\ aggressor' = Len(orders) + 1
  BY DEF Submit, EngineInv, ControlOK
<1>2. orders'[aggressor'] = o
  BY <1>1, SubmitAppends
<1>3. o.type = "FOK" /\ o.rem = o.qty
  BY <1>2 DEF NewOrder
<1>4. EntersLoop(o) /\ pc' = "levels" /\ UNCHANGED <<fifo, total>>
  BY <1>1, <1>3 DEF Submit, book, EngineInv, ControlOK
<1>5. AvailableWithin(o) >= o.qty
  BY <1>3, <1>4 DEF EntersLoop
<1> HIDE DEF o
<1>6. AvailableWithin(orders[aggressor])' = AvailableWithin(o)
  BY <1>2, <1>4 DEF AvailableWithin, LevelPrices
<1>7. o.qty \in Nat /\ AvailableWithin(o) \in Int
  <2>1. o.sym \in Symbols /\ o.side \in Sides /\ o.qty \in Nat
    BY NewOrderFacts DEF o
  <2>2. /\ IsFiniteSet(Within(o))
        /\ \A p \in Within(o) : total[o.sym][Opposite(o.side)][p] \in Int
    BY <2>1, WithinFacts DEF EngineInv
  <2> QED
    BY <2>1, <2>2, AvailableView, SumType
<1> QED
  BY <1>2, <1>3, <1>4, <1>5, <1>6, <1>7 DEF FokCovered

LEMMA AggressorFacts ==
    ASSUME EngineInv, aggressor # None
    PROVE  /\ aggressor \in DOMAIN orders
           /\ orders[aggressor].sym \in Symbols
           /\ orders[aggressor].side \in Sides
           /\ orders[aggressor].price \in Nat
           /\ orders[aggressor].rem \in Nat
           /\ AvailableWithin(orders[aggressor]) \in Int
<1> DEFINE o == orders[aggressor]
<1>1. aggressor \in DOMAIN orders
  BY DEF EngineInv, TypeOK
<1>2. o.sym \in Symbols /\ o.side \in Sides /\ o.price \in Nat /\ o.rem \in Nat
  BY <1>1, OrderFacts DEF EngineInv
<1> HIDE DEF o
<1>3. /\ IsFiniteSet(Within(o))
      /\ \A p \in Within(o) : total[o.sym][Opposite(o.side)][p] \in Int
  BY <1>2, WithinFacts DEF EngineInv
<1>4. AvailableWithin(o) \in Int
  BY <1>3, AvailableView, SumType
<1> QED
  BY <1>1, <1>2, <1>4 DEF o

\* Nothing within reach, nothing available.
LEMMA EmptyReach ==
    ASSUME NEW o, Within(o) = {}
    PROVE  AvailableWithin(o) = 0
  BY AvailableView, SumEmpty

LEMMA FokAfterLoop ==
    ASSUME EngineInv, FokCovered, TakeLevel \/ LeaveLevels
    PROVE  FokCovered'
<1> DEFINE o == orders[aggressor]
<1>1. UNCHANGED <<orders, fifo, total, aggressor>> /\ aggressor # None
  BY DEF TakeLevel, LeaveLevels, book, EngineInv, ControlOK
<1> SUFFICES ASSUME o.type = "FOK"
             PROVE  FokCovered'
  BY <1>1 DEF FokCovered
<1>2. /\ o.sym \in Symbols /\ o.side \in Sides /\ o.price \in Nat /\ o.rem \in Nat
      /\ o.rem <= AvailableWithin(o) /\ Opposite(o.side) \in Sides
  BY <1>1, AggressorFacts DEF FokCovered, Opposite, Sides
<1>3. AvailableWithin(orders[aggressor])' = AvailableWithin(o)
  BY <1>1 DEF AvailableWithin, LevelPrices
<1>4. CASE TakeLevel
  <2>1. o.rem # 0 /\ level' \in Prices /\ IsBest(o.sym, Opposite(o.side), level')
    BY <1>4 DEF TakeLevel
  <2>2. Within(o) # {}
    BY <1>2, <2>1, EmptyReach
  <2> HIDE DEF o
  <2>3. Willing(o, level')
    BY <1>2, <2>1, <2>2, BestIsWithin
  <2> QED
    BY <1>1, <1>2, <1>3, <1>4, <2>3 DEF FokCovered, TakeLevel, o
<1>5. CASE LeaveLevels
  <2>1. o.rem = 0
    <3>1. SUFFICES ASSUME o.rem # 0 PROVE FALSE
      OBVIOUS
    <3>2. ~ \E p \in Prices : IsBest(o.sym, Opposite(o.side), p)
      BY <1>5, <3>1 DEF LeaveLevels, MayTakeLevel
    <3>3. Within(o) = {}
      BY <1>2, <3>2, NoBestNoLevels DEF Within
    <3> QED
      BY <1>2, <3>1, <3>3, EmptyReach
  <2> QED
    BY <1>1, <1>2, <1>3, <1>5, <2>1 DEF FokCovered, LeaveLevels
<1> QED
  BY <1>4, <1>5

\* A fill takes as much from the level in use as from what the order still wants.
LEMMA FokAfterFill ==
    ASSUME EngineInv, FokCovered, Fill
    PROVE  FokCovered'
<1> DEFINE o == orders[aggressor]
           q == FillQty(o, orders[Head(LevelFifo)])
           opp == Opposite(o.side)
           t == total[o.sym][opp][level] - q
<1>1. /\ aggressor \in DOMAIN orders
      /\ o.sym \in Symbols /\ opp \in Sides /\ level \in Prices
      /\ q \in Nat /\ q <= o.rem
  BY PassiveFacts
<1>2. /\ UNCHANGED <<aggressor, level, fifo>> /\ pc = "orders" /\ pc' = "callbacks"
      /\ total' = [total EXCEPT ![o.sym][opp][level] = t]
      /\ LevelFifo # <<>>
  BY DEF Fill
<1>3. /\ orders'[aggressor] = ApplyFill(o, q)
      /\ Placed(o, orders'[aggressor])
  BY <1>1, FillBoth, FillOrders
<1> SUFFICES ASSUME aggressor # None, orders'[aggressor].type = "FOK"
             PROVE  FokCovered'
  BY <1>2 DEF FokCovered
<1>4. /\ o \in Order /\ o.type = "FOK" /\ o.rem \in Nat /\ o.side \in Sides
      /\ o.rem <= AvailableWithin(o) /\ AvailableWithin(o) \in Int
      /\ Willing(o, level)
  BY <1>1, <1>2, <1>3, AggressorFacts, OrderFacts DEF FokCovered, EngineInv, Placed
<1>5. fifo[o.sym][opp][level] # <<>>
  BY <1>2 DEF LevelFifo
<1>6. total[o.sym][opp][level] \in Int /\ TypeOK
  BY <1>1, LevelSequences DEF EngineInv
<1> HIDE DEF q
<1>7. orders'[aggressor].rem = o.rem - q
  BY <1>1, <1>3, <1>4, FillOfOrder
<1>8. t \in Int
  BY <1>1, <1>6
<1>9. level \in Within(o)
  BY <1>1, <1>4, <1>5 DEF Within, LevelPrices
<1>10. \A p \in Prices :
         total'[o.sym][opp][p] = IF p = level THEN t ELSE total[o.sym][opp][p]
  <2>1. total \in [Symbols -> [Sides -> [Prices -> Int]]]
    BY <1>6 DEF TypeOK
  <2> HIDE DEF o, opp, t
  <2> QED
    BY <1>1, <1>2, <1>8, <2>1, UpdateLevel
<1>11. AvailableWithin(orders[aggressor])' =
         SumFunctionOnSet(total'[o.sym][opp], Within(o))
  BY <1>2, <1>3 DEF AvailableWithin, Within, LevelPrices, Willing, Placed
<1>12. SumFunctionOnSet(total'[o.sym][opp], Within(o)) = AvailableWithin(o) - q
  <2> DEFINE f == total[o.sym][opp]
             g == total'[o.sym][opp]
  <2>1. /\ IsFiniteSet(Within(o)) /\ \A p \in Within(o) : p \in Prices
        /\ \A p \in Within(o) : f[p] \in Int
    BY <1>1, <1>4, <1>6, WithinFacts
  <2>2. /\ g[level] = t /\ g[level] \in Int
        /\ \A p \in Within(o) : p # level => g[p] = f[p]
    BY <1>1, <1>8, <1>10, <2>1
  <2>3. AvailableWithin(o) = SumFunctionOnSet(f, Within(o))
    BY AvailableView
  <2>4. f[level] \in Int /\ t = f[level] - q
    BY <1>6
  <2> HIDE DEF f, g, o, t
  <2>5. SumFunctionOnSet(g, Within(o)) =
          SumFunctionOnSet(f, Within(o)) - f[level] + g[level]
    BY <1>9, <2>1, <2>2, SumUpdate
  <2>6. SumFunctionOnSet(g, Within(o)) = AvailableWithin(o) - q
    BY <1>1, <1>4, <2>2, <2>3, <2>4, <2>5
  <2> QED
    BY <2>6 DEF g
<1>13. Willing(orders'[aggressor], level)
  BY <1>3, <1>4 DEF Willing, Placed
<1>14. orders'[aggressor].rem <= AvailableWithin(orders[aggressor])'
  <2> HIDE DEF o, opp
  <2> QED
    BY <1>1, <1>4, <1>7, <1>11, <1>12
<1> QED
  BY <1>2, <1>13, <1>14 DEF FokCovered

\* The order that leaves the book after its fill had nothing left, and so had the
\* level if it goes as well.
LEMMA FokAfterRemoval ==
    ASSUME EngineInv, TotalsMatchOrders, FokCovered, AfterFill
    PROVE  FokCovered'
<1> DEFINE o == orders[aggressor]
           pa == orders[passive]
           opp == Opposite(o.side)
<1>1. /\ UNCHANGED <<orders, aggressor, level>> /\ pc = "callbacks" /\ pc' = "orders"
      /\ passive \in DOMAIN orders /\ aggressor # None
  BY DEF AfterFill, EngineInv, ControlOK, TypeOK
<1> SUFFICES ASSUME o.type = "FOK"
             PROVE  FokCovered'
  BY <1>1 DEF FokCovered
<1>2. /\ o.sym \in Symbols /\ opp \in Sides /\ o.side \in Sides
      /\ o.rem <= AvailableWithin(o) /\ Willing(o, level)
  BY <1>1, AggressorFacts DEF FokCovered, Opposite, Sides
<1>3. SUFFICES AvailableWithin(orders[aggressor])' = AvailableWithin(o)
  BY <1>1, <1>2 DEF FokCovered, Willing
<1>4. CASE UNCHANGED book
  BY <1>1, <1>4 DEF AvailableWithin, LevelPrices, book
<1>5. CASE pa.rem = 0 /\ RemoveFromBook(passive) /\ passive \in index[pa.sym]
  <2> DEFINE old == fifo[pa.sym][pa.side][pa.price]
             left == Unlink(old, passive)
             t == IF left = <<>> THEN 0 ELSE total[pa.sym][pa.side][pa.price] - pa.rem
  <2>1. TypeOK /\ IndexOK /\ LevelsOK
    BY BookView DEF EngineInv
  <2>2. /\ pa.sym \in Symbols /\ pa.side \in Sides /\ pa.price \in Prices
        /\ old \in Seq(DOMAIN orders) /\ Listed(old, passive)
        /\ total[pa.sym][pa.side][pa.price] \in Int
        /\ \A x : Listed(left, x) <=> x # passive /\ Listed(old, x)
    BY <1>1, <1>5, <2>1, RemovalDetail
  <2>3. /\ \A sym \in Symbols, side \in Sides, p \in Prices :
              fifo'[sym][side][p] =
                 IF sym = pa.sym /\ side = pa.side /\ p = pa.price THEN left
                 ELSE fifo[sym][side][p]
        /\ \A sym \in Symbols, side \in Sides, p \in Prices :
              total'[sym][side][p] =
                 IF sym = pa.sym /\ side = pa.side /\ p = pa.price THEN t
                 ELSE total[sym][side][p]
    BY <1>1, <1>5, <2>1, RemovalDetail
  <2>7. total[pa.sym][pa.side][pa.price] = SumFunctionOnSet(Wanted, Members(old))
    BY <2>2, TotalsView
  <2> HIDE DEF left, old
  <2>8. left = <<>> => total[pa.sym][pa.side][pa.price] = 0
    <3>1. SUFFICES ASSUME left = <<>>
                   PROVE  SumFunctionOnSet(Wanted, Members(old)) = 0
      BY <2>7
    <3>2. Members(left) = {}
      BY <3>1 DEF Members
    <3>3. \A x \in Members(old) : x = passive
      BY <2>2, <3>2, MembersListed
    <3>4. \A x \in Members(old) : Wanted[x] = 0
      BY <1>1, <1>5, <3>3 DEF Wanted
    <3>5. IsFiniteSet(Members(old))
      BY <2>1, <2>2, LevelMembers
    <3> QED
      BY <3>4, <3>5, SumZero
  <2>9. t = total[pa.sym][pa.side][pa.price]
    BY <1>5, <2>2, <2>8
  <2> HIDE DEF pa, t
  <2>10. \A sym \in Symbols, side \in Sides, p \in Prices :
            total'[sym][side][p] = total[sym][side][p]
    BY <2>3, <2>9
  <2> DEFINE f == total[o.sym][opp]
             g == total'[o.sym][opp]
             W == { p \in { x \in Prices : fifo'[o.sym][opp][x] # <<>> } : Willing(o, p) }
  <2>11. AvailableWithin(orders[aggressor])' = SumFunctionOnSet(g, W)
    BY <1>1 DEF AvailableWithin, LevelPrices, Willing
  <2>12. /\ IsFiniteSet(Within(o)) /\ \A p \in Within(o) : p \in Prices
         /\ \A p \in Within(o) : f[p] \in Int
    BY <1>2, <2>1, WithinFacts
  <2>13. \A p \in Prices : g[p] = f[p]
    BY <1>2, <2>10
  <2>14. AvailableWithin(o) = SumFunctionOnSet(f, Within(o))
    BY AvailableView
  <2>15. \A p \in W : p \in Within(o)
    <3>1. old # <<>>
      BY <2>2, NonEmptyListed
    <3> QED
      BY <1>2, <2>3, <3>1 DEF Within, LevelPrices, old
  <2>16. \A p \in Within(o) : p \notin W => f[p] = 0
    <3>1. ASSUME NEW p \in Within(o), p \notin W
          PROVE  f[p] = 0
      <4>1. p \in Prices /\ fifo[o.sym][opp][p] # <<>> /\ Willing(o, p)
        BY DEF Within, LevelPrices
      <4>2. fifo'[o.sym][opp][p] = <<>>
        BY <3>1, <4>1
      <4>3. o.sym = pa.sym /\ opp = pa.side /\ p = pa.price /\ left = <<>>
        BY <1>2, <2>3, <4>1, <4>2
      <4> QED
        BY <2>8, <4>3
    <3> QED
      BY <3>1
  <2> HIDE DEF f, g, W, o
  <2>17. SumFunctionOnSet(g, W) = SumFunctionOnSet(f, W)
    <3>1. IsFiniteSet(W) /\ (\A p \in W : f[p] \in Int) /\ (\A p \in W : g[p] = f[p])
      BY <2>12, <2>13, <2>15, FS_Subset
    <3> QED
      BY <3>1, SumEqual
  <2>18. SumFunctionOnSet(f, W) = SumFunctionOnSet(f, Within(o))
    <3> DEFINE R == Within(o) \ W
    <3>1. IsFiniteSet(W) /\ IsFiniteSet(R) /\ W \cap R = {} /\ W \cup R = Within(o)
      BY <2>12, <2>15, FS_Subset
    <3>2. SumFunctionOnSet(f, R) = 0
      <4>1. \A p \in R : f[p] = 0
        BY <2>16
      <4> HIDE DEF R
      <4> QED
        BY <3>1, <4>1, SumZero
    <3>3. SumFunctionOnSet(f, W) \in Int
      BY <2>12, <2>15, <3>1, SumType
    <3> HIDE DEF R
    <3>4. \A p \in W \cup R : f[p] \in Int
      BY <2>12, <3>1
    <3>5. SumFunctionOnSet(f, W \cup R) = SumFunctionOnSet(f, W) + SumFunctionOnSet(f, R)
      BY <3>1, <3>4, SumDisjoint
    <3> QED
      BY <3>1, <3>2, <3>3, <3>5
  <2> QED
    BY <2>11, <2>14, <2>17, <2>18
<1>6. RemoveFromBook(passive) /\ passive \notin index[pa.sym] => UNCHANGED book
  BY DEF RemoveFromBook
<1> QED
  BY <1>4, <1>5, <1>6 DEF AfterFill

LEMMA FokStaysCovered ==
    ASSUME Reentrant = FALSE, EngineInv, TotalsMatchOrders, CallsAlone, FokCovered, [Next]_vars
    PROVE  FokCovered'
<1>1. ASSUME NEW r \in Requests, Submit(r)
      PROVE  FokCovered'
  BY <1>1, FokAfterSubmit
<1>2. CASE TakeLevel \/ LeaveLevels
  BY <1>2, FokAfterLoop
<1>3. CASE Fill
  BY <1>3, FokAfterFill
<1>4. CASE AfterFill
  BY <1>4, FokAfterRemoval
<1>5. CASE LeaveLevel
  BY <1>5 DEF LeaveLevel, FokCovered, book, AvailableWithin, LevelPrices, Willing
<1>6. CASE UNCHANGED vars
  BY <1>6 DEF vars, FokCovered, book, AvailableWithin, LevelPrices, Willing
<1>7. ASSUME aggressor' = None
      PROVE  FokCovered'
  BY <1>7 DEF FokCovered
<1>8. \/ Finish
      \/ \E id \in DOMAIN orders : CancelOrder(id)
      \/ \E strat \in Strategies : CancelAllOrders(strat)
      \/ \E id \in DOMAIN orders : CancelNext(id)
      => aggressor' = None
  BY DEF Finish, CancelOrder, CancelAllOrders, CancelNext, MayCancel, CallsAlone,
         EngineInv, ControlOK
<1> QED
  BY <1>1, <1>2, <1>3, <1>4, <1>5, <1>6, <1>7, <1>8 DEF Next

\* What the end of a call left behind: an order that may not wait is over, and a
\* fill-or-kill order has all or nothing.
Over(o) ==
    /\ (o.type \in {"Market", "IOC", "FOK"} /\ o.qty > 0) => Terminal(o)
    /\ o.type = "FOK" => \/ o.filled = 0 /\ (o.qty > 0 => o.status = "Rejected")
                         \/ o.filled = o.qty /\ o.status = "Filled"

CallsOver == \A id \in DOMAIN orders : id # aggressor => Over(orders[id])

LEMMA OverAfterCancel ==
    ASSUME NEW o \in Order, Over(o), Active(o)
    PROVE  Over(CancelOf(o))
<1> DEFINE x == CancelOf(o)
<1>1. /\ x.type = o.type /\ x.qty = o.qty /\ x.filled = o.filled /\ x.status = "Cancelled"
  BY DEF CancelOf, Order
<1>2. o.status # "Rejected" /\ o.status # "Filled"
  BY DEF Active
<1>3. ~ Terminal(o)
  BY QuantityFacts
<1> HIDE DEF x
<1>4. Over(x)
  BY <1>1, <1>2, <1>3 DEF Over, Terminal
<1> QED
  BY <1>4 DEF x

LEMMA CallsEndOver ==
    ASSUME Reentrant = FALSE, EngineInv, OrdersSound, CallsAlone, FokCovered, CallsOver,
           [Next]_vars
    PROVE  CallsOver'
<1>1. ASSUME NEW r \in Requests, Submit(r)
      PROVE  CallsOver'
  <2>1. aggressor = None /\ \A id \in DOMAIN orders : id # None
    BY <1>1, IdFacts DEF Submit, EngineInv, ControlOK
  <2>2. PICK x \in {NewOrder(r), [NewOrder(r) EXCEPT !.status = "Rejected"]} :
           orders' = Append(orders, x)
    BY <1>1, SubmittedOrder
  <2>3. /\ \A id \in DOMAIN orders : orders'[id] = orders[id]
        /\ \A id \in DOMAIN orders' : id \notin DOMAIN orders => id = Len(orders) + 1
        /\ orders'[Len(orders) + 1] = x
    BY <1>1, <2>2, SubmitAppends
  <2>4. aggressor' = Len(orders) + 1 \/ Over(x)
    <3>1. CASE EntersLoop(NewOrder(r)) /\ aggressor' = Len(orders) + 1
      BY <3>1
    <3>2. CASE aggressor' = Len(orders) + 1
      BY <3>2
    <3>3. CASE NewOrder(r).type = "FOK" /\ orders' = Append(orders, [NewOrder(r) EXCEPT !.status = "Rejected"])
      <4>1. orders'[Len(orders) + 1] = [NewOrder(r) EXCEPT !.status = "Rejected"]
        BY <1>1, <3>3, SubmitAppends
      <4>2. x.filled = 0 /\ x.status = "Rejected"
        BY <2>3, <4>1 DEF NewOrder
      <4> QED
        BY <4>2 DEF Over, Terminal
    <3>4. CASE NewOrder(r).type \in {"StopMarket", "StopLimit"}
      <4>1. x.type \notin {"Market", "IOC", "FOK"}
        BY <3>4 DEF NewOrder
      <4> QED
        BY <4>1 DEF Over
    <3> QED
      BY <1>1, <3>2, <3>3, <3>4 DEF Submit
  <2> QED
    BY <2>1, <2>3, <2>4 DEF CallsOver
<1>2. CASE Fill
  <2> DEFINE pa == Head(LevelFifo)
  <2>1. /\ aggressor' = aggressor /\ DOMAIN orders' = DOMAIN orders
        /\ \A i \in DOMAIN orders : i # pa /\ i # aggressor => orders'[i] = orders[i]
    BY <1>2, FillOrders DEF Fill
  <2>2. pa \in DOMAIN orders /\ orders'[pa].type \in {"Limit", "GTC"}
    BY <1>2, PassiveFacts, FillOrders DEF Placed
  <2>3. Over(orders'[pa])
    BY <2>2 DEF Over
  <2> HIDE DEF pa
  <2> QED
    BY <2>1, <2>3 DEF CallsOver
<1>3. CASE Finish
  <2> DEFINE o == orders[aggressor]
  <2>1. /\ aggressor \in DOMAIN orders
        /\ \A i \in DOMAIN orders : i # aggressor => orders'[i] = orders[i]
    BY <1>3, FinishOrders
  <2>2. o \in Order /\ SoundOrder(o) /\ aggressor # None
    BY <2>1, OrderFacts, IdFacts DEF EngineInv, OrdersSound
  <2>3. DOMAIN orders' = DOMAIN orders
    BY <1>3 DEF Finish
  <2>4. Over(orders'[aggressor])
    <3>1. CASE o.type \in {"Market", "IOC"}
      <4>1. orders'[aggressor] = CancelOf(o)
        BY <1>3, <2>1, <3>1 DEF Finish
      <4>2. Placed(o, CancelOf(o)) /\ ~ Active(CancelOf(o))
        BY <2>2, CancelOfOrder
      <4>3. Terminal(CancelOf(o)) /\ CancelOf(o).type # "FOK"
        BY <3>1, <4>2, QuantityFacts DEF Placed
      <4> QED
        BY <4>1, <4>3 DEF Over
    <3>2. CASE o.type = "FOK"
      <4>1. orders'[aggressor] = o
        BY <1>3, <3>2 DEF Finish
      <4>2. o.rem = 0
        BY <1>3, <2>2, <3>2 DEF FokCovered, Finish
      <4>3. o.filled = o.qty /\ o.qty \in Nat /\ (o.qty > 0 => o.status = "Filled")
        BY <2>2, <4>2, QuantityFacts DEF SoundOrder
      <4>4. o.qty > 0 \/ o.filled = 0
        BY <4>3
      <4> QED
        BY <4>1, <4>3, <4>4 DEF Over, Terminal
    <3>3. CASE o.type \notin {"Market", "IOC", "FOK"}
      <4>1. orders'[aggressor] = o
        BY <1>3, <3>3 DEF Finish
      <4> QED
        BY <3>3, <4>1 DEF Over
    <3> QED
      BY <3>1, <3>2, <3>3
  <2> QED
    BY <2>1, <2>3, <2>4 DEF CallsOver
<1>4. ASSUME NEW id \in DOMAIN orders, CancelOne(id), aggressor = None, aggressor' = None
      PROVE  CallsOver'
  <2>1. orders[id] \in Order /\ Active(orders[id]) /\ Over(orders[id])
    BY <1>4, OrderFacts, IdFacts DEF CancelOne, EngineInv, CallsOver
  <2>2. Over(CancelOf(orders[id]))
    BY <2>1, OverAfterCancel
  <2>3. orders' = [orders EXCEPT ![id] = CancelOf(orders[id])]
    BY <1>4 DEF CancelOne
  <2>4. \A i \in DOMAIN orders : i # None
    BY IdFacts DEF EngineInv
  <2> QED
    BY <1>4, <2>2, <2>3, <2>4 DEF CallsOver
<1>5. CASE \E id \in DOMAIN orders : CancelOrder(id) \/ CancelNext(id)
  BY <1>4, <1>5 DEF CancelOrder, CancelNext, MayCancel, CallsAlone, EngineInv, ControlOK
<1>6. CASE UNCHANGED <<orders, aggressor>>
  BY <1>6 DEF CallsOver
<1> QED
  BY <1>1, <1>2, <1>3, <1>5, <1>6
     DEF Next, vars, TakeLevel, LeaveLevels, AfterFill, LeaveLevel, CancelAllOrders

-----------------------------------------------------------------------------
(* Who is short                                                            *)

\* Between calls, the totals a fill-or-kill order is checked against add up to
\* what the open orders within its limit want.
LEMMA AvailableIsWanted ==
    ASSUME EngineInv, TotalsMatchOrders, pc = "idle",
           NEW o, o.sym \in Symbols, o.side \in Sides
    PROVE  AvailableWithin(o) =
             SumFunctionOnSet(Wanted,
                { id \in DOMAIN orders :
                    /\ Rests(orders[id])
                    /\ orders[id].sym = o.sym
                    /\ orders[id].side = Opposite(o.side)
                    /\ Willing(o, orders[id].price) })
<1> DEFINE opp == Opposite(o.side)
           F == [p \in Prices |-> Members(fifo[o.sym][opp][p])]
           D == { id \in DOMAIN orders :
                    /\ Rests(orders[id])
                    /\ orders[id].sym = o.sym
                    /\ orders[id].side = opp
                    /\ Willing(o, orders[id].price) }
<1>1. TypeOK /\ IndexOK /\ LevelsOK /\ aggressor = None /\ passive = None
  BY BookView DEF EngineInv, ControlOK
<1>2. opp \in Sides /\ Within(o) \in SUBSET Prices /\ IsFiniteSet(Within(o))
  BY <1>1, WithinFacts
<1>3. \A p \in Prices : \A x : x \in F[p] <=>
         /\ x \in DOMAIN orders /\ Rests(orders[x])
         /\ orders[x].sym = o.sym /\ orders[x].side = opp /\ orders[x].price = p
  <2>1. ASSUME NEW p \in Prices, NEW x
        PROVE  x \in F[p] <=> x \in index[o.sym] /\ orders[x].side = opp /\ orders[x].price = p
    BY <1>1, <1>2, MembersListed DEF LevelsOK, InLevel
  <2>2. ASSUME NEW x \in DOMAIN orders
        PROVE  Bookable(x) <=> Rests(orders[x])
    BY <1>1, IdFacts DEF Bookable, Rests
  <2>3. \A x : x \in index[o.sym] <=>
           x \in DOMAIN orders /\ orders[x].sym = o.sym /\ Rests(orders[x])
    BY <1>1, <2>2 DEF IndexOK
  <2> HIDE DEF F
  <2> QED
    BY <2>1, <2>3
<1>4. \A p \in Within(o) :
         /\ IsFiniteSet(F[p])
         /\ \A x \in F[p] : Wanted[x] \in Int
         /\ total[o.sym][opp][p] = SumFunctionOnSet(Wanted, F[p])
  <2>1. ASSUME NEW p \in Within(o)
        PROVE  /\ IsFiniteSet(F[p])
               /\ \A x \in F[p] : Wanted[x] \in Int
               /\ total[o.sym][opp][p] = SumFunctionOnSet(Wanted, F[p])
    <3>1. p \in Prices /\ F[p] = Members(fifo[o.sym][opp][p])
      BY <1>2
    <3>2. fifo[o.sym][opp][p] \in Seq(DOMAIN orders)
      BY <1>1, <1>2, <3>1, LevelSequences
    <3> HIDE DEF F
    <3>3. IsFiniteSet(F[p]) /\ \A x \in F[p] : Wanted[x] \in Int
      BY <1>1, <3>1, <3>2, LevelMembers
    <3>4. total[o.sym][opp][p] = SumFunctionOnSet(Wanted, F[p])
      BY <1>2, <3>1, TotalsView
    <3> QED
      BY <3>3, <3>4
  <2> QED
    BY <2>1
<1>5. \A x : x \in D <=> \E p \in Within(o) : x \in F[p]
  <2>1. ASSUME NEW x \in D
        PROVE  orders[x].price \in Within(o)
    <3>1. x \in DOMAIN orders /\ orders[x].price \in Prices
      BY <1>1, OrderFacts DEF Rests
    <3>2. x \in Members(fifo[o.sym][opp][orders[x].price])
      BY <1>3, <3>1
    <3>3. fifo[o.sym][opp][orders[x].price] # <<>>
      BY <3>2 DEF Members
    <3> QED
      BY <3>1, <3>3 DEF Within, LevelPrices
  <2>2. \A p \in Within(o) : p \in Prices /\ Willing(o, p)
    BY DEF Within, LevelPrices
  <2> HIDE DEF F
  <2> QED
    BY <1>3, <2>1, <2>2
<1>6. \A p, q \in Within(o) : p # q => F[p] \cap F[q] = {}
  <2> HIDE DEF F
  <2>1. \A p \in Within(o) : p \in Prices
    BY <1>2
  <2> QED
    BY <1>3, <2>1
<1>7. SumFunctionOnSet(total[o.sym][opp], Within(o)) = SumFunctionOnSet(Wanted, D)
  <2> DEFINE g == total[o.sym][opp]
             W == Within(o)
  <2>1. /\ IsFiniteSet(W)
        /\ \A p \in W : IsFiniteSet(F[p])
        /\ \A p \in W : \A x \in F[p] : Wanted[x] \in Int
        /\ \A p \in W : g[p] = SumFunctionOnSet(Wanted, F[p])
    BY <1>2, <1>4
  <2>2. /\ \A p, q \in W : p # q => F[p] \cap F[q] = {}
        /\ \A x : x \in D <=> \E p \in W : x \in F[p]
    BY <1>5, <1>6
  <2> HIDE DEF F, g, W, D
  <2>3. SumFunctionOnSet(g, W) = SumFunctionOnSet(Wanted, D)
    BY <2>1, <2>2, SumOfParts
  <2> QED
    BY <2>3 DEF g, W
<1>8. AvailableWithin(o) = SumFunctionOnSet(Wanted, D)
  <2> HIDE DEF F, D
  <2> QED
    BY <1>7, AvailableView
<1> QED
  BY <1>8

LEMMA RejectedWhenShort ==
    ASSUME EngineInv, TotalsMatchOrders, [Next]_vars,
           Len(orders') > Len(orders), orders'[Len(orders')].status = "Rejected"
    PROVE  LET o == orders'[Len(orders')] IN
           o.qty > SumFunctionOnSet(Wanted,
                     { id \in DOMAIN orders :
                         /\ Rests(orders[id])
                         /\ orders[id].sym = o.sym
                         /\ orders[id].side = Opposite(o.side)
                         /\ Willing(o, orders[id].price) })
<1>1. PICK r \in Requests : Submit(r)
  <2>1. orders \in Seq(Order) /\ Len(orders) \in Nat
    BY LenProperties DEF EngineInv, TypeOK
  <2>2. ASSUME NEW id, NEW x, orders' = [orders EXCEPT ![id] = x]
        PROVE  Len(orders') = Len(orders)
    BY <2>1, <2>2
  <2>3. Fill => Len(orders') = Len(orders)
    BY FillOrders
  <2>4. \/ Finish
        \/ \E id \in DOMAIN orders : CancelOrder(id)
        \/ \E id \in DOMAIN orders : CancelNext(id)
        => Len(orders') = Len(orders)
    BY <2>2 DEF Finish, CancelOrder, CancelNext, CancelOne
  <2>5. \/ TakeLevel \/ LeaveLevels \/ AfterFill \/ LeaveLevel
        \/ \E strat \in Strategies : CancelAllOrders(strat)
        \/ UNCHANGED vars
        => Len(orders') = Len(orders)
    BY DEF TakeLevel, LeaveLevels, AfterFill, LeaveLevel, CancelAllOrders, vars
  <2>6. ~ (Len(orders) > Len(orders))
    BY <2>1
  <2> QED
    BY <2>3, <2>4, <2>5, <2>6 DEF Next
<1> DEFINE o == NewOrder(r)
           x == [o EXCEPT !.status = "Rejected"]
<1>2. PICK y \in {o, x} : orders' = Append(orders, y)
  BY <1>1, SubmittedOrder
<1>3. orders'[Len(orders')] = y /\ Len(orders') = Len(orders) + 1
  <2>1. orders \in Seq(Order)
    BY DEF EngineInv, TypeOK
  <2> QED
    BY <1>2, <2>1, AppendProperties, LenProperties
<1>4. y = x /\ o.status # "Rejected"
  BY <1>3 DEF NewOrder
<1>5. pc = "idle" /\ o.type = "FOK" /\ ~ EntersLoop(o)
  <2>1. \A z : orders' = Append(orders, z) => z = x
    <3>1. orders \in Seq(Order)
      BY DEF EngineInv, TypeOK
    <3>2. ASSUME NEW z, orders' = Append(orders, z)
          PROVE  z = x
      <4>1. orders'[Len(orders) + 1] = z
        BY <1>1, <3>2, SubmitAppends
      <4> QED
        BY <1>3, <1>4, <4>1
    <3> QED
      BY <3>2
  <2>2. o # x
    BY <1>4 DEF NewOrder
  <2>3. orders' # Append(orders, o)
    BY <2>1, <2>2
  <2> HIDE DEF x
  <2> QED
    BY <1>1, <2>3 DEF Submit
<1>6. o.qty > AvailableWithin(o)
  <2>1. ~ (AvailableWithin(o) >= o.qty)
    BY <1>5 DEF EntersLoop
  <2>2. o.sym \in Symbols /\ o.side \in Sides /\ o.qty \in Nat
    BY NewOrderFacts
  <2> HIDE DEF o
  <2>3. /\ IsFiniteSet(Within(o))
        /\ \A p \in Within(o) : total[o.sym][Opposite(o.side)][p] \in Int
    BY <2>2, WithinFacts DEF EngineInv
  <2>4. AvailableWithin(o) \in Int
    BY <2>3, AvailableView, SumType
  <2> QED
    BY <2>1, <2>2, <2>4
<1>7. /\ y.sym = o.sym /\ y.side = o.side /\ y.price = o.price /\ y.qty = o.qty
      /\ o.sym \in Symbols /\ o.side \in Sides
  BY NewOrderFacts
<1> HIDE DEF o, x
<1> DEFINE D(z) == { id \in DOMAIN orders :
                         /\ Rests(orders[id])
                         /\ orders[id].sym = z.sym
                         /\ orders[id].side = Opposite(z.side)
                         /\ Willing(z, orders[id].price) }
<1>8. D(y) = D(o)
  BY <1>7 DEF Willing
<1>9. AvailableWithin(o) = SumFunctionOnSet(Wanted, D(o))
  BY <1>5, <1>7, AvailableIsWanted
<1>10. y.qty > SumFunctionOnSet(Wanted, D(y))
  <2> HIDE DEF D
  <2> QED
    BY <1>6, <1>7, <1>8, <1>9
<1> QED
  BY <1>3, <1>10

\* The engine cancels a market or IOC order only when the other side is empty.
LEMMA CancelledWhenEmpty ==
    ASSUME EngineInv, OrdersSound, LoopDone, [Next]_vars, NEW id \in DOMAIN orders,
           pc = "finish", Active(orders[id]), ~ Active(orders'[id]), orders[id].qty > 0,
           NEW other \in DOMAIN orders
    PROVE  ~ (Rests(orders[other]) /\ orders[other].sym = orders[id].sym
              /\ orders[other].side = Opposite(orders[id].side))
<1>1. Finish
  <2>1. orders' # orders
    OBVIOUS
  <2> QED
    BY <2>1 DEF Next, vars, Submit, TakeLevel, LeaveLevels, Fill, AfterFill, LeaveLevel,
         CancelOrder, CancelAllOrders, CancelNext, MayCancel, EngineInv, ControlOK
<1>2. id = aggressor
  BY <1>1, FinishOrders
<1>3. orders[id].type \in {"Market", "IOC"}
  BY <1>1, <1>2 DEF Finish
<1>4. orders[id].rem # 0 /\ orders[id].rem \in Nat
  <2>1. orders[id] \in Order
    BY OrderFacts DEF EngineInv
  <2>2. orders[id].status # "Filled"
    BY DEF Active
  <2> QED
    BY <2>1, <2>2, QuantityFacts DEF OrdersSound, SoundOrder
<1>5. LevelPrices(orders[id].sym, Opposite(orders[id].side)) = {}
  BY <1>2, <1>3, <1>4 DEF LoopDone
<1>6. ASSUME Rests(orders[other]), orders[other].sym = orders[id].sym,
             orders[other].side = Opposite(orders[id].side)
      PROVE  FALSE
  <2> DEFINE x == orders[other]
  <2>1. TypeOK /\ IndexOK /\ LevelsOK
    BY BookView DEF EngineInv
  <2>2. x.sym \in Symbols /\ x.side \in Sides /\ x.price \in Prices
    BY <1>6, <2>1, OrderFacts DEF Rests
  <2>3. other # aggressor
    BY <1>2, <1>3, <1>6 DEF Rests
  <2>4. Bookable(other)
    BY <1>6, <2>3 DEF Bookable, Rests
  <2>5. InLevel(x.sym, x.side, x.price, other)
    BY <2>1, <2>2, <2>4 DEF IndexOK, LevelsOK
  <2>6. fifo[x.sym][x.side][x.price] # <<>>
    BY <2>1, <2>2, <2>5, LevelSequences, NonEmptyListed DEF InLevel
  <2> QED
    BY <1>5, <1>6, <2>2, <2>6 DEF LevelPrices
<1> QED
  BY <1>6

\* A fill's price is the price of the level in use.
LEMMA FillAtLevel ==
    ASSUME EngineInv, OrdersSound, LevelAllowed, FokCovered, [Next]_vars,
           NEW id \in DOMAIN orders \ {aggressor}, FilledBy(id),
           orders[aggressor].type \in {"Limit", "FOK"}
    PROVE  Willing(orders[aggressor], orders[id].price)
<1>1. Fill
  <2>1. orders[id].filled \in Nat
    BY OrderFacts DEF EngineInv
  <2> QED
    BY <2>1, OnlyFillFills DEF FilledBy
<1>2. PICK pa : pa = Head(LevelFifo)
  OBVIOUS
<1>3. id = pa
  <2>1. \A i \in DOMAIN orders : i # pa /\ i # aggressor => orders'[i] = orders[i]
    BY <1>1, <1>2, FillOrders
  <2>2. orders[id].filled \in Nat
    BY OrderFacts DEF EngineInv
  <2>3. SUFFICES ASSUME id # pa PROVE FALSE
    OBVIOUS
  <2>4. orders'[id] = orders[id]
    BY <2>1, <2>3
  <2> QED
    BY <2>2, <2>4 DEF FilledBy
<1>4. /\ aggressor \in DOMAIN orders
      /\ InLevel(orders[aggressor].sym, Opposite(orders[aggressor].side), level, pa)
      /\ orders[aggressor].sym \in Symbols /\ Opposite(orders[aggressor].side) \in Sides
      /\ level \in Prices
  BY <1>1, <1>2, PassiveFacts
<1>5. orders[id].price = level
  BY <1>3, <1>4, BookView DEF LevelsOK, EngineInv
<1>6. pc = "orders" /\ aggressor # None
  BY <1>1, <1>4, IdFacts DEF Fill, EngineInv
<1> QED
  BY <1>5, <1>6 DEF LevelAllowed, FokCovered

-----------------------------------------------------------------------------
(* Theorems                                                                *)

\* The matching loop serves the best price of the other side, and at that price
\* the oldest order, among all the open orders of the engine: for any number of
\* orders and prices, and whatever the callbacks cancel in the middle of a match.
THEOREM PriorityHolds == Spec => PriceTimePriority
<1> DEFINE Priority ==
        \A id \in DOMAIN orders \ {aggressor} : FilledBy(id) =>
          \A other \in DOMAIN orders \ {aggressor} :
              LET o == orders[id]  x == orders[other] IN
              (Rests(x) /\ x.sym = o.sym /\ x.side = o.side) =>
                  \/ Better(o.side, o.price, x.price)
                  \/ o.price = x.price /\ id <= other
<1>1. Init => LevelIsBest
  BY DEF Init, LevelIsBest
<1>2. EngineInv /\ LevelIsBest /\ [Next]_vars => LevelIsBest'
  BY LevelStaysBest
<1>3. EngineInv /\ LevelIsBest /\ [Next]_vars => Priority
  <2> SUFFICES ASSUME EngineInv, LevelIsBest, [Next]_vars
               PROVE  Priority
    OBVIOUS
  <2>1. CASE Fill
    BY <2>1, FillHasPriority
  <2>2. CASE ~ Fill
    <3>1. \A id \in DOMAIN orders : ~ FilledBy(id)
      <4>1. ASSUME NEW id \in DOMAIN orders
            PROVE  ~ FilledBy(id)
        <5>1. orders[id].filled \in Nat
          BY OrderFacts DEF EngineInv
        <5>2. orders'[id].filled = orders[id].filled
          BY <2>2, OnlyFillFills
        <5> QED
          BY <5>1, <5>2 DEF FilledBy
      <4> QED
        BY <4>1
    <3> QED
      BY <3>1
  <2> QED
    BY <2>1, <2>2
<1> QED
  BY <1>1, <1>2, <1>3, EngineIsConsistent, PTL DEF Spec, PriceTimePriority

\* An order that was filled, cancelled or rejected keeps that status and trades no
\* more, provided that no callback cancels orders in the middle of a match.
THEOREM ClosedOrdersStayClosed ==
    ASSUME Reentrant = FALSE
    PROVE  Spec => TerminalIsFinal
<1>1. Init => CallsAlone
  BY DEF Init, CallsAlone
<1>2. EngineInv /\ CallsAlone /\ [Next]_vars => CallsAlone'
  BY CallsStayAlone
<1>3. EngineInv /\ CallsAlone /\ [Next]_vars =>
        \A id \in DOMAIN orders :
          Terminal(orders[id]) => orders'[id].status = orders[id].status
                                  /\ ~ FilledBy(id)
  BY ClosedUntouched
<1> QED
  BY <1>1, <1>2, <1>3, EngineIsConsistent, PTL DEF Spec, TerminalIsFinal

\* total_quantity_ of every level is what its orders still want, at every step of
\* submit_order and of the cancellations, whatever the callbacks cancel.
THEOREM TotalsAreRight == Spec => []TotalsMatchOrders
<1>1. Init => TotalsMatchOrders
  BY InitTotals
<1>2. EngineInv /\ TotalsMatchOrders /\ [Next]_vars => TotalsMatchOrders'
  BY TotalsStayRight
<1> QED
  BY <1>1, <1>2, EngineIsConsistent, PTL DEF Spec

\* What holds of the calls that no callback interferes with.
UndisturbedInv == OrdersSound /\ CallsAlone /\ FokCovered /\ CallsOver

LEMMA InitFacts ==
    Init => OrdersSound /\ LoopDone /\ LevelAllowed /\ UndisturbedInv
  BY DEF Init, OrdersSound, LoopDone, LevelAllowed, UndisturbedInv, CallsAlone,
         FokCovered, CallsOver

\* Every order's quantities add up, and its status says what they are, whatever
\* the callbacks do.
LEMMA QuantitiesAreSound == Spec => []OrdersSound
<1>1. Init => OrdersSound
  BY InitFacts
<1>2. EngineInv /\ OrdersSound /\ [Next]_vars => OrdersSound'
  BY OrdersStaySound
<1> QED
  BY <1>1, <1>2, EngineIsConsistent, PTL DEF Spec

LEMMA UndisturbedCalls ==
    ASSUME Reentrant = FALSE
    PROVE  Spec => []UndisturbedInv
<1>1. Init => UndisturbedInv
  BY InitFacts
<1>2. EngineInv /\ TotalsMatchOrders /\ UndisturbedInv /\ [Next]_vars => UndisturbedInv'
  <2> SUFFICES ASSUME EngineInv, TotalsMatchOrders, UndisturbedInv, [Next]_vars
               PROVE  UndisturbedInv'
    OBVIOUS
  <2>1. OrdersSound'
    BY OrdersStaySound DEF UndisturbedInv
  <2>2. CallsAlone'
    BY CallsStayAlone DEF UndisturbedInv
  <2>3. FokCovered'
    BY FokStaysCovered DEF UndisturbedInv
  <2>4. CallsOver'
    BY CallsEndOver DEF UndisturbedInv
  <2> QED
    BY <2>1, <2>2, <2>3, <2>4 DEF UndisturbedInv
<1> QED
  BY <1>1, <1>2, EngineIsConsistent, TotalsAreRight, PTL DEF Spec

\* A fill-or-kill order is filled whole or not at all when its call has returned,
\* provided that no callback cancels orders in the middle of the match: the
\* availability check of match_fok_order and the matching loop agree about every
\* level, for any number of levels and orders.
THEOREM FillOrKill ==
    ASSUME Reentrant = FALSE
    PROVE  Spec => []FokAllOrNothing
<1>1. EngineInv /\ UndisturbedInv => FokAllOrNothing
  <2> SUFFICES ASSUME EngineInv, UndisturbedInv, pc = "idle", NEW id \in DOMAIN orders,
                      orders[id].type = "FOK"
               PROVE  \/ orders[id].filled = 0 /\ (orders[id].qty > 0 => orders[id].status = "Rejected")
                      \/ orders[id].filled = orders[id].qty /\ orders[id].status = "Filled"
    BY DEF FokAllOrNothing, Idle
  <2>1. id # aggressor
    BY IdFacts DEF EngineInv, ControlOK
  <2> QED
    BY <2>1 DEF UndisturbedInv, CallsOver, Over
<1> QED
  BY <1>1, EngineIsConsistent, UndisturbedCalls, PTL

\* No market, IOC or fill-or-kill order is left open by its call, provided that no
\* callback cancels orders in the middle of the match.
THEOREM NothingWaitsThatMayNot ==
    ASSUME Reentrant = FALSE
    PROVE  Spec => []ImmediateOrdersEnd
<1>1. EngineInv /\ UndisturbedInv => ImmediateOrdersEnd
  <2> SUFFICES ASSUME EngineInv, UndisturbedInv, pc = "idle", NEW id \in DOMAIN orders,
                      orders[id].type \in {"Market", "IOC", "FOK"}, orders[id].qty > 0
               PROVE  Terminal(orders[id])
    BY DEF ImmediateOrdersEnd, Idle
  <2>1. id # aggressor
    BY IdFacts DEF EngineInv, ControlOK
  <2> QED
    BY <2>1 DEF UndisturbedInv, CallsOver, Over
<1> QED
  BY <1>1, EngineIsConsistent, UndisturbedCalls, PTL

\* No Limit or fill-or-kill order trades beyond its limit, though the loop never
\* compares the limit of a fill-or-kill order with a price: what the levels within
\* the limit hold is enough for it, and they come first.
THEOREM FillsAreWithinLimit ==
    ASSUME Reentrant = FALSE
    PROVE  Spec => FillsWithinLimit
<1> DEFINE Within_ ==
        \A id \in DOMAIN orders \ {aggressor} : FilledBy(id) =>
          (orders[aggressor].type \in {"Limit", "FOK"}
             => Willing(orders[aggressor], orders[id].price))
<1>1. Init => LevelAllowed
  BY InitFacts
<1>2. EngineInv /\ LevelAllowed /\ [Next]_vars => LevelAllowed'
  BY LevelStaysAllowed
<1>3. EngineInv /\ UndisturbedInv /\ LevelAllowed /\ [Next]_vars => Within_
  BY FillAtLevel DEF UndisturbedInv
<1> QED
  BY <1>1, <1>2, <1>3, EngineIsConsistent, UndisturbedCalls, PTL DEF Spec, FillsWithinLimit

\* A market or IOC order is cancelled by the engine only when no open order is
\* left on the other side of its symbol, whatever the callbacks cancelled.
THEOREM CancelledOnlyWhenEmpty == Spec => NothingLeftToTake
<1> DEFINE Emptied ==
        \A id \in DOMAIN orders :
          (pc = "finish" /\ Active(orders[id]) /\ ~ Active(orders'[id])
             /\ orders[id].qty > 0)
          => \A other \in DOMAIN orders :
                ~ (Rests(orders[other]) /\ orders[other].sym = orders[id].sym
                   /\ orders[other].side = Opposite(orders[id].side))
<1>1. Init => LoopDone
  BY InitFacts
<1>2. EngineInv /\ LoopDone /\ [Next]_vars => LoopDone'
  BY LoopEndsDone
<1>3. EngineInv /\ OrdersSound /\ LoopDone /\ [Next]_vars => Emptied
  BY CancelledWhenEmpty
<1> QED
  BY <1>1, <1>2, <1>3, EngineIsConsistent, QuantitiesAreSound, PTL
     DEF Spec, NothingLeftToTake

\* A fill-or-kill order is rejected only when all the open orders within its limit
\* together want less than it, over any number of levels.
THEOREM RejectedOnlyIfShort == Spec => FokKilledOnlyIfShort
<1> DEFINE Short ==
        (Len(orders') > Len(orders) /\ orders'[Len(orders')].status = "Rejected") =>
          LET o == orders'[Len(orders')] IN
          o.qty > SumFunctionOnSet(Wanted,
                     { id \in DOMAIN orders :
                         /\ Rests(orders[id])
                         /\ orders[id].sym = o.sym
                         /\ orders[id].side = Opposite(o.side)
                         /\ Willing(o, orders[id].price) })
<1>1. EngineInv /\ TotalsMatchOrders /\ [Next]_vars => Short
  BY RejectedWhenShort
<1> QED
  BY <1>1, EngineIsConsistent, TotalsAreRight, PTL DEF Spec, FokKilledOnlyIfShort
=============================================================================
