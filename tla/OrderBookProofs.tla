--------------------------- MODULE OrderBookProofs ---------------------------
(***************************************************************************)
(* Proofs about OrderBook: whatever orders are constructed, added, filled, *)
(* removed, cleared and destroyed, the levels stay doubly linked lists of  *)
(* the indexed orders and the pool's list of returned slots stays a list   *)
(* of the slots that nobody holds, for any pool and any number of orders;  *)
(* and the lists amount to queues that the book's answers fit, so that     *)
(* OrderBook implements BookOfQueues.                                      *)
(*                                                                         *)
(* The lists are given by a witness, a function from positions to slots,   *)
(* rather than by a walk along the pointers: a step then changes the       *)
(* witness as it changes the list, and only at the end the walks are shown *)
(* to give the witness.  Each step's lemma also says which lists, totals   *)
(* and orders it leaves alone; from that follows how it moves the queues.  *)
(***************************************************************************)
EXTENDS OrderBook, SumTheorems, SequenceTheorems, TLAPS

-----------------------------------------------------------------------------
(* Doubly linked lists                                                     *)

\* c gives the slots of the n orders between head and tail.
Linear(nodes, l, c) ==
    /\ l.order_count \in Nat /\ l.order_count >= 1
    /\ \A i \in 1 .. l.order_count : c[i] \in Slots
    /\ \A i, j \in 1 .. l.order_count : c[i] = c[j] => i = j
    /\ l.head = c[1] /\ l.tail = c[l.order_count]
    /\ \A i \in 1 .. l.order_count :
          /\ nodes[c[i]].prev = IF i = 1 THEN Null ELSE c[i - 1]
          /\ nodes[c[i]].next = IF i = l.order_count THEN Null ELSE c[i + 1]

LEMMA SlotFacts ==
    /\ BlockSize \in Nat /\ BlockSize >= 1
    /\ MaxBlocks \in Nat /\ MaxBlocks >= 1
    /\ BlockSize * MaxBlocks \in Nat
    /\ Slots = 1 .. BlockSize * MaxBlocks
    /\ Null = 0
    /\ Null \notin Slots
<1>1. BlockSize \in Nat /\ BlockSize >= 1 /\ MaxBlocks \in Nat /\ MaxBlocks >= 1
  BY OrderBookAssumption
<1>2. BlockSize * MaxBlocks \in Nat
  BY <1>1
<1>3. Slots = 1 .. BlockSize * MaxBlocks
  BY DEF Slots, Pool!Slots
<1>4. Null = 0
  BY DEF Null, Pool!Null
<1> QED
  BY <1>1, <1>2, <1>3, <1>4

\* The links of the orders of a list have not changed.
LEMMA LinearStays ==
    ASSUME NEW nodes, NEW l, NEW c, Linear(nodes, l, c),
           NEW nodes2, NEW l2,
           l2.order_count = l.order_count, l2.head = l.head, l2.tail = l.tail,
           \A i \in 1 .. l.order_count : /\ nodes2[c[i]].prev = nodes[c[i]].prev
                                         /\ nodes2[c[i]].next = nodes[c[i]].next
    PROVE  Linear(nodes2, l2, c)
  BY DEF Linear

\* The list of slots when s is the only one, when s comes behind the n in c, and
\* when the one at position k of the n in c is gone.
Only(s) == [i \in 1 .. 1 |-> s]
Extended(c, n, s) == [i \in 1 .. n + 1 |-> IF i = n + 1 THEN s ELSE c[i]]
Without(c, n, k) == [i \in 1 .. n - 1 |-> IF i < k THEN c[i] ELSE c[i + 1]]

LEMMA LinearStart ==
    ASSUME NEW nodes, NEW l, NEW s \in Slots,
           l.order_count = 1, l.head = s, l.tail = s,
           nodes[s].prev = Null, nodes[s].next = Null
    PROVE  Linear(nodes, l, Only(s))
  BY DEF Linear, Only

LEMMA LinearAppend ==
    ASSUME NEW nodes, NEW l, NEW c, Linear(nodes, l, c),
           NEW s \in Slots, \A i \in 1 .. l.order_count : c[i] # s,
           NEW nodes2, NEW l2,
           l2.order_count = l.order_count + 1, l2.head = l.head, l2.tail = s,
           nodes2[s].prev = l.tail, nodes2[s].next = Null,
           \A x \in Slots : x # s =>
              /\ nodes2[x].prev = nodes[x].prev
              /\ nodes2[x].next = IF x = l.tail THEN s ELSE nodes[x].next
    PROVE  Linear(nodes2, l2, Extended(c, l.order_count, s))
<1> DEFINE n == l.order_count
           d == Extended(c, n, s)
<1>1. /\ n \in Nat /\ n >= 1
      /\ \A i \in 1 .. n : c[i] \in Slots
      /\ \A i, j \in 1 .. n : c[i] = c[j] => i = j
      /\ l.head = c[1] /\ l.tail = c[n]
      /\ \A i \in 1 .. n : /\ nodes[c[i]].prev = IF i = 1 THEN Null ELSE c[i - 1]
                           /\ nodes[c[i]].next = IF i = n THEN Null ELSE c[i + 1]
  BY DEF Linear
<1>2. d[n + 1] = s /\ \A i \in 1 .. n : d[i] = c[i]
  BY <1>1 DEF Extended
<1>3. \A i \in 1 .. n + 1 : i = n + 1 \/ i \in 1 .. n
  BY <1>1
<1> HIDE DEF d
<1>4. l2.order_count = n + 1
  OBVIOUS
<1> HIDE DEF n
<1>5. \A i \in 1 .. n + 1 : d[i] \in Slots
  BY <1>1, <1>2, <1>3
<1>6. \A i, j \in 1 .. n + 1 : d[i] = d[j] => i = j
  <2> \A i \in 1 .. n : c[i] # s
    BY DEF n
  <2> QED
    BY <1>1, <1>2, <1>3
<1>7. l2.head = d[1] /\ l2.tail = d[n + 1]
  BY <1>1, <1>2
<1>8. ASSUME NEW i \in 1 .. n
      PROVE  /\ nodes2[d[i]].prev = IF i = 1 THEN Null ELSE d[i - 1]
             /\ nodes2[d[i]].next = d[i + 1]
  <2>1. d[i] = c[i] /\ c[i] # s /\ c[i] \in Slots
    BY <1>1, <1>2 DEF n
  <2>2. i # 1 => i - 1 \in 1 .. n
    BY <1>1
  <2>3. i # n => i + 1 \in 1 .. n
    BY <1>1
  <2>4. nodes2[d[i]].prev = IF i = 1 THEN Null ELSE d[i - 1]
    BY <1>1, <1>2, <2>1, <2>2
  <2>5. c[i] = l.tail <=> i = n
    BY <1>1
  <2>6. nodes2[d[i]].next = d[i + 1]
    BY <1>1, <1>2, <2>1, <2>3, <2>5
  <2> QED
    BY <2>4, <2>6
<1>9. nodes2[d[n + 1]].prev = d[n] /\ nodes2[d[n + 1]].next = Null
  BY <1>1, <1>2
<1>10. \A i \in 1 .. n + 1 :
          /\ nodes2[d[i]].prev = IF i = 1 THEN Null ELSE d[i - 1]
          /\ nodes2[d[i]].next = IF i = n + 1 THEN Null ELSE d[i + 1]
  <2> TAKE i \in 1 .. n + 1
  <2>1. CASE i = n + 1
    <3>1. i # 1 /\ i - 1 = n
      BY <1>1, <2>1
    <3> QED
      BY <1>9, <2>1, <3>1
  <2>2. CASE i \in 1 .. n
    <3>1. i # n + 1
      BY <1>1, <2>2
    <3> QED
      BY <1>8, <2>2, <3>1
  <2> QED
    BY <1>3, <2>1, <2>2
<1>11. n + 1 \in Nat /\ n + 1 >= 1
  BY <1>1
<1>12. Linear(nodes2, l2, d)
  BY <1>4, <1>5, <1>6, <1>7, <1>10, <1>11 DEF Linear
<1> QED
  BY <1>12 DEF d, n

\* The order at position k is taken out and its neighbours are joined.
LEMMA LinearRemove ==
    ASSUME NEW nodes, NEW l, NEW c, Linear(nodes, l, c),
           l.order_count > 1, NEW k \in 1 .. l.order_count,
           NEW nodes2, NEW l2,
           l2.order_count = l.order_count - 1,
           l2.head = IF nodes[c[k]].prev = Null THEN nodes[c[k]].next ELSE l.head,
           l2.tail = IF nodes[c[k]].next = Null THEN nodes[c[k]].prev ELSE l.tail,
           \A x \in Slots : x # c[k] =>
              /\ nodes2[x].next = IF x = nodes[c[k]].prev THEN nodes[c[k]].next
                                  ELSE nodes[x].next
              /\ nodes2[x].prev = IF x = nodes[c[k]].next THEN nodes[c[k]].prev
                                  ELSE nodes[x].prev
    PROVE  Linear(nodes2, l2, Without(c, l.order_count, k))
<1> DEFINE n == l.order_count
           d == Without(c, n, k)
           before == nodes[c[k]].prev
           after == nodes[c[k]].next
<1>1. /\ n \in Nat /\ n > 1
      /\ \A i \in 1 .. n : c[i] \in Slots
      /\ \A i, j \in 1 .. n : c[i] = c[j] => i = j
      /\ l.head = c[1] /\ l.tail = c[n]
      /\ \A i \in 1 .. n : /\ nodes[c[i]].prev = IF i = 1 THEN Null ELSE c[i - 1]
                           /\ nodes[c[i]].next = IF i = n THEN Null ELSE c[i + 1]
  BY DEF Linear
<1>2. k \in Nat /\ 1 <= k /\ k <= n
  BY <1>1
<1>3. /\ before = IF k = 1 THEN Null ELSE c[k - 1]
      /\ after = IF k = n THEN Null ELSE c[k + 1]
  BY <1>1
<1>4. \A i \in 1 .. n - 1 : /\ i \in Nat /\ i \in 1 .. n /\ i + 1 \in 1 .. n
                            /\ i < k => d[i] = c[i]
                            /\ ~ (i < k) => d[i] = c[i + 1]
  BY <1>1 DEF Without
<1>5. l2.order_count = n - 1
  OBVIOUS
<1>6. /\ l2.head = IF before = Null THEN after ELSE l.head
      /\ l2.tail = IF after = Null THEN before ELSE l.tail
      /\ \A x \in Slots : x # c[k] =>
              /\ nodes2[x].next = IF x = before THEN after ELSE nodes[x].next
              /\ nodes2[x].prev = IF x = after THEN before ELSE nodes[x].prev
  OBVIOUS
<1> HIDE DEF n, d, before, after
<1>7. \A i \in 1 .. n - 1 : d[i] \in Slots /\ d[i] # c[k]
  <2> TAKE i \in 1 .. n - 1
  <2>1. CASE i < k
    BY <1>1, <1>2, <1>4, <2>1
  <2>2. CASE ~ (i < k)
    <3>1. i + 1 # k /\ i + 1 \in 1 .. n /\ d[i] = c[i + 1] /\ k \in 1 .. n
      BY <1>1, <1>2, <1>4, <2>2
    <3> QED
      BY <1>1, <3>1
  <2> QED
    BY <2>1, <2>2
<1>8. \A i, j \in 1 .. n - 1 : d[i] = d[j] => i = j
  <2> TAKE i, j \in 1 .. n - 1
  <2>1. \E a \in 1 .. n : d[i] = c[a] /\ a = IF i < k THEN i ELSE i + 1
    BY <1>4
  <2>2. \E a \in 1 .. n : d[j] = c[a] /\ a = IF j < k THEN j ELSE j + 1
    BY <1>4
  <2>3. i \in Nat /\ j \in Nat
    BY <1>4
  <2> QED
    BY <1>1, <1>2, <2>1, <2>2, <2>3
<1>9. Null \notin Slots /\ k \in 1 .. n
  BY SlotFacts, <1>1, <1>2
<1>10. l2.head = d[1]
  <2>1. 1 \in 1 .. n - 1 /\ 1 + 1 = 2 /\ 2 \in 1 .. n
    BY <1>1
  <2>2. CASE k = 1
    <3>1. before = Null /\ after = c[2] /\ d[1] = c[2]
      BY <1>1, <1>3, <1>4, <2>1, <2>2
    <3> QED
      BY <1>6, <3>1
  <2>3. CASE k # 1
    <3>1. k - 1 \in 1 .. n /\ 1 < k
      BY <1>1, <1>2, <2>3
    <3>2. before # Null /\ d[1] = c[1]
      BY <1>1, <1>3, <1>4, <1>9, <2>1, <2>3, <3>1
    <3> QED
      BY <1>1, <1>6, <3>2
  <2> QED
    BY <2>2, <2>3
<1>11. l2.tail = d[n - 1]
  <2>1. n - 1 \in 1 .. n - 1 /\ (n - 1) + 1 = n
    BY <1>1
  <2>2. CASE k = n
    <3>1. n - 1 < k /\ k # 1 /\ k - 1 = n - 1
      BY <1>1, <2>2
    <3>2. after = Null /\ before = c[n - 1] /\ d[n - 1] = c[n - 1]
      BY <1>3, <1>4, <2>1, <2>2, <3>1
    <3> QED
      BY <1>6, <3>2
  <2>3. CASE k # n
    <3>1. k + 1 \in 1 .. n /\ ~ (n - 1 < k)
      BY <1>1, <1>2, <2>3
    <3>2. after # Null /\ d[n - 1] = c[n]
      BY <1>1, <1>3, <1>4, <1>9, <2>1, <2>3, <3>1
    <3> QED
      BY <1>1, <1>6, <3>2
  <2> QED
    BY <2>2, <2>3
<1>12. ASSUME NEW i \in 1 .. n - 1
       PROVE  nodes2[d[i]].prev = IF i = 1 THEN Null ELSE d[i - 1]
  <2>1. i \in Nat /\ i \in 1 .. n /\ i + 1 \in 1 .. n /\ d[i] \in Slots /\ d[i] # c[k]
    BY <1>4, <1>7
  <2>2. i # 1 => i - 1 \in 1 .. n - 1 /\ i - 1 \in 1 .. n /\ (i - 1) + 1 = i
    BY <1>1, <2>1
  <2>3. nodes2[d[i]].prev = IF d[i] = after THEN before ELSE nodes[d[i]].prev
    BY <1>6, <2>1
  <2>4. CASE i < k
    <3>1. d[i] = c[i] /\ (i # 1 => i - 1 < k)
      BY <1>2, <1>4, <2>1, <2>4
    <3>2. d[i] # after
      <4>1. k # n => k + 1 \in 1 .. n /\ k + 1 # i
        BY <1>1, <1>2, <2>1, <2>4
      <4> QED
        BY <1>1, <1>3, <1>9, <2>1, <3>1, <4>1
    <3>3. nodes[c[i]].prev = IF i = 1 THEN Null ELSE c[i - 1]
      BY <1>1, <2>1
    <3>4. i # 1 => d[i - 1] = c[i - 1]
      BY <1>4, <2>2, <3>1
    <3> QED
      BY <2>3, <3>1, <3>2, <3>3, <3>4
  <2>5. CASE i = k
    <3>1. d[i] = c[k + 1] /\ k # n /\ after = c[k + 1]
      BY <1>1, <1>3, <1>4, <2>1, <2>5
    <3>2. i # 1 => d[i - 1] = c[k - 1]
      <4>1. i # 1 => i - 1 < k
        BY <2>1, <2>5
      <4> QED
        BY <1>4, <2>2, <2>5, <4>1
    <3> QED
      BY <1>3, <2>3, <2>5, <3>1, <3>2
  <2>6. CASE i > k
    <3>1. d[i] = c[i + 1] /\ i # 1 /\ ~ (i - 1 < k) /\ i + 1 # 1 /\ (i + 1) - 1 = i
      BY <1>2, <1>4, <2>1, <2>6
    <3>2. d[i - 1] = c[i]
      BY <1>4, <2>2, <3>1
    <3>3. d[i] # after
      <4>1. k # n => k + 1 \in 1 .. n /\ k + 1 # i + 1
        BY <1>1, <1>2, <2>1, <2>6
      <4> QED
        BY <1>1, <1>3, <1>9, <2>1, <3>1, <4>1
    <3>4. nodes[c[i + 1]].prev = c[i]
      BY <1>1, <2>1, <3>1
    <3> QED
      BY <2>3, <3>1, <3>2, <3>3, <3>4
  <2> QED
    BY <1>2, <2>1, <2>4, <2>5, <2>6
<1>13. ASSUME NEW i \in 1 .. n - 1
       PROVE  nodes2[d[i]].next = IF i = n - 1 THEN Null ELSE d[i + 1]
  <2>1. i \in Nat /\ i \in 1 .. n /\ i + 1 \in 1 .. n /\ d[i] \in Slots /\ d[i] # c[k]
    BY <1>4, <1>7
  <2>2. i # n - 1 => i + 1 \in 1 .. n - 1 /\ i + 2 \in 1 .. n /\ (i + 1) + 1 = i + 2
    BY <1>1, <2>1
  <2>3. nodes2[d[i]].next = IF d[i] = before THEN after ELSE nodes[d[i]].next
    BY <1>6, <2>1
  <2>4. CASE i + 1 < k
    <3>1. d[i] = c[i] /\ i # n - 1 /\ i # n
      BY <1>1, <1>2, <1>4, <2>1, <2>4
    <3>2. d[i + 1] = c[i + 1]
      BY <1>4, <2>2, <2>4, <3>1
    <3>3. d[i] # before
      <4>1. k # 1 => k - 1 \in 1 .. n /\ k - 1 # i
        BY <1>1, <1>2, <2>1, <2>4
      <4> QED
        BY <1>1, <1>3, <1>9, <2>1, <3>1, <4>1
    <3>4. nodes[c[i]].next = c[i + 1]
      BY <1>1, <2>1, <3>1
    <3> QED
      BY <2>3, <3>1, <3>2, <3>3, <3>4
  <2>5. CASE i + 1 = k
    <3>1. d[i] = c[i] /\ k # 1 /\ k - 1 = i /\ before = c[i]
      <4>1. i < k /\ k # 1 /\ k - 1 = i
        BY <1>2, <2>1, <2>5
      <4> QED
        BY <1>3, <1>4, <4>1
    <3>2. i = n - 1 <=> k = n
      BY <1>1, <1>2, <2>1, <2>5
    <3>3. i # n - 1 => d[i + 1] = c[k + 1]
      <4>1. i # n - 1 => ~ (i + 1 < k) /\ i + 2 = k + 1
        BY <1>2, <2>1, <2>5
      <4> QED
        BY <1>4, <2>2, <4>1
    <3> QED
      BY <1>3, <2>3, <3>1, <3>2, <3>3
  <2>6. CASE i + 1 > k
    <3>1. d[i] = c[i + 1] /\ (i = n - 1 <=> i + 1 = n)
      <4>1. ~ (i < k)
        BY <1>2, <2>1, <2>6
      <4> QED
        BY <1>1, <1>4, <2>1, <4>1
    <3>2. i # n - 1 => d[i + 1] = c[i + 2]
      <4>1. ~ (i + 1 < k)
        BY <1>2, <2>1, <2>6
      <4> QED
        BY <1>4, <2>2, <4>1
    <3>3. d[i] # before
      <4>1. k # 1 => k - 1 \in 1 .. n /\ k - 1 # i + 1
        BY <1>1, <1>2, <2>1, <2>6
      <4> QED
        BY <1>1, <1>3, <1>9, <2>1, <3>1, <4>1
    <3>4. nodes[c[i + 1]].next = IF i + 1 = n THEN Null ELSE c[i + 2]
      <4>1. (i + 1) + 1 = i + 2
        BY <2>1
      <4> QED
        BY <1>1, <2>1, <4>1
    <3> QED
      BY <2>3, <3>1, <3>2, <3>3, <3>4
  <2> QED
    BY <1>2, <2>1, <2>4, <2>5, <2>6
<1>14. n - 1 \in Nat /\ n - 1 >= 1
  BY <1>1
<1>15. Linear(nodes2, l2, d)
  BY <1>5, <1>7, <1>8, <1>10, <1>11, <1>12, <1>13, <1>14 DEF Linear
<1> QED
  BY <1>15 DEF d, n

-----------------------------------------------------------------------------
(* The pool                                                                *)

\* f gives the n returned slots from the head of their list.
Returned(head, links, f, n) ==
    /\ n \in Nat
    /\ \A i \in 1 .. n : f[i] \in Slots
    /\ \A i, j \in 1 .. n : f[i] = f[j] => i = j
    /\ head = IF n = 0 THEN Null ELSE f[1]
    /\ \A i \in 1 .. n : links[f[i]] = IF i = n THEN Null ELSE f[i + 1]

\* Slots below the bump pointer are held or returned, never both.
Split(bump, inUse, f, n) ==
    /\ \A s \in Slots : s < bump <=> s \in inUse \/ \E i \in 1 .. n : f[i] = s
    /\ \A i \in 1 .. n : f[i] \notin inUse

PoolInv ==
    /\ blocks \in 1 .. MaxBlocks
    /\ current_slot \in Nat /\ current_slot >= 1
    /\ current_slot <= blocks * BlockSize + 1
    /\ link \in [Slots -> Slots \cup {Null}]
    /\ live \subseteq Slots
    /\ \E n \in Nat : \E f : Returned(free_slots, link, f, n) /\ Split(current_slot, live, f, n)

\* The list without its head, and with s before it.
Behind(f, n) == [i \in 1 .. n - 1 |-> f[i + 1]]
InFront(s, f, n) == [i \in 1 .. n + 1 |-> IF i = 1 THEN s ELSE f[i - 1]]

LEMMA ReuseKeepsList ==
    ASSUME NEW head, NEW links, NEW f, NEW n, Returned(head, links, f, n),
           NEW bump, NEW inUse, Split(bump, inUse, f, n), head # Null
    PROVE  /\ head \in Slots /\ head \notin inUse
           /\ Returned(links[head], links, Behind(f, n), n - 1)
           /\ Split(bump, inUse \cup {head}, Behind(f, n), n - 1)
<1> DEFINE g == Behind(f, n)
<1>1. /\ n \in Nat
      /\ \A i \in 1 .. n : f[i] \in Slots
      /\ \A i, j \in 1 .. n : f[i] = f[j] => i = j
      /\ head = IF n = 0 THEN Null ELSE f[1]
      /\ \A i \in 1 .. n : links[f[i]] = IF i = n THEN Null ELSE f[i + 1]
  BY DEF Returned
<1>2. n >= 1 /\ head = f[1] /\ 1 \in 1 .. n
  BY <1>1
<1>3. \A i \in 1 .. n - 1 : g[i] = f[i + 1] /\ i + 1 \in 1 .. n /\ i + 1 # 1 /\ i \in Nat
  BY <1>1 DEF Behind
<1> HIDE DEF g
<1>4. /\ \A s \in Slots : s < bump <=> s \in inUse \/ \E i \in 1 .. n : f[i] = s
      /\ \A i \in 1 .. n : f[i] \notin inUse
  BY DEF Split
<1>5. head \in Slots /\ head \notin inUse
  BY <1>1, <1>2, <1>4
<1>6. \A i, j \in 1 .. n - 1 : g[i] = g[j] => i = j
  <2> TAKE i, j \in 1 .. n - 1
  <2>1. g[i] = g[j] => i + 1 = j + 1
    BY <1>1, <1>3
  <2> QED
    BY <1>3, <2>1
<1>7. links[head] = IF n - 1 = 0 THEN Null ELSE g[1]
  <2>1. n - 1 # 0 => 1 \in 1 .. n - 1 /\ 1 + 1 = 2 /\ n # 1
    BY <1>1, <1>2
  <2> QED
    BY <1>1, <1>2, <1>3, <2>1
<1>8. \A i \in 1 .. n - 1 : links[g[i]] = IF i = n - 1 THEN Null ELSE g[i + 1]
  <2> TAKE i \in 1 .. n - 1
  <2>1. i = n - 1 <=> i + 1 = n
    BY <1>1, <1>3
  <2>2. i # n - 1 => i + 1 \in 1 .. n - 1
    BY <1>1
  <2> QED
    BY <1>1, <1>3, <2>1, <2>2
<1>9. Returned(links[head], links, g, n - 1)
  <2>1. n - 1 \in Nat
    BY <1>1, <1>2
  <2>2. \A i \in 1 .. n - 1 : g[i] \in Slots
    BY <1>1, <1>3
  <2> QED
    BY <1>6, <1>7, <1>8, <2>1, <2>2 DEF Returned
<1>10. ASSUME NEW s \in Slots
       PROVE  (\E i \in 1 .. n : f[i] = s) <=> s = head \/ \E i \in 1 .. n - 1 : g[i] = s
  <2>1. ASSUME NEW i \in 1 .. n, f[i] = s, s # head
        PROVE  \E j \in 1 .. n - 1 : g[j] = s
    <3>1. i - 1 \in 1 .. n - 1 /\ (i - 1) + 1 = i
      BY <1>1, <1>2, <2>1
    <3> QED
      BY <1>3, <2>1, <3>1
  <2> QED
    BY <1>2, <1>3, <2>1
<1>11. \A i \in 1 .. n - 1 : g[i] \notin inUse \cup {head}
  BY <1>1, <1>2, <1>3, <1>4
<1>12. Split(bump, inUse \cup {head}, g, n - 1)
  BY <1>4, <1>10, <1>11 DEF Split
<1> QED
  BY <1>5, <1>9, <1>12 DEF g

LEMMA ReturnKeepsList ==
    ASSUME NEW head, NEW links \in [Slots -> Slots \cup {Null}], NEW f, NEW n,
           Returned(head, links, f, n),
           NEW bump, NEW inUse, Split(bump, inUse, f, n), NEW s \in Slots, s \in inUse,
           NEW links2, links2 = [links EXCEPT ![s] = head]
    PROVE  /\ head \in Slots \cup {Null}
           /\ Returned(s, links2, InFront(s, f, n), n + 1)
           /\ Split(bump, inUse \ {s}, InFront(s, f, n), n + 1)
<1> DEFINE g == InFront(s, f, n)
<1>1. /\ n \in Nat
      /\ \A i \in 1 .. n : f[i] \in Slots
      /\ \A i, j \in 1 .. n : f[i] = f[j] => i = j
      /\ head = IF n = 0 THEN Null ELSE f[1]
      /\ \A i \in 1 .. n : links[f[i]] = IF i = n THEN Null ELSE f[i + 1]
  BY DEF Returned
<1>2. /\ \A t \in Slots : t < bump <=> t \in inUse \/ \E i \in 1 .. n : f[i] = t
      /\ \A i \in 1 .. n : f[i] \notin inUse
  BY DEF Split
<1>3. g[1] = s /\ \A i \in 1 .. n + 1 : i # 1 => g[i] = f[i - 1] /\ i - 1 \in 1 .. n
  BY <1>1 DEF InFront
<1>4. links2[s] = head /\ \A t \in Slots : t # s => links2[t] = links[t]
  OBVIOUS
<1>5. \A i \in 1 .. n : f[i] # s
  BY <1>2
<1> HIDE DEF g
<1>6. \A i, j \in 1 .. n + 1 : g[i] = g[j] => i = j
  <2> TAKE i, j \in 1 .. n + 1
  <2>1. CASE i # 1 /\ j # 1
    <3>1. g[i] = g[j] => i - 1 = j - 1
      BY <1>1, <1>3, <2>1
    <3> QED
      BY <1>1, <3>1
  <2>2. CASE i = 1 \/ j = 1
    BY <1>3, <1>5, <2>2
  <2> QED
    BY <2>1, <2>2
<1>7. \A i \in 1 .. n + 1 : links2[g[i]] = IF i = n + 1 THEN Null ELSE g[i + 1]
  <2> TAKE i \in 1 .. n + 1
  <2>1. CASE i = 1
    <3>1. i # n + 1 => i + 1 \in 1 .. n + 1 /\ i + 1 # 1 /\ (i + 1) - 1 = 1 /\ n # 0
      BY <1>1, <2>1
    <3>2. i = n + 1 => n = 0
      BY <1>1, <2>1
    <3> QED
      BY <1>1, <1>3, <1>4, <2>1, <3>1, <3>2
  <2>2. CASE i # 1
    <3>1. /\ i - 1 \in 1 .. n /\ (i = n + 1 <=> i - 1 = n)
          /\ i # n + 1 => i + 1 \in 1 .. n + 1 /\ i + 1 # 1 /\ (i + 1) - 1 = (i - 1) + 1
      BY <1>1, <2>2
    <3>2. links2[g[i]] = links[f[i - 1]]
      BY <1>1, <1>3, <1>4, <1>5, <2>2, <3>1
    <3> QED
      BY <1>1, <1>3, <3>1, <3>2
  <2> QED
    BY <2>1, <2>2
<1>8. head \in Slots \cup {Null}
  BY <1>1
<1>9. Returned(s, links2, g, n + 1)
  <2>1. n + 1 \in Nat /\ n + 1 # 0
    BY <1>1
  <2>2. \A i \in 1 .. n + 1 : g[i] \in Slots
    BY <1>1, <1>3
  <2> QED
    BY <1>3, <1>6, <1>7, <2>1, <2>2 DEF Returned
<1>10. ASSUME NEW t \in Slots
       PROVE  (\E i \in 1 .. n + 1 : g[i] = t) <=> t = s \/ \E i \in 1 .. n : f[i] = t
  <2>1. ASSUME NEW i \in 1 .. n, f[i] = t
        PROVE  \E j \in 1 .. n + 1 : g[j] = t
    <3>1. i + 1 \in 1 .. n + 1 /\ i + 1 # 1 /\ (i + 1) - 1 = i
      BY <1>1
    <3> QED
      BY <1>3, <2>1, <3>1
  <2>2. 1 \in 1 .. n + 1
    BY <1>1
  <2> QED
    BY <1>3, <2>1, <2>2
<1>11. \A i \in 1 .. n + 1 : g[i] \notin inUse \ {s}
  BY <1>2, <1>3
<1>12. Split(bump, inUse \ {s}, g, n + 1)
  BY <1>2, <1>10, <1>11 DEF Split
<1> QED
  BY <1>8, <1>9, <1>12 DEF g

\* allocate hands out a slot that nobody holds.
LEMMA AllocateKeepsPool ==
    ASSUME PoolInv, NEW s \in Slots, s = Pool!Allocated, Pool!Allocate, live' = live \cup {s}
    PROVE  s \notin live /\ PoolInv'
<1>1. /\ blocks \in 1 .. MaxBlocks
      /\ current_slot \in Nat /\ current_slot >= 1
      /\ current_slot <= blocks * BlockSize + 1
      /\ link \in [Slots -> Slots \cup {Null}]
      /\ live \subseteq Slots
  BY DEF PoolInv
<1>2. PICK n \in Nat : \E f : Returned(free_slots, link, f, n) /\ Split(current_slot, live, f, n)
  BY DEF PoolInv
<1>3. PICK f : Returned(free_slots, link, f, n) /\ Split(current_slot, live, f, n)
  BY <1>2
<1>4. live' \subseteq Slots
  BY <1>1
<1>5. CASE Pool!Reuse
  <2>1. /\ free_slots # Null /\ s = free_slots
        /\ free_slots' = link[free_slots]
        /\ link' = link /\ current_slot' = current_slot /\ blocks' = blocks
    BY <1>5 DEF Pool!Reuse, Pool!Allocated, Null
  <2> DEFINE g == Behind(f, n)
  <2>2. /\ s \notin live
        /\ Returned(link[s], link, g, n - 1)
        /\ Split(current_slot, live \cup {s}, g, n - 1)
    BY <1>3, <2>1, ReuseKeepsList
  <2> HIDE DEF g
  <2>3. /\ Returned(free_slots', link', g, n - 1)
        /\ Split(current_slot', live', g, n - 1)
    BY <2>1, <2>2
  <2>4. n - 1 \in Nat
    BY <2>2 DEF Returned
  <2> QED
    BY <1>1, <1>4, <2>1, <2>2, <2>3, <2>4 DEF PoolInv
<1>6. CASE Pool!Bump
  <2>1. /\ free_slots = Null /\ s = current_slot
        /\ blocks' = IF current_slot >= blocks * BlockSize + 1 THEN blocks + 1 ELSE blocks
        /\ current_slot' = current_slot + 1
        /\ free_slots' = free_slots /\ link' = link
    BY <1>6 DEF Pool!Bump, Pool!Allocated, Null, Pool!LastSlot
  <2>2. n = 0
    BY <1>3, <2>1, SlotFacts DEF Returned
  <2>3. s \notin live
    BY <1>1, <1>3, <2>1 DEF Split
  <2>4. Split(current_slot', live', f, n)
    <3>1. \A t \in Slots : t < current_slot + 1 <=> t < current_slot \/ t = s
      BY <1>1, <2>1, SlotFacts
    <3>2. \A t \in Slots : t < current_slot' <=> t \in live'
      BY <1>3, <2>1, <2>2, <3>1 DEF Split
    <3> QED
      BY <2>2, <3>2 DEF Split
  <2>5. /\ blocks' \in 1 .. MaxBlocks
        /\ current_slot' <= blocks' * BlockSize + 1
    <3>1. s \in Nat /\ s <= BlockSize * MaxBlocks
      BY SlotFacts
    <3>2. BlockSize \in Nat /\ BlockSize >= 1 /\ MaxBlocks \in Nat /\ blocks \in Nat
          /\ blocks >= 1 /\ blocks <= MaxBlocks
      BY <1>1, SlotFacts
    <3>3. CASE current_slot >= blocks * BlockSize + 1
      <4>1. blocks # MaxBlocks
        <5>1. blocks = MaxBlocks => blocks * BlockSize = BlockSize * MaxBlocks
          BY <3>2
        <5> QED
          BY <1>1, <2>1, <3>1, <3>2, <3>3, <5>1
      <4>2. (blocks + 1) * BlockSize = blocks * BlockSize + BlockSize
        BY <3>2
      <4>3. blocks' = blocks + 1
        BY <2>1, <3>3
      <4>4. blocks * BlockSize \in Nat
        BY <3>2
      <4> HIDE DEF PoolInv
      <4> QED
        BY <1>1, <2>1, <3>2, <4>1, <4>2, <4>3, <4>4
    <3>4. CASE ~ (current_slot >= blocks * BlockSize + 1)
      <4>1. blocks * BlockSize \in Nat
        BY <3>2
      <4> QED
        BY <1>1, <2>1, <3>4, <4>1
    <3> QED
      BY <3>3, <3>4
  <2>6. Returned(free_slots', link', f, n)
    BY <1>3, <2>1
  <2>7. current_slot' \in Nat /\ current_slot' >= 1 /\ link' \in [Slots -> Slots \cup {Null}]
    BY <1>1, <2>1
  <2> QED
    BY <1>4, <2>3, <2>4, <2>5, <2>6, <2>7 DEF PoolInv
<1> QED
  BY <1>5, <1>6 DEF Pool!Allocate

LEMMA DeallocateKeepsPool ==
    ASSUME PoolInv, NEW s \in live, Pool!Deallocate(s), live' = live \ {s}
    PROVE  PoolInv'
<1>1. /\ blocks \in 1 .. MaxBlocks
      /\ current_slot \in Nat /\ current_slot >= 1
      /\ current_slot <= blocks * BlockSize + 1
      /\ link \in [Slots -> Slots \cup {Null}]
      /\ live \subseteq Slots
  BY DEF PoolInv
<1>2. PICK n \in Nat : \E f : Returned(free_slots, link, f, n) /\ Split(current_slot, live, f, n)
  BY DEF PoolInv
<1>3. PICK f : Returned(free_slots, link, f, n) /\ Split(current_slot, live, f, n)
  BY <1>2
<1>4. /\ link' = [link EXCEPT ![s] = free_slots]
      /\ free_slots' = s /\ current_slot' = current_slot /\ blocks' = blocks
  BY DEF Pool!Deallocate
<1>5. s \in Slots
  BY <1>1
<1> DEFINE g == InFront(s, f, n)
<1>6. /\ free_slots \in Slots \cup {Null}
      /\ Returned(s, link', g, n + 1)
      /\ Split(current_slot, live \ {s}, g, n + 1)
  <2>1. link \in [Slots -> Slots \cup {Null}] /\ link' = [link EXCEPT ![s] = free_slots]
    BY <1>1, <1>4
  <2> QED
    BY <1>3, <1>5, <2>1, ReturnKeepsList
<1> HIDE DEF g
<1>7. /\ Returned(free_slots', link', g, n + 1)
      /\ Split(current_slot', live', g, n + 1)
  BY <1>4, <1>6
<1>8. link' \in [Slots -> Slots \cup {Null}]
  BY <1>1, <1>4, <1>5, <1>6
<1>9. live' \subseteq Slots /\ n + 1 \in Nat
  BY <1>1
<1> QED
  BY <1>1, <1>4, <1>7, <1>8, <1>9 DEF PoolInv

LEMMA PoolUntouched ==
    ASSUME PoolInv, UNCHANGED poolVars, live' = live
    PROVE  PoolInv'
  BY DEF PoolInv, poolVars

-----------------------------------------------------------------------------
(* Orders, index and levels                                                *)

Order == [id : Nat, side : Sides, price : Nat, remaining : Nat,
          prev : Slots \cup {Null}, next : Slots \cup {Null}]
Level == [total_quantity : Int, order_count : Nat,
          head : Slots \cup {Null}, tail : Slots \cup {Null}]

BookTyped ==
    /\ cell \in [Slots -> Order]
    /\ DOMAIN levels = Sides
    /\ \A side \in Sides : \A p \in DOMAIN levels[side] :
          p \in Prices /\ levels[side][p] \in Level
    /\ next_id \in Nat /\ next_id >= 1

\* Ids are given out once, the index knows an order by its id, and the level of
\* every order in it exists.
IndexInv ==
    /\ \A s \in live : /\ cell[s].id \in 1 .. next_id - 1
                       /\ cell[s].price \in Prices
    /\ \A s, t \in live : cell[s].id = cell[t].id => s = t
    /\ \A id \in DOMAIN index :
          /\ index[id] \in live /\ cell[index[id]].id = id
          /\ cell[index[id]].price \in DOMAIN levels[cell[index[id]].side]

\* The n slots in c are the indexed orders of a side at a price.
Holds(nodes, ids, side, p, c, n) ==
    /\ \A i \in 1 .. n : /\ nodes[c[i]].id \in DOMAIN ids
                         /\ ids[nodes[c[i]].id] = c[i]
                         /\ nodes[c[i]].side = side
                         /\ nodes[c[i]].price = p
    /\ \A id \in DOMAIN ids :
          nodes[ids[id]].side = side /\ nodes[ids[id]].price = p =>
             \E i \in 1 .. n : c[i] = ids[id]

\* c is the list of the level l, on this side and at this price.
ListOf(nodes, ids, side, p, l, c) ==
    Linear(nodes, l, c) /\ Holds(nodes, ids, side, p, c, l.order_count)

LevelsInv ==
    \A side \in Sides : \A p \in DOMAIN levels[side] :
        \E c : ListOf(cell, index, side, p, levels[side][p], c)

\* c is the list of the n orders of a side at price p; lvls are the side's levels.
Lined(nodes, ids, lvls, side, p, c, n) ==
    IF p \in DOMAIN lvls
    THEN lvls[p].order_count = n /\ ListOf(nodes, ids, side, p, lvls[p], c)
    ELSE n = 0

\* What a step leaves alone: the list and the total at a price of a side, and
\* what an order says.
LineStays(side, p) ==
    \A c, n : Lined(cell, index, levels[side], side, p, c, n) =>
                 Lined(cell', index', levels'[side], side, p, c, n)
TotalStays(side, p) ==
    p \in DOMAIN levels'[side] =>
       /\ p \in DOMAIN levels[side]
       /\ levels'[side][p].total_quantity = levels[side][p].total_quantity
OrderStays(x) == cell'[x].id = cell[x].id /\ cell'[x].remaining = cell[x].remaining

\* The inductive invariant.
BookInv == BookTyped /\ PoolInv /\ IndexInv /\ LevelsInv

\* A level whose orders a step does not touch keeps its list.
LEMMA ListStays ==
    ASSUME NEW nodes, NEW ids, NEW side, NEW p, NEW l, NEW c,
           ListOf(nodes, ids, side, p, l, c),
           NEW nodes2, NEW ids2, NEW l2,
           l2.order_count = l.order_count, l2.head = l.head, l2.tail = l.tail,
           \A x \in Slots : nodes[x].id \in DOMAIN ids /\ ids[nodes[x].id] = x
                            /\ nodes[x].side = side /\ nodes[x].price = p =>
              /\ nodes2[x].prev = nodes[x].prev /\ nodes2[x].next = nodes[x].next
              /\ nodes2[x].id = nodes[x].id
              /\ nodes2[x].side = side /\ nodes2[x].price = p
              /\ nodes[x].id \in DOMAIN ids2 /\ ids2[nodes[x].id] = x,
           \A id \in DOMAIN ids2 :
              nodes2[ids2[id]].side = side /\ nodes2[ids2[id]].price = p =>
                 /\ id \in DOMAIN ids /\ ids[id] = ids2[id]
                 /\ nodes[ids[id]].side = side /\ nodes[ids[id]].price = p
    PROVE  ListOf(nodes2, ids2, side, p, l2, c)
<1> DEFINE n == l.order_count
<1>1. Linear(nodes, l, c) /\ Holds(nodes, ids, side, p, c, n)
  BY DEF ListOf
<1>2. \A i \in 1 .. n : c[i] \in Slots
  BY <1>1 DEF Linear
<1>3. \A i \in 1 .. n : /\ nodes[c[i]].id \in DOMAIN ids
                        /\ ids[nodes[c[i]].id] = c[i]
                        /\ nodes[c[i]].side = side /\ nodes[c[i]].price = p
  BY <1>1 DEF Holds
<1>4. \A i \in 1 .. n :
         /\ nodes2[c[i]].prev = nodes[c[i]].prev /\ nodes2[c[i]].next = nodes[c[i]].next
         /\ nodes2[c[i]].id = nodes[c[i]].id
         /\ nodes2[c[i]].side = side /\ nodes2[c[i]].price = p
         /\ nodes[c[i]].id \in DOMAIN ids2 /\ ids2[nodes[c[i]].id] = c[i]
  BY <1>2, <1>3
<1>5. Linear(nodes2, l2, c)
  BY <1>1, <1>4, LinearStays
<1>6. \A id \in DOMAIN ids2 :
         nodes2[ids2[id]].side = side /\ nodes2[ids2[id]].price = p =>
            \E i \in 1 .. n : c[i] = ids2[id]
  BY <1>1 DEF Holds
<1>7. Holds(nodes2, ids2, side, p, c, n)
  BY <1>4, <1>6 DEF Holds
<1> QED
  BY <1>5, <1>7 DEF ListOf

LEMMA InLevel ==
    ASSUME NEW nodes, NEW ids, NEW side, NEW p, NEW l, NEW c,
           ListOf(nodes, ids, side, p, l, c)
    PROVE  /\ l.order_count \in Nat /\ l.order_count >= 1
           /\ l.head = c[1] /\ l.tail = c[l.order_count]
           /\ \A i \in 1 .. l.order_count :
                 /\ c[i] \in Slots
                 /\ nodes[c[i]].id \in DOMAIN ids
                 /\ ids[nodes[c[i]].id] = c[i]
                 /\ nodes[c[i]].side = side /\ nodes[c[i]].price = p
                 /\ nodes[c[i]].prev = IF i = 1 THEN Null ELSE c[i - 1]
                 /\ nodes[c[i]].next = IF i = l.order_count THEN Null ELSE c[i + 1]
           /\ \A i, j \in 1 .. l.order_count : c[i] = c[j] => i = j
  BY DEF ListOf, Linear, Holds

\* A neighbour in a list belongs to the same level.
LEMMA NeighboursInLevel ==
    ASSUME NEW nodes, NEW ids, NEW side, NEW p, NEW l, NEW c,
           ListOf(nodes, ids, side, p, l, c),
           NEW k \in 1 .. l.order_count,
           NEW x \in Slots, x = nodes[c[k]].prev \/ x = nodes[c[k]].next
    PROVE  nodes[x].side = side /\ nodes[x].price = p
<1>1. k - 1 \in 1 .. l.order_count \/ k = 1
  BY InLevel
<1>2. k + 1 \in 1 .. l.order_count \/ k = l.order_count
  BY InLevel
<1>3. Null \notin Slots
  BY SlotFacts
<1> QED
  BY <1>1, <1>2, <1>3, InLevel

\* A level has one list.
LEMMA SameList ==
    ASSUME NEW nodes, NEW l, NEW b, NEW c, Linear(nodes, l, b), Linear(nodes, l, c)
    PROVE  \A i \in 1 .. l.order_count : b[i] = c[i]
<1> DEFINE n == l.order_count
           Good == { k \in Nat : k + 1 \in 1 .. n => b[k + 1] = c[k + 1] }
<1>1. /\ n \in Nat /\ b[1] = c[1]
      /\ \A k \in 1 .. n : nodes[b[k]].next = IF k = n THEN Null ELSE b[k + 1]
      /\ \A k \in 1 .. n : nodes[c[k]].next = IF k = n THEN Null ELSE c[k + 1]
  BY DEF Linear
<1> HIDE DEF n
<1>2. 0 \in Good
  <2>1. 0 + 1 = 1 /\ 0 \in Nat
    OBVIOUS
  <2> QED
    BY <1>1, <2>1
<1>3. ASSUME NEW k \in Nat, k \in Good
      PROVE  k + 1 \in Good
  <2> SUFFICES ASSUME (k + 1) + 1 \in 1 .. n
               PROVE  b[(k + 1) + 1] = c[(k + 1) + 1]
    OBVIOUS
  <2>1. k + 1 \in 1 .. n /\ k + 1 # n
    BY <1>1
  <2>2. b[k + 1] = c[k + 1]
    BY <1>3, <2>1
  <2> QED
    BY <1>1, <2>1, <2>2
<1>4. ASSUME NEW i \in 1 .. n
      PROVE  b[i] = c[i]
  <2>1. i - 1 \in Nat /\ (i - 1) + 1 = i
    BY <1>1
  <2> HIDE DEF Good
  <2>2. i - 1 \in Good
    BY <1>2, <1>3, <2>1, NatSetInduction
  <2> QED
    BY <2>1, <2>2 DEF Good
<1> QED
  BY <1>4 DEF n

-----------------------------------------------------------------------------
(* The steps                                                               *)

LEMMA ConstructKeepsBook ==
    ASSUME BookInv, NEW side \in Sides, NEW price \in Prices, NEW qty \in Quantities,
           Construct(side, price, qty)
    PROVE  /\ BookInv'
           /\ \A sd \in Sides : \A p : LineStays(sd, p) /\ TotalStays(sd, p)
           /\ \A id \in DOMAIN index : OrderStays(index[id])
<1> DEFINE s == Pool!Allocated
           new == [Blank EXCEPT !.id = next_id, !.side = side,
                                !.price = price, !.remaining = qty]
<1>1. /\ s \in Slots /\ Pool!Allocate
      /\ cell' = [cell EXCEPT ![s] = new]
      /\ live' = live \cup {s}
      /\ next_id' = next_id + 1
      /\ index' = index /\ levels' = levels
  BY DEF Construct, bookVars
<1> HIDE DEF s
<1>2. s \notin live /\ PoolInv'
  BY <1>1, AllocateKeepsPool DEF s, BookInv
<1>3. /\ new.id = next_id /\ new.side = side /\ new.price = price
      /\ new.remaining = qty /\ new.prev = Null /\ new.next = Null
      /\ new \in Order
  BY OrderBookAssumption DEF Blank, Order, Sides, BookInv, BookTyped
<1> HIDE DEF new
<1>4. /\ cell \in [Slots -> Order] /\ next_id \in Nat /\ next_id >= 1
      /\ DOMAIN levels = Sides
      /\ \A sd \in Sides : \A p \in DOMAIN levels[sd] :
            p \in Prices /\ levels[sd][p] \in Level
  BY DEF BookInv, BookTyped
<1>5. /\ cell' \in [Slots -> Order] /\ cell'[s] = new
      /\ \A x \in Slots : x # s => cell'[x] = cell[x]
  BY <1>1, <1>3, <1>4
<1>6. BookTyped'
  BY <1>1, <1>4, <1>5 DEF BookTyped
<1>7. /\ \A x \in live : cell[x].id \in 1 .. next_id - 1 /\ cell[x].price \in Prices
      /\ \A x, t \in live : cell[x].id = cell[t].id => x = t
      /\ \A id \in DOMAIN index :
            /\ index[id] \in live /\ cell[index[id]].id = id
            /\ cell[index[id]].price \in DOMAIN levels[cell[index[id]].side]
  BY DEF BookInv, IndexInv
<1>8. \A x \in live : x \in Slots /\ x # s
  BY <1>2 DEF BookInv, PoolInv
<1>9. \A x \in live' : /\ cell'[x].id \in 1 .. next_id' - 1 /\ cell'[x].price \in Prices
                       /\ x # s => cell'[x] = cell[x] /\ x \in live /\ cell'[x].id # next_id
                       /\ x = s => cell'[x].id = next_id
  BY <1>1, <1>3, <1>4, <1>5, <1>7, <1>8
<1>10. IndexInv'
  <2>1. \A x, t \in live' : cell'[x].id = cell'[t].id => x = t
    BY <1>7, <1>9
  <2>2. \A id \in DOMAIN index' :
            /\ index'[id] \in live' /\ cell'[index'[id]].id = id
            /\ cell'[index'[id]].price \in DOMAIN levels'[cell'[index'[id]].side]
    BY <1>1, <1>5, <1>7, <1>8
  <2> QED
    BY <1>9, <2>1, <2>2 DEF IndexInv
<1>11. ASSUME NEW sd \in Sides, NEW p \in DOMAIN levels[sd],
              NEW c, ListOf(cell, index, sd, p, levels[sd][p], c)
       PROVE  ListOf(cell', index', sd, p, levels'[sd][p], c)
  <2>1. \A x \in Slots : cell[x].id \in DOMAIN index /\ index[cell[x].id] = x => cell'[x] = cell[x]
    BY <1>5, <1>7, <1>8
  <2>2. \A id \in DOMAIN index : cell'[index[id]] = cell[index[id]]
    BY <1>5, <1>7, <1>8
  <2>3. index' = index /\ levels' = levels
    BY <1>1
  <2>4. ListOf(cell', index, sd, p, levels[sd][p], c)
    BY <1>11, <2>1, <2>2, ListStays
  <2> QED
    BY <2>3, <2>4
<1>12. LevelsInv'
  BY <1>1, <1>4, <1>11 DEF BookInv, LevelsInv
<1>13. \A sd \in Sides : \A p : LineStays(sd, p) /\ TotalStays(sd, p)
  BY <1>1, <1>11 DEF LineStays, TotalStays, Lined
<1>14. \A id \in DOMAIN index : OrderStays(index[id])
  BY <1>5, <1>7, <1>8 DEF OrderStays
<1> QED
  BY <1>2, <1>6, <1>10, <1>12, <1>13, <1>14 DEF BookInv

LEMMA DestroyKeepsBook ==
    ASSUME BookInv, NEW s \in Slots, Destroy(s)
    PROVE  /\ BookInv'
           /\ \A sd \in Sides : \A p : LineStays(sd, p) /\ TotalStays(sd, p)
           /\ \A id \in DOMAIN index : OrderStays(index[id])
<1>1. /\ s \in live /\ cell[s].id \notin DOMAIN index
      /\ Pool!Deallocate(s)
      /\ cell' = [cell EXCEPT ![s] = Blank]
      /\ live' = live \ {s}
      /\ next_id' = next_id /\ index' = index /\ levels' = levels
  BY DEF Destroy, InBook, bookVars
<1>2. PoolInv'
  BY <1>1, DeallocateKeepsPool DEF BookInv
<1>3. Blank \in Order
  BY DEF Blank, Order, Sides
<1>4. /\ cell \in [Slots -> Order] /\ next_id \in Nat /\ next_id >= 1
      /\ DOMAIN levels = Sides
      /\ \A sd \in Sides : \A p \in DOMAIN levels[sd] :
            p \in Prices /\ levels[sd][p] \in Level
  BY DEF BookInv, BookTyped
<1>5. /\ cell' \in [Slots -> Order]
      /\ \A x \in Slots : x # s => cell'[x] = cell[x]
  BY <1>1, <1>3, <1>4
<1>6. BookTyped'
  BY <1>1, <1>4, <1>5 DEF BookTyped
<1>7. /\ \A x \in live : cell[x].id \in 1 .. next_id - 1 /\ cell[x].price \in Prices
      /\ \A x, t \in live : cell[x].id = cell[t].id => x = t
      /\ \A id \in DOMAIN index :
            /\ index[id] \in live /\ cell[index[id]].id = id
            /\ cell[index[id]].price \in DOMAIN levels[cell[index[id]].side]
  BY DEF BookInv, IndexInv
<1>8. \A x \in live : x \in Slots
  BY DEF BookInv, PoolInv
<1>9. \A id \in DOMAIN index : index[id] \in live' /\ cell'[index[id]] = cell[index[id]]
  <2> TAKE id \in DOMAIN index
  <2>1. index[id] # s
    BY <1>1, <1>7
  <2> QED
    BY <1>1, <1>5, <1>7, <1>8, <2>1
<1>10. IndexInv'
  <2>1. \A x \in live' : x \in live /\ cell'[x] = cell[x]
    BY <1>1, <1>5, <1>8
  <2> QED
    BY <1>1, <1>7, <1>9, <2>1 DEF IndexInv
<1>11. ASSUME NEW sd \in Sides, NEW p \in DOMAIN levels[sd],
              NEW c, ListOf(cell, index, sd, p, levels[sd][p], c)
       PROVE  ListOf(cell', index', sd, p, levels'[sd][p], c)
  <2>1. \A x \in Slots : cell[x].id \in DOMAIN index /\ index[cell[x].id] = x => cell'[x] = cell[x]
    BY <1>9
  <2>2. index' = index /\ levels' = levels
    BY <1>1
  <2>3. ListOf(cell', index, sd, p, levels[sd][p], c)
    BY <1>9, <1>11, <2>1, ListStays
  <2> QED
    BY <2>2, <2>3
<1>12. LevelsInv'
  BY <1>1, <1>4, <1>11 DEF BookInv, LevelsInv
<1>13. \A sd \in Sides : \A p : LineStays(sd, p) /\ TotalStays(sd, p)
  BY <1>1, <1>11 DEF LineStays, TotalStays, Lined
<1>14. \A id \in DOMAIN index : OrderStays(index[id])
  BY <1>9 DEF OrderStays
<1> QED
  BY <1>2, <1>6, <1>10, <1>12, <1>13, <1>14 DEF BookInv

LEMMA ClearKeepsBook ==
    ASSUME BookInv, Clear
    PROVE  /\ BookInv'
           /\ \A sd \in Sides : DOMAIN levels'[sd] = {}
<1>1. /\ index' = << >> /\ levels' = NoLevels
      /\ UNCHANGED poolVars /\ cell' = cell /\ live' = live /\ next_id' = next_id
  BY DEF Clear
<1>2. DOMAIN << >> = {}
  OBVIOUS
<1>3. DOMAIN levels' = Sides /\ \A sd \in Sides : DOMAIN levels'[sd] = {}
  BY <1>1, <1>2 DEF NoLevels
<1>4. BookTyped'
  BY <1>1, <1>3 DEF BookInv, BookTyped
<1>5. PoolInv'
  BY <1>1, PoolUntouched DEF BookInv
<1>6. DOMAIN index' = {}
  BY <1>1, <1>2
<1>7. IndexInv'
  BY <1>1, <1>6 DEF BookInv, IndexInv
<1>8. LevelsInv'
  BY <1>3 DEF LevelsInv
<1> QED
  BY <1>3, <1>4, <1>5, <1>7, <1>8 DEF BookInv

LEMMA FillKeepsBook ==
    ASSUME BookInv, NEW id \in Ids, NEW qty \in 1 .. MaxFill, FillOrder(id, qty)
    PROVE  /\ BookInv'
           /\ \A sd \in Sides : \A p : LineStays(sd, p)
           /\ \A sd \in Sides : \A p :
                 ~ (sd = cell[index[id]].side /\ p = cell[index[id]].price) => TotalStays(sd, p)
           /\ cell[index[id]].side \in Sides
           /\ cell[index[id]].price \in DOMAIN levels[cell[index[id]].side]
           /\ DOMAIN levels'[cell[index[id]].side] = DOMAIN levels[cell[index[id]].side]
           /\ levels'[cell[index[id]].side][cell[index[id]].price].total_quantity =
                 levels[cell[index[id]].side][cell[index[id]].price].total_quantity - qty
           /\ index[id] \in Slots
           /\ qty <= cell[index[id]].remaining
           /\ cell'[index[id]].id = cell[index[id]].id
           /\ cell'[index[id]].remaining = cell[index[id]].remaining - qty
           /\ \A x \in Slots : x # index[id] => OrderStays(x)
<1> DEFINE s == index[id]
           sd0 == cell[s].side
           p0 == cell[s].price
<1>1. /\ id \in DOMAIN index /\ qty <= cell[s].remaining
      /\ cell' = [cell EXCEPT ![s].remaining = @ - qty]
      /\ levels' = [levels EXCEPT ![sd0][p0].total_quantity = @ - qty]
      /\ UNCHANGED poolVars /\ live' = live /\ next_id' = next_id /\ index' = index
  BY DEF FillOrder
<1>2. /\ cell \in [Slots -> Order] /\ next_id \in Nat /\ next_id >= 1
      /\ DOMAIN levels = Sides
      /\ \A sd \in Sides : \A p \in DOMAIN levels[sd] :
            p \in Prices /\ levels[sd][p] \in Level
  BY DEF BookInv, BookTyped
<1>3. /\ \A x \in live : cell[x].id \in 1 .. next_id - 1 /\ cell[x].price \in Prices
      /\ \A x, t \in live : cell[x].id = cell[t].id => x = t
      /\ \A i \in DOMAIN index :
            /\ index[i] \in live /\ cell[index[i]].id = i
            /\ cell[index[i]].price \in DOMAIN levels[cell[index[i]].side]
  BY DEF BookInv, IndexInv
<1>4. live \subseteq Slots
  BY DEF BookInv, PoolInv
<1>5. s \in Slots /\ cell[s] \in Order /\ sd0 \in Sides /\ p0 \in DOMAIN levels[sd0]
  <2>1. s \in live /\ s \in Slots
    BY <1>1, <1>3, <1>4
  <2>2. cell[s] \in Order
    BY <1>2, <2>1
  <2> QED
    BY <1>1, <1>3, <2>1, <2>2 DEF Order
<1>6. cell[s].remaining - qty \in Nat
  <2>1. cell[s].remaining \in Nat /\ qty \in Nat
    BY <1>5, OrderBookAssumption DEF Order
  <2> QED
    BY <1>1, <2>1
<1> DEFINE less == [cell[s] EXCEPT !.remaining = cell[s].remaining - qty]
           l0 == levels[sd0][p0]
           l1 == [l0 EXCEPT !.total_quantity = l0.total_quantity - qty]
<1>7. /\ less \in Order
      /\ less.id = cell[s].id /\ less.side = cell[s].side /\ less.price = cell[s].price
      /\ less.prev = cell[s].prev /\ less.next = cell[s].next
  <2> HIDE DEF s
  <2> QED
    BY <1>5, <1>6 DEF Order
<1>8. /\ l1 \in Level
      /\ l1.order_count = l0.order_count /\ l1.head = l0.head /\ l1.tail = l0.tail
  <2>1. l0 \in Level
    BY <1>2, <1>5
  <2>2. qty \in Int
    OBVIOUS
  <2> HIDE DEF l0
  <2>3. l0.total_quantity - qty \in Int
    BY <2>1, <2>2 DEF Level
  <2> QED
    BY <2>1, <2>3 DEF Level
<1>9. cell' = [cell EXCEPT ![s] = less]
  BY <1>1, <1>2, <1>5
<1>10. levels' = [levels EXCEPT ![sd0] = [levels[sd0] EXCEPT ![p0] = l1]]
  BY <1>1, <1>2, <1>5
<1> HIDE DEF s, sd0, p0, less, l0, l1
<1>11. /\ cell' \in [Slots -> Order]
       /\ \A x \in Slots : /\ cell'[x].id = cell[x].id /\ cell'[x].side = cell[x].side
                           /\ cell'[x].price = cell[x].price
                           /\ cell'[x].prev = cell[x].prev /\ cell'[x].next = cell[x].next
  BY <1>2, <1>5, <1>7, <1>9
<1>12. /\ DOMAIN levels' = Sides
       /\ levels'[sd0] = [levels[sd0] EXCEPT ![p0] = l1]
       /\ \A sd \in Sides : sd # sd0 => levels'[sd] = levels[sd]
  BY <1>2, <1>5, <1>10
<1>13. /\ DOMAIN levels'[sd0] = DOMAIN levels[sd0]
       /\ levels'[sd0][p0] = l1
       /\ \A p \in DOMAIN levels[sd0] : p # p0 => levels'[sd0][p] = levels[sd0][p]
  BY <1>5, <1>12
<1>14. \A sd \in Sides : DOMAIN levels'[sd] = DOMAIN levels[sd]
  BY <1>12, <1>13
<1>15. \A sd \in Sides : \A p \in DOMAIN levels[sd] :
          /\ levels'[sd][p] \in Level
          /\ levels'[sd][p].order_count = levels[sd][p].order_count
          /\ levels'[sd][p].head = levels[sd][p].head
          /\ levels'[sd][p].tail = levels[sd][p].tail
  <2> TAKE sd \in Sides
  <2> TAKE p \in DOMAIN levels[sd]
  <2>1. CASE sd = sd0 /\ p = p0
    BY <1>8, <1>13, <2>1 DEF l0
  <2>2. CASE ~ (sd = sd0 /\ p = p0)
    BY <1>2, <1>12, <1>13, <2>2
  <2> QED
    BY <2>1, <2>2
<1>16. BookTyped'
  BY <1>1, <1>2, <1>11, <1>12, <1>14, <1>15 DEF BookTyped
<1>17. PoolInv'
  BY <1>1, PoolUntouched DEF BookInv
<1>18. IndexInv'
  <2>1. \A x \in live : /\ cell'[x].id = cell[x].id /\ cell'[x].side = cell[x].side
                        /\ cell'[x].price = cell[x].price /\ cell[x].side \in Sides
    <3>1. \A x \in Slots : cell[x].side \in Sides
      BY <1>2 DEF Order
    <3> QED
      BY <1>4, <1>11, <3>1
  <2>2. \A i \in DOMAIN index : cell'[index[i]].price \in DOMAIN levels'[cell'[index[i]].side]
    BY <1>3, <1>14, <2>1
  <2> QED
    BY <1>1, <1>3, <2>1, <2>2 DEF IndexInv
<1>19. ASSUME NEW sd \in Sides, NEW p \in DOMAIN levels[sd],
              NEW c, ListOf(cell, index, sd, p, levels[sd][p], c)
       PROVE  ListOf(cell', index', sd, p, levels'[sd][p], c)
  <2>1. \A i \in DOMAIN index : index[i] \in Slots
    BY <1>3, <1>4
  <2>2. index' = index
    BY <1>1
  <2>3. ListOf(cell', index, sd, p, levels'[sd][p], c)
    BY <1>11, <1>15, <1>19, <2>1, ListStays
  <2> QED
    BY <2>2, <2>3
<1>20. LevelsInv'
  BY <1>14, <1>19 DEF BookInv, LevelsInv
<1>21. \A sd \in Sides : \A p : LineStays(sd, p)
  BY <1>14, <1>15, <1>19 DEF LineStays, Lined
<1>22. /\ cell'[s].id = cell[s].id
       /\ cell'[s].remaining = cell[s].remaining - qty
  <2>1. cell'[s] = less
    BY <1>2, <1>5, <1>9
  <2>2. cell[s] \in Order
    BY <1>5
  <2> QED
    BY <2>1, <2>2 DEF less, Order
<1>23. \A x \in Slots : x # s => OrderStays(x)
  BY <1>2, <1>5, <1>9 DEF OrderStays
<1>24. ASSUME NEW sd \in Sides, NEW p, ~ (sd = sd0 /\ p = p0)
       PROVE  TotalStays(sd, p)
  BY <1>12, <1>13, <1>24 DEF TotalStays
<1>25. /\ DOMAIN levels'[sd0] = DOMAIN levels[sd0]
       /\ levels'[sd0][p0].total_quantity = levels[sd0][p0].total_quantity - qty
  <2>1. l0 \in Level
    BY <1>2, <1>5 DEF l0
  <2>2. l1.total_quantity = l0.total_quantity - qty
    BY <2>1 DEF l1, Level
  <2> QED
    BY <1>13, <2>2 DEF l0
<1>26. BookInv'
  BY <1>16, <1>17, <1>18, <1>20 DEF BookInv
<1> QED
  BY <1>1, <1>5, <1>21, <1>22, <1>23, <1>24, <1>25, <1>26 DEF s, sd0, p0

LEMMA AddKeepsBook ==
    ASSUME BookInv, NEW s \in Slots, AddOrder(s)
    PROVE  /\ BookInv'
           /\ cell[s].side \in Sides /\ cell[s].price \in Prices
           /\ \A sd \in Sides : \A p :
                 ~ (sd = cell[s].side /\ p = cell[s].price) =>
                    LineStays(sd, p) /\ TotalStays(sd, p)
           /\ \A c, n :
                 Lined(cell, index, levels[cell[s].side], cell[s].side, cell[s].price, c, n) =>
                    /\ n \in Nat
                    /\ Lined(cell', index', levels'[cell[s].side], cell[s].side, cell[s].price,
                             Extended(c, n, s), n + 1)
           /\ cell[s].price \in DOMAIN levels'[cell[s].side]
           /\ levels'[cell[s].side][cell[s].price].total_quantity =
                 LevelOf(cell[s]).total_quantity + cell[s].remaining
           /\ \A x \in Slots : OrderStays(x)
<1> DEFINE o == cell[s]
           sd0 == cell[s].side
           p0 == cell[s].price
           l == LevelOf(cell[s])
           l2 == LevelWith(s, l)
<1>1. /\ s \in live /\ o.id \notin DOMAIN index
      /\ index' = [i \in DOMAIN index \cup {o.id} |-> IF i = o.id THEN s ELSE index[i]]
      /\ cell' = Linked(s, l)
      /\ levels' = [levels EXCEPT ![sd0] =
                       [p \in DOMAIN levels[sd0] \cup {p0} |->
                           IF p = p0 THEN l2 ELSE levels[sd0][p]]]
      /\ UNCHANGED poolVars /\ live' = live /\ next_id' = next_id
  BY DEF AddOrder, InBook
<1>2. /\ cell \in [Slots -> Order] /\ next_id \in Nat /\ next_id >= 1
      /\ DOMAIN levels = Sides
      /\ \A sd \in Sides : \A p \in DOMAIN levels[sd] :
            p \in Prices /\ levels[sd][p] \in Level
  BY DEF BookInv, BookTyped
<1>3. /\ \A x \in live : cell[x].id \in 1 .. next_id - 1 /\ cell[x].price \in Prices
      /\ \A x, t \in live : cell[x].id = cell[t].id => x = t
      /\ \A i \in DOMAIN index :
            /\ index[i] \in live /\ cell[index[i]].id = i
            /\ cell[index[i]].price \in DOMAIN levels[cell[index[i]].side]
  BY DEF BookInv, IndexInv
<1>4. live \subseteq Slots
  BY DEF BookInv, PoolInv
<1>5. o \in Order /\ sd0 \in Sides /\ p0 \in Prices
  <2>1. o \in Order
    BY <1>2
  <2> QED
    BY <1>1, <1>3, <2>1 DEF Order
<1>6. /\ l \in Level
      /\ p0 \in DOMAIN levels[sd0] => l = levels[sd0][p0]
      /\ p0 \notin DOMAIN levels[sd0] => l.order_count = 0 /\ l.tail = Null
  <2>1. CASE p0 \in DOMAIN levels[sd0]
    BY <1>2, <1>5, <2>1 DEF LevelOf
  <2>2. CASE p0 \notin DOMAIN levels[sd0]
    BY <2>2 DEF LevelOf, NewLevel, Level
  <2> QED
    BY <2>1, <2>2
<1>7. /\ l2.order_count = l.order_count + 1
      /\ l2.head = (IF l.tail = Null THEN s ELSE l.head)
      /\ l2.tail = s
      /\ l2 \in Level
  <2> HIDE DEF l
  <2>1. /\ l.total_quantity \in Int /\ l.order_count \in Nat
        /\ l.head \in Slots \cup {Null} /\ cell[s].remaining \in Nat
    BY <1>5, <1>6 DEF Level, Order
  <2> QED
    BY <2>1 DEF LevelWith, Level
<1>8. \A x \in Slots : cell'[x] = IF x = s THEN [cell[s] EXCEPT !.prev = l.tail, !.next = Null]
                                  ELSE IF x = l.tail THEN [cell[x] EXCEPT !.next = s]
                                  ELSE cell[x]
  BY <1>1 DEF Linked
<1>9. DOMAIN cell' = Slots /\ cell' = [x \in Slots |-> cell'[x]]
  BY <1>1 DEF Linked
<1> HIDE DEF l, l2
<1>10. l.tail \in Slots \cup {Null}
  BY <1>6 DEF Level
<1>11. ASSUME NEW x \in Slots
       PROVE  /\ cell'[x] \in Order
              /\ cell'[x].id = cell[x].id /\ cell'[x].side = cell[x].side
              /\ cell'[x].price = cell[x].price /\ cell'[x].remaining = cell[x].remaining
              /\ x = s => cell'[x].prev = l.tail /\ cell'[x].next = Null
              /\ x # s => /\ cell'[x].prev = cell[x].prev
                          /\ cell'[x].next = IF x = l.tail THEN s ELSE cell[x].next
  <2>1. cell[x] \in Order
    BY <1>2
  <2>2. CASE x = s
    <3>1. cell'[x] = [cell[x] EXCEPT !.prev = l.tail, !.next = Null]
      BY <1>8, <2>2
    <3> QED
      BY <1>10, <2>1, <2>2, <3>1 DEF Order
  <2>3. CASE x # s /\ x = l.tail
    <3>1. cell'[x] = [cell[x] EXCEPT !.next = s]
      BY <1>8, <2>3
    <3> QED
      BY <2>1, <2>3, <3>1 DEF Order
  <2>4. CASE x # s /\ x # l.tail
    <3>1. cell'[x] = cell[x]
      BY <1>8, <2>4
    <3> QED
      BY <2>1, <2>4, <3>1
  <2> QED
    BY <2>2, <2>3, <2>4
<1>12. cell' \in [Slots -> Order]
  BY <1>9, <1>11
<1>13. /\ DOMAIN levels' = Sides
       /\ levels'[sd0] = [p \in DOMAIN levels[sd0] \cup {p0} |->
                             IF p = p0 THEN l2 ELSE levels[sd0][p]]
       /\ \A sd \in Sides : sd # sd0 => levels'[sd] = levels[sd]
  BY <1>1, <1>2, <1>5
<1>14. /\ DOMAIN levels'[sd0] = DOMAIN levels[sd0] \cup {p0}
       /\ levels'[sd0][p0] = l2
       /\ \A p \in DOMAIN levels[sd0] : p # p0 => levels'[sd0][p] = levels[sd0][p]
  BY <1>13
<1>15. /\ DOMAIN index' = DOMAIN index \cup {o.id}
       /\ index'[o.id] = s
       /\ \A i \in DOMAIN index : index'[i] = index[i] /\ i # o.id
  BY <1>1
<1> HIDE DEF o, sd0, p0
<1>16. BookTyped'
  <2>1. \A sd \in Sides : \A p \in DOMAIN levels'[sd] : p \in Prices /\ levels'[sd][p] \in Level
    BY <1>2, <1>5, <1>7, <1>13, <1>14
  <2> QED
    BY <1>1, <1>2, <1>12, <1>13, <2>1 DEF BookTyped
<1>17. PoolInv'
  BY <1>1, PoolUntouched DEF BookInv
<1>18. \A x \in live : /\ cell'[x].id = cell[x].id /\ cell'[x].side = cell[x].side
                       /\ cell'[x].price = cell[x].price /\ cell[x].side \in Sides
  <2>1. \A x \in Slots : cell[x].side \in Sides
    BY <1>2 DEF Order
  <2> QED
    BY <1>4, <1>11, <2>1
<1>19. IndexInv'
  <2>1. \A i \in DOMAIN index : cell'[index[i]].price \in DOMAIN levels'[cell'[index[i]].side]
    <3> TAKE i \in DOMAIN index
    <3>1. cell'[index[i]].price = cell[index[i]].price
          /\ cell'[index[i]].side = cell[index[i]].side /\ cell[index[i]].side \in Sides
          /\ cell[index[i]].price \in DOMAIN levels[cell[index[i]].side]
      BY <1>3, <1>18
    <3> QED
      BY <1>13, <1>14, <3>1
  <2>2. cell'[s].price \in DOMAIN levels'[cell'[s].side] /\ cell'[s].id = o.id
    BY <1>1, <1>14, <1>18 DEF o, sd0, p0
  <2>3. \A i \in DOMAIN index' :
            /\ index'[i] \in live' /\ cell'[index'[i]].id = i
            /\ cell'[index'[i]].price \in DOMAIN levels'[cell'[index'[i]].side]
    <3> TAKE i \in DOMAIN index'
    <3>1. CASE i = o.id
      BY <1>1, <1>15, <2>2, <3>1
    <3>2. CASE i \in DOMAIN index
      BY <1>1, <1>3, <1>15, <1>18, <2>1, <3>2
    <3> QED
      BY <1>15, <3>1, <3>2
  <2>4. \A x \in live' : cell'[x].id \in 1 .. next_id' - 1 /\ cell'[x].price \in Prices
    BY <1>1, <1>3, <1>18
  <2>5. \A x, t \in live' : cell'[x].id = cell'[t].id => x = t
    BY <1>1, <1>3, <1>18
  <2> QED
    BY <2>3, <2>4, <2>5 DEF IndexInv
\* Another level has neither s nor the tail that s is linked to.
<1>20. ASSUME NEW sd \in Sides, NEW p \in DOMAIN levels[sd], ~ (sd = sd0 /\ p = p0)
       PROVE  /\ p \in DOMAIN levels'[sd] /\ levels'[sd][p] = levels[sd][p]
              /\ \A c : ListOf(cell, index, sd, p, levels[sd][p], c) =>
                           ListOf(cell', index', sd, p, levels'[sd][p], c)
  <2>1. p \in DOMAIN levels'[sd] /\ levels'[sd][p] = levels[sd][p]
    BY <1>13, <1>14, <1>20
  <2>2. l.tail \in Slots => cell[l.tail].side = sd0 /\ cell[l.tail].price = p0
    <3> SUFFICES ASSUME l.tail \in Slots
                 PROVE  cell[l.tail].side = sd0 /\ cell[l.tail].price = p0
      OBVIOUS
    <3>1. p0 \in DOMAIN levels[sd0] /\ l = levels[sd0][p0]
      BY <1>6, SlotFacts
    <3>2. PICK c0 : ListOf(cell, index, sd0, p0, l, c0)
      BY <1>5, <3>1 DEF BookInv, LevelsInv
    <3>3. l.order_count \in 1 .. l.order_count
      BY <3>2, InLevel
    <3> QED
      BY <3>2, <3>3, InLevel
  <2>3. ASSUME NEW x \in Slots, cell[x].id \in DOMAIN index, index[cell[x].id] = x,
               cell[x].side = sd, cell[x].price = p
        PROVE  /\ cell'[x].prev = cell[x].prev /\ cell'[x].next = cell[x].next
               /\ cell'[x].id = cell[x].id
               /\ cell'[x].side = sd /\ cell'[x].price = p
               /\ cell[x].id \in DOMAIN index' /\ index'[cell[x].id] = x
    <3>1. x # s /\ x # l.tail
      BY <1>1, <1>20, <2>2, <2>3 DEF o, sd0, p0
    <3> QED
      BY <1>11, <1>15, <2>3, <3>1
  <2>4. ASSUME NEW i \in DOMAIN index', cell'[index'[i]].side = sd, cell'[index'[i]].price = p
        PROVE  /\ i \in DOMAIN index /\ index[i] = index'[i]
               /\ cell[index[i]].side = sd /\ cell[index[i]].price = p
    <3>1. i # o.id
      <4>1. cell'[s].side = sd0 /\ cell'[s].price = p0
        BY <1>1, <1>18 DEF sd0, p0
      <4> QED
        BY <1>15, <1>20, <2>4, <4>1
    <3> QED
      BY <1>3, <1>15, <1>18, <2>4, <3>1
  <2>5. ASSUME NEW c, ListOf(cell, index, sd, p, levels[sd][p], c)
        PROVE  ListOf(cell', index', sd, p, levels[sd][p], c)
    BY <2>3, <2>4, <2>5, ListStays
  <2> QED
    BY <2>1, <2>5
<1>21. ASSUME NEW c, NEW n, Lined(cell, index, levels[sd0], sd0, p0, c, n)
       PROVE  /\ n \in Nat /\ l2.order_count = n + 1
              /\ ListOf(cell', index', sd0, p0, l2, Extended(c, n, s))
  <2>1. cell'[s].id = o.id /\ cell'[s].side = sd0 /\ cell'[s].price = p0
    BY <1>11 DEF o, sd0, p0
  <2>2. cell'[s].prev = l.tail /\ cell'[s].next = Null
    BY <1>11
  <2>3. CASE p0 \in DOMAIN levels[sd0]
    <3> DEFINE d == Extended(c, n, s)
    <3>1. ListOf(cell, index, sd0, p0, l, c) /\ n = l.order_count
      BY <1>6, <1>21, <2>3 DEF Lined
    <3>2. /\ n \in Nat /\ n >= 1 /\ l.tail = c[n]
          /\ \A i \in 1 .. n : /\ c[i] \in Slots
                               /\ cell[c[i]].id \in DOMAIN index
                               /\ index[cell[c[i]].id] = c[i]
                               /\ cell[c[i]].side = sd0 /\ cell[c[i]].price = p0
      BY <3>1, InLevel
    <3>3. \A i \in 1 .. n : c[i] # s
      BY <1>1, <3>2 DEF o
    <3>4. l.tail # Null
      <4>1. n \in 1 .. n
        BY <3>2
      <4> QED
        BY <3>2, <4>1, SlotFacts
    <3>5. Linear(cell', l2, d)
      <4>1. Linear(cell, l, c)
        BY <3>1 DEF ListOf
      <4>2. l2.order_count = l.order_count + 1 /\ l2.head = l.head /\ l2.tail = s
        BY <1>7, <3>4
      <4>3. \A x \in Slots : x # s =>
              /\ cell'[x].prev = cell[x].prev
              /\ cell'[x].next = IF x = l.tail THEN s ELSE cell[x].next
        BY <1>11
      <4> QED
        BY <2>2, <3>1, <3>3, <4>1, <4>2, <4>3, LinearAppend
    <3>6. d[n + 1] = s /\ \A i \in 1 .. n : d[i] = c[i]
      BY <3>2 DEF Extended
    <3>7. \A i \in 1 .. n + 1 : i = n + 1 \/ i \in 1 .. n
      BY <3>2
    <3> HIDE DEF d
    <3>8. ASSUME NEW i \in 1 .. n + 1
          PROVE  /\ cell'[d[i]].id \in DOMAIN index'
                 /\ index'[cell'[d[i]].id] = d[i]
                 /\ cell'[d[i]].side = sd0 /\ cell'[d[i]].price = p0
      <4>1. CASE i = n + 1
        BY <1>15, <2>1, <3>6, <4>1
      <4>2. CASE i \in 1 .. n
        <5>1. /\ d[i] = c[i] /\ cell'[c[i]].id = cell[c[i]].id
              /\ cell'[c[i]].side = sd0 /\ cell'[c[i]].price = p0
          BY <1>11, <3>2, <3>6, <4>2
        <5> QED
          BY <1>15, <3>2, <4>2, <5>1
      <4> QED
        BY <3>7, <4>1, <4>2
    <3>9. ASSUME NEW i \in DOMAIN index', cell'[index'[i]].side = sd0, cell'[index'[i]].price = p0
          PROVE  \E k \in 1 .. n + 1 : d[k] = index'[i]
      <4>1. CASE i = o.id
        <5>1. n + 1 \in 1 .. n + 1
          BY <3>2
        <5> QED
          BY <1>15, <3>6, <4>1, <5>1
      <4>2. CASE i \in DOMAIN index
        <5>1. cell[index[i]].side = sd0 /\ cell[index[i]].price = p0 /\ index'[i] = index[i]
          BY <1>3, <1>15, <1>18, <3>9, <4>2
        <5>2. PICK k \in 1 .. n : c[k] = index[i]
          BY <3>1, <4>2, <5>1 DEF ListOf, Holds
        <5>3. k \in 1 .. n + 1
          BY <3>2
        <5> QED
          BY <3>6, <5>1, <5>2, <5>3
      <4> QED
        BY <1>15, <4>1, <4>2
    <3>10. l2.order_count = n + 1
      BY <1>7, <3>1
    <3>11. Holds(cell', index', sd0, p0, d, n + 1)
      BY <3>8, <3>9 DEF Holds
    <3>12. ListOf(cell', index', sd0, p0, l2, d)
      BY <3>5, <3>10, <3>11 DEF ListOf
    <3> QED
      BY <3>2, <3>10, <3>12 DEF d
  <2>4. CASE p0 \notin DOMAIN levels[sd0]
    <3> DEFINE d == Only(s)
    <3>1. l2.order_count = 1 /\ l2.head = s /\ l2.tail = s /\ l.tail = Null
      BY <1>6, <1>7, <2>4
    <3>2. Linear(cell', l2, d)
      BY <2>2, <3>1, LinearStart
    <3>3. d[1] = s
      BY DEF Only
    <3> HIDE DEF d
    <3>4. \A i \in 1 .. 1 : i = 1
      OBVIOUS
    <3>5. \A i \in DOMAIN index' :
             cell'[index'[i]].side = sd0 /\ cell'[index'[i]].price = p0 => index'[i] = s
      BY <1>3, <1>15, <1>18, <2>4
    <3>6. Holds(cell', index', sd0, p0, d, 1)
      BY <1>15, <2>1, <3>3, <3>4, <3>5 DEF Holds
    <3>7. ListOf(cell', index', sd0, p0, l2, d)
      BY <3>1, <3>2, <3>6 DEF ListOf
    <3>8. n = 0
      BY <1>21, <2>4 DEF Lined
    <3>9. Extended(c, n, s) = d
      BY <3>8 DEF Extended, d, Only
    <3> QED
      BY <3>1, <3>7, <3>8, <3>9
  <2> QED
    BY <2>3, <2>4
<1>22. \E c, n : Lined(cell, index, levels[sd0], sd0, p0, c, n)
  BY <1>5 DEF BookInv, LevelsInv, Lined
<1>23. LevelsInv'
  <2> SUFFICES ASSUME NEW sd \in Sides, NEW p \in DOMAIN levels'[sd]
               PROVE  \E c : ListOf(cell', index', sd, p, levels'[sd][p], c)
    BY DEF LevelsInv
  <2>1. CASE sd = sd0 /\ p = p0
    BY <1>14, <1>21, <1>22, <2>1
  <2>2. CASE ~ (sd = sd0 /\ p = p0)
    <3>1. p \in DOMAIN levels[sd]
      BY <1>13, <1>14, <2>2
    <3>2. PICK c : ListOf(cell, index, sd, p, levels[sd][p], c)
      BY <3>1 DEF BookInv, LevelsInv
    <3> QED
      BY <1>20, <2>2, <3>1, <3>2
  <2> QED
    BY <2>1, <2>2
<1>24. ASSUME NEW sd \in Sides, NEW p, ~ (sd = sd0 /\ p = p0)
       PROVE  LineStays(sd, p) /\ TotalStays(sd, p)
  <2>1. p \in DOMAIN levels'[sd] => p \in DOMAIN levels[sd]
    BY <1>13, <1>14, <1>24
  <2> QED
    BY <1>20, <1>24, <2>1 DEF LineStays, TotalStays, Lined
<1>25. ASSUME NEW c, NEW n, Lined(cell, index, levels[sd0], sd0, p0, c, n)
       PROVE  n \in Nat /\ Lined(cell', index', levels'[sd0], sd0, p0, Extended(c, n, s), n + 1)
  BY <1>14, <1>21, <1>25 DEF Lined
<1>26. levels'[sd0][p0].total_quantity = LevelOf(cell[s]).total_quantity + cell[s].remaining
  BY <1>14 DEF l2, LevelWith, l
<1>27. \A x \in Slots : OrderStays(x)
  BY <1>11 DEF OrderStays
<1> QED
  BY <1>5, <1>14, <1>16, <1>17, <1>19, <1>23, <1>24, <1>25, <1>26, <1>27 DEF BookInv, sd0, p0

LEMMA RemoveKeepsBook ==
    ASSUME BookInv, NEW gone \in Ids, RemoveOrder(gone)
    PROVE  /\ BookInv'
           /\ index[gone] \in Slots
           /\ cell[index[gone]].side \in Sides
           /\ cell[index[gone]].price \in DOMAIN levels[cell[index[gone]].side]
           /\ \A sd \in Sides : \A p :
                 ~ (sd = cell[index[gone]].side /\ p = cell[index[gone]].price) =>
                    LineStays(sd, p) /\ TotalStays(sd, p)
           /\ cell[index[gone]].price \in DOMAIN levels'[cell[index[gone]].side] =>
                 levels'[cell[index[gone]].side][cell[index[gone]].price].total_quantity =
                    levels[cell[index[gone]].side][cell[index[gone]].price].total_quantity
                       - cell[index[gone]].remaining
           /\ \A c, n :
                 Lined(cell, index, levels[cell[index[gone]].side],
                       cell[index[gone]].side, cell[index[gone]].price, c, n) =>
                    \E k \in 1 .. n :
                       /\ c[k] = index[gone]
                       /\ Lined(cell', index', levels'[cell[index[gone]].side],
                                cell[index[gone]].side, cell[index[gone]].price,
                                Without(c, n, k), n - 1)
           /\ \A x \in Slots : OrderStays(x)
<1> DEFINE s == index[gone]
           sd0 == cell[s].side
           p0 == cell[s].price
           before == cell[s].prev
           after == cell[s].next
           l == levels[sd0][p0]
           l2 == LevelWithout(s, l)
<1>1. /\ \A x \in live : cell[x].id \in 1 .. next_id - 1 /\ cell[x].price \in Prices
      /\ \A x, t \in live : cell[x].id = cell[t].id => x = t
      /\ \A i \in DOMAIN index :
            /\ index[i] \in live /\ cell[index[i]].id = i
            /\ cell[index[i]].price \in DOMAIN levels[cell[index[i]].side]
  BY DEF BookInv, IndexInv
<1>2. /\ cell \in [Slots -> Order] /\ next_id \in Nat /\ next_id >= 1
      /\ DOMAIN levels = Sides
      /\ \A sd \in Sides : \A p \in DOMAIN levels[sd] :
            p \in Prices /\ levels[sd][p] \in Level
  BY DEF BookInv, BookTyped
<1>3. live \subseteq Slots
  BY DEF BookInv, PoolInv
<1>4. gone \in DOMAIN index
  BY DEF RemoveOrder
<1>5. s \in live /\ s \in Slots /\ cell[s].id = gone /\ p0 \in DOMAIN levels[sd0]
  BY <1>1, <1>3, <1>4
<1>6. cell[s] \in Order
  BY <1>2, <1>5
<1>7. sd0 \in Sides /\ before \in Slots \cup {Null} /\ after \in Slots \cup {Null}
  BY <1>6 DEF Order
<1>8. LevelOf(cell[s]) = l
  BY <1>5 DEF LevelOf
<1>9. /\ cell' = Unlinked(s)
      /\ levels' = [levels EXCEPT ![sd0] =
                       IF l2.order_count = 0
                       THEN Keep(levels[sd0], DOMAIN levels[sd0] \ {p0})
                       ELSE [levels[sd0] EXCEPT ![p0] = l2]]
      /\ index' = Keep(index, DOMAIN index \ {gone})
      /\ UNCHANGED poolVars /\ live' = live /\ next_id' = next_id
  BY <1>2, <1>7, <1>8 DEF RemoveOrder
<1>10. /\ cell' = [x \in Slots |-> cell'[x]]
       /\ \A x \in Slots : cell'[x] = IF x = s THEN [cell[s] EXCEPT !.prev = Null, !.next = Null]
                                      ELSE IF x = before THEN [cell[x] EXCEPT !.next = after]
                                      ELSE IF x = after THEN [cell[x] EXCEPT !.prev = before]
                                      ELSE cell[x]
  BY <1>9 DEF Unlinked
<1>11. l \in Level
  BY <1>2, <1>5, <1>7
<1>12. /\ l2.order_count = l.order_count - 1
       /\ l2.head = (IF before = Null THEN after ELSE l.head)
       /\ l2.tail = (IF after = Null THEN before ELSE l.tail)
       /\ l2.total_quantity = l.total_quantity - cell[s].remaining
       /\ l2 = [total_quantity |-> l2.total_quantity, order_count |-> l2.order_count,
                head |-> l2.head, tail |-> l2.tail]
  BY DEF LevelWithout
<1>13. /\ DOMAIN levels' = Sides
       /\ l2.order_count = 0 => levels'[sd0] = Keep(levels[sd0], DOMAIN levels[sd0] \ {p0})
       /\ l2.order_count # 0 => levels'[sd0] = [levels[sd0] EXCEPT ![p0] = l2]
       /\ \A sd \in Sides : sd # sd0 => levels'[sd] = levels[sd]
  BY <1>2, <1>7, <1>9
<1>14. /\ DOMAIN index' = DOMAIN index \ {gone}
       /\ \A i \in DOMAIN index : i # gone => index'[i] = index[i]
  BY <1>9 DEF Keep
<1>15. PICK c : ListOf(cell, index, sd0, p0, l, c)
  BY <1>5, <1>7 DEF BookInv, LevelsInv
<1> DEFINE n == l.order_count
<1> HIDE DEF s, sd0, p0, before, after, l, l2
<1>16. /\ n \in Nat /\ n >= 1
       /\ \A i \in 1 .. n :
             /\ c[i] \in Slots
             /\ cell[c[i]].id \in DOMAIN index
             /\ index[cell[c[i]].id] = c[i]
             /\ cell[c[i]].side = sd0 /\ cell[c[i]].price = p0
             /\ cell[c[i]].prev = IF i = 1 THEN Null ELSE c[i - 1]
             /\ cell[c[i]].next = IF i = n THEN Null ELSE c[i + 1]
       /\ \A i, j \in 1 .. n : c[i] = c[j] => i = j
  BY <1>15, InLevel
<1>17. \A i \in DOMAIN index :
           cell[index[i]].side = sd0 /\ cell[index[i]].price = p0 => \E k \in 1 .. n : c[k] = index[i]
  BY <1>15 DEF ListOf, Holds
<1>18. PICK k \in 1 .. n : c[k] = s
  BY <1>4, <1>17 DEF s, sd0, p0
<1>19. /\ before = IF k = 1 THEN Null ELSE c[k - 1]
       /\ after = IF k = n THEN Null ELSE c[k + 1]
  BY <1>16, <1>18 DEF before, after
<1>20. \A x \in Slots : x = before \/ x = after => cell[x].side = sd0 /\ cell[x].price = p0
  BY <1>15, <1>18, NeighboursInLevel DEF before, after
<1>21. n = l.order_count
  OBVIOUS
<1> HIDE DEF n
<1>22. before \in Slots => before # after /\ before # s
  <2> SUFFICES ASSUME before \in Slots
               PROVE  before # after /\ before # s
    OBVIOUS
  <2>1. k # 1 /\ before = c[k - 1] /\ k - 1 \in 1 .. n /\ k - 1 # k
    BY <1>16, <1>19, SlotFacts
  <2>2. before # s
    BY <1>16, <1>18, <2>1
  <2>3. CASE k = n
    <3>1. after = Null /\ Null \notin Slots
      BY <1>19, <2>3, SlotFacts
    <3> QED
      BY <2>2, <3>1
  <2>4. CASE k # n
    <3>1. k + 1 \in 1 .. n /\ k - 1 # k + 1
      BY <1>16, <2>4
    <3>2. c[k - 1] # c[k + 1]
      BY <1>16, <2>1, <3>1
    <3>3. after = c[k + 1]
      BY <1>19, <2>4
    <3> QED
      BY <2>1, <2>2, <3>2, <3>3
  <2> QED
    BY <2>3, <2>4
<1>23. ASSUME NEW x \in Slots
       PROVE  /\ cell'[x] \in Order
              /\ cell'[x].id = cell[x].id /\ cell'[x].side = cell[x].side
              /\ cell'[x].price = cell[x].price /\ cell'[x].remaining = cell[x].remaining
              /\ x # s => /\ cell'[x].next = IF x = before THEN after ELSE cell[x].next
                          /\ cell'[x].prev = IF x = after THEN before ELSE cell[x].prev
  <2>1. cell[x] \in Order
    BY <1>2
  <2>2. CASE x = s
    <3>1. cell'[x] = [cell[x] EXCEPT !.prev = Null, !.next = Null]
      BY <1>10, <2>2
    <3> QED
      BY <2>1, <2>2, <3>1 DEF Order
  <2>3. CASE x # s /\ x = before
    <3>1. cell'[x] = [cell[x] EXCEPT !.next = after] /\ x # after
      BY <1>10, <1>22, <2>3
    <3> QED
      BY <1>7, <2>1, <2>3, <3>1 DEF Order
  <2>4. CASE x # s /\ x # before /\ x = after
    <3>1. cell'[x] = [cell[x] EXCEPT !.prev = before]
      BY <1>10, <2>4
    <3> QED
      BY <1>7, <2>1, <2>4, <3>1 DEF Order
  <2>5. CASE x # s /\ x # before /\ x # after
    <3>1. cell'[x] = cell[x]
      BY <1>10, <2>5
    <3> QED
      BY <2>1, <2>5, <3>1
  <2> QED
    BY <2>2, <2>3, <2>4, <2>5
<1>24. cell' \in [Slots -> Order]
  BY <1>10, <1>23
<1>25. /\ n = 1 => l2.order_count = 0
       /\ n # 1 => l2.order_count # 0 /\ l2.order_count = n - 1 /\ n > 1
  BY <1>12, <1>16, <1>21
<1>26. l2 \in Level
  <2>1. l.total_quantity \in Int /\ l.order_count \in Nat
        /\ l.head \in Slots \cup {Null} /\ l.tail \in Slots \cup {Null}
        /\ cell[s].remaining \in Nat
    BY <1>6, <1>11 DEF Level, Order
  <2>2. l2.order_count \in Nat /\ l2.total_quantity \in Int
    BY <1>12, <1>16, <1>21, <2>1
  <2> QED
    BY <1>7, <1>12, <2>1, <2>2 DEF Level
<1>27. /\ n = 1 => /\ DOMAIN levels'[sd0] = DOMAIN levels[sd0] \ {p0}
       /\ n # 1 => /\ DOMAIN levels'[sd0] = DOMAIN levels[sd0]
                   /\ levels'[sd0][p0] = l2
       /\ \A p \in DOMAIN levels[sd0] : p # p0 => levels'[sd0][p] = levels[sd0][p]
  <2>1. CASE n = 1
    BY <1>13, <1>25, <2>1 DEF Keep
  <2>2. CASE n # 1
    BY <1>5, <1>13, <1>25, <2>2
  <2> QED
    BY <2>1, <2>2
<1>28. BookTyped'
  <2>1. \A sd \in Sides : \A p \in DOMAIN levels'[sd] : p \in Prices /\ levels'[sd][p] \in Level
    BY <1>2, <1>5, <1>13, <1>26, <1>27
  <2> QED
    BY <1>2, <1>9, <1>13, <1>24, <2>1 DEF BookTyped
<1>29. PoolInv'
  BY <1>9, PoolUntouched DEF BookInv
<1>30. \A x \in live : /\ cell'[x].id = cell[x].id /\ cell'[x].side = cell[x].side
                       /\ cell'[x].price = cell[x].price /\ cell[x].side \in Sides
  <2>1. \A x \in Slots : cell[x].side \in Sides
    BY <1>2 DEF Order
  <2> QED
    BY <1>3, <1>23, <2>1
<1>31. \A i \in DOMAIN index' : i \in DOMAIN index /\ i # gone /\ index'[i] = index[i] /\ index[i] # s
  BY <1>1, <1>5, <1>14
\* With one order in the level, that order is s.
<1>32. \A i \in DOMAIN index' : n = 1 => ~ (cell[index[i]].side = sd0 /\ cell[index[i]].price = p0)
  BY <1>17, <1>18, <1>31
<1>33. IndexInv'
  <2>1. \A x \in live' : cell'[x].id \in 1 .. next_id' - 1 /\ cell'[x].price \in Prices
    BY <1>1, <1>9, <1>30
  <2>2. \A x, t \in live' : cell'[x].id = cell'[t].id => x = t
    BY <1>1, <1>9, <1>30
  <2>3. ASSUME NEW i \in DOMAIN index'
        PROVE  /\ index'[i] \in live' /\ cell'[index'[i]].id = i
               /\ cell'[index'[i]].price \in DOMAIN levels'[cell'[index'[i]].side]
    <3>1. index'[i] \in live' /\ cell'[index'[i]].id = i
      <4>1. index'[i] = index[i] /\ index[i] \in live /\ cell[index[i]].id = i
        BY <1>1, <1>31
      <4> QED
        BY <1>9, <1>30, <4>1
    <3>2. cell'[index'[i]].price = cell[index[i]].price
          /\ cell'[index'[i]].side = cell[index[i]].side /\ cell[index[i]].side \in Sides
          /\ cell[index[i]].price \in DOMAIN levels[cell[index[i]].side]
      BY <1>1, <1>30, <1>31
    <3>3. cell[index[i]].price \in DOMAIN levels'[cell[index[i]].side]
      BY <1>13, <1>27, <1>32, <3>2
    <3> QED
      BY <3>1, <3>2, <3>3
  <2> QED
    BY <2>1, <2>2, <2>3 DEF IndexInv
\* Another level has neither s nor a neighbour of s.
<1>34. ASSUME NEW sd \in Sides, NEW p \in DOMAIN levels[sd], ~ (sd = sd0 /\ p = p0)
       PROVE  /\ levels'[sd][p] = levels[sd][p]
              /\ \A d : ListOf(cell, index, sd, p, levels[sd][p], d) =>
                           ListOf(cell', index', sd, p, levels'[sd][p], d)
  <2>1. levels'[sd][p] = levels[sd][p]
    BY <1>13, <1>27, <1>34
  <2>2. ASSUME NEW x \in Slots, cell[x].id \in DOMAIN index, index[cell[x].id] = x,
               cell[x].side = sd, cell[x].price = p
        PROVE  /\ cell'[x].prev = cell[x].prev /\ cell'[x].next = cell[x].next
               /\ cell'[x].id = cell[x].id
               /\ cell'[x].side = sd /\ cell'[x].price = p
               /\ cell[x].id \in DOMAIN index' /\ index'[cell[x].id] = x
    <3>1. x # s /\ x # before /\ x # after
      BY <1>20, <1>34, <2>2 DEF sd0, p0
    <3>2. cell[x].id # gone
      BY <2>2, <3>1 DEF s
    <3> QED
      BY <1>14, <1>23, <2>2, <3>1, <3>2
  <2>3. ASSUME NEW i \in DOMAIN index', cell'[index'[i]].side = sd, cell'[index'[i]].price = p
        PROVE  /\ i \in DOMAIN index /\ index[i] = index'[i]
               /\ cell[index[i]].side = sd /\ cell[index[i]].price = p
    BY <1>1, <1>30, <1>31, <2>3
  <2>4. ASSUME NEW d, ListOf(cell, index, sd, p, levels[sd][p], d)
        PROVE  ListOf(cell', index', sd, p, levels[sd][p], d)
    BY <2>2, <2>3, <2>4, ListStays
  <2> QED
    BY <2>1, <2>4
<1>35. n # 1 => ListOf(cell', index', sd0, p0, l2, Without(c, n, k))
  <2> SUFFICES ASSUME n # 1
               PROVE  ListOf(cell', index', sd0, p0, l2, Without(c, n, k))
    OBVIOUS
  <2> DEFINE d == Without(c, n, k)
  <2>1. n > 1 /\ l2.order_count = n - 1
    BY <1>25
  <2>2. Linear(cell', l2, d)
    <3>1. Linear(cell, l, c)
      BY <1>15 DEF ListOf
    <3>2. /\ cell[c[k]].prev = before /\ cell[c[k]].next = after
      BY <1>18 DEF before, after
    <3>3. /\ l.order_count > 1 /\ k \in 1 .. l.order_count
          /\ l2.order_count = l.order_count - 1
      BY <1>21, <2>1
    <3>4. l2.head = IF cell[c[k]].prev = Null THEN cell[c[k]].next ELSE l.head
      BY <1>12, <3>2
    <3>5. l2.tail = IF cell[c[k]].next = Null THEN cell[c[k]].prev ELSE l.tail
      BY <1>12, <3>2
    <3>6. \A x \in Slots : x # c[k] =>
              /\ cell'[x].next = IF x = cell[c[k]].prev THEN cell[c[k]].next ELSE cell[x].next
              /\ cell'[x].prev = IF x = cell[c[k]].next THEN cell[c[k]].prev ELSE cell[x].prev
      BY <1>18, <1>23, <3>2
    <3>7. Linear(cell', l2, Without(c, l.order_count, k))
      BY <3>1, <3>3, <3>4, <3>5, <3>6, LinearRemove
    <3> QED
      BY <1>21, <3>7
  <2>3. \A i \in 1 .. n - 1 : /\ i < k => d[i] = c[i] /\ i \in 1 .. n
                              /\ ~ (i < k) => d[i] = c[i + 1] /\ i + 1 \in 1 .. n
    BY <1>16 DEF Without
  <2> HIDE DEF d
  <2>4. ASSUME NEW i \in 1 .. n - 1
        PROVE  \E j \in 1 .. n : d[i] = c[j] /\ j # k
    <3>1. i \in Nat /\ k \in Nat
      BY <1>16
    <3>2. CASE i < k
      BY <2>3, <3>1, <3>2
    <3>3. CASE ~ (i < k)
      <4>1. i + 1 # k
        BY <3>1, <3>3
      <4> QED
        BY <2>3, <3>3, <4>1
    <3> QED
      BY <3>2, <3>3
  <2>5. ASSUME NEW i \in 1 .. n - 1
        PROVE  /\ cell'[d[i]].id \in DOMAIN index'
               /\ index'[cell'[d[i]].id] = d[i]
               /\ cell'[d[i]].side = sd0 /\ cell'[d[i]].price = p0
    <3>1. PICK j \in 1 .. n : d[i] = c[j] /\ j # k
      BY <2>4
    <3>2. /\ c[j] \in Slots /\ c[j] # s
          /\ cell[c[j]].id \in DOMAIN index /\ index[cell[c[j]].id] = c[j]
          /\ cell[c[j]].side = sd0 /\ cell[c[j]].price = p0
      BY <1>16, <1>18, <3>1
    <3>3. cell[c[j]].id # gone
      BY <3>2 DEF s
    <3> QED
      BY <1>14, <1>23, <3>1, <3>2, <3>3
  <2>6. ASSUME NEW i \in DOMAIN index', cell'[index'[i]].side = sd0, cell'[index'[i]].price = p0
        PROVE  \E j \in 1 .. n - 1 : d[j] = index'[i]
    <3>1. /\ i \in DOMAIN index /\ index'[i] = index[i] /\ index[i] # s
          /\ cell[index[i]].side = sd0 /\ cell[index[i]].price = p0
      BY <1>1, <1>30, <1>31, <2>6
    <3>2. PICK j \in 1 .. n : c[j] = index[i]
      BY <1>17, <3>1
    <3>3. j # k
      BY <1>18, <3>1, <3>2
    <3>4. CASE j < k
      <4>1. j \in 1 .. n - 1
        BY <1>16, <3>4
      <4> QED
        BY <2>3, <3>1, <3>2, <3>4, <4>1
    <3>5. CASE j > k
      <4>1. j - 1 \in 1 .. n - 1 /\ ~ (j - 1 < k) /\ (j - 1) + 1 = j
        BY <1>16, <3>5
      <4> QED
        BY <2>3, <3>1, <3>2, <4>1
    <3> QED
      BY <1>16, <3>3, <3>4, <3>5
  <2>7. Holds(cell', index', sd0, p0, d, n - 1)
    BY <2>5, <2>6 DEF Holds
  <2>8. ListOf(cell', index', sd0, p0, l2, d)
    BY <2>1, <2>2, <2>7 DEF ListOf
  <2> QED
    BY <2>8 DEF d
<1>36. LevelsInv'
  <2> SUFFICES ASSUME NEW sd \in Sides, NEW p \in DOMAIN levels'[sd]
               PROVE  \E d : ListOf(cell', index', sd, p, levels'[sd][p], d)
    BY DEF LevelsInv
  <2>1. CASE sd = sd0 /\ p = p0
    BY <1>27, <1>35, <2>1
  <2>2. CASE ~ (sd = sd0 /\ p = p0)
    <3>1. p \in DOMAIN levels[sd]
      BY <1>13, <1>27, <2>2
    <3>2. PICK d : ListOf(cell, index, sd, p, levels[sd][p], d)
      BY <3>1 DEF BookInv, LevelsInv
    <3> QED
      BY <1>34, <2>2, <3>1, <3>2
  <2> QED
    BY <2>1, <2>2
<1>37. ASSUME NEW sd \in Sides, NEW p, ~ (sd = sd0 /\ p = p0)
       PROVE  LineStays(sd, p) /\ TotalStays(sd, p)
  <2>1. p \in DOMAIN levels'[sd] <=> p \in DOMAIN levels[sd]
    BY <1>13, <1>27, <1>37
  <2> QED
    BY <1>34, <1>37, <2>1 DEF LineStays, TotalStays, Lined
\* The list is the one list of its level.
<1>38. ASSUME NEW b, NEW m, Lined(cell, index, levels[sd0], sd0, p0, b, m)
       PROVE  \E j \in 1 .. m :
                 /\ b[j] = s
                 /\ Lined(cell', index', levels'[sd0], sd0, p0, Without(b, m, j), m - 1)
  <2>1. m = n /\ ListOf(cell, index, sd0, p0, l, b)
    BY <1>5, <1>21, <1>38 DEF Lined, l
  <2>2. \A i \in 1 .. n : b[i] = c[i]
    BY <1>15, <1>21, <2>1, SameList DEF ListOf
  <2>3. Without(b, m, k) = Without(c, n, k)
    <3>1. \A i \in 1 .. n - 1 : i \in 1 .. n /\ i + 1 \in 1 .. n
      BY <1>16
    <3> QED
      BY <2>1, <2>2, <3>1 DEF Without
  <2>4. Lined(cell', index', levels'[sd0], sd0, p0, Without(c, n, k), n - 1)
    <3>1. CASE n = 1
      BY <1>27, <3>1 DEF Lined
    <3>2. CASE n # 1
      <4>1. levels'[sd0][p0] = l2 /\ p0 \in DOMAIN levels'[sd0] /\ l2.order_count = n - 1
        BY <1>5, <1>25, <1>27, <3>2
      <4> QED
        BY <1>35, <3>2, <4>1 DEF Lined
    <3> QED
      BY <3>1, <3>2
  <2> QED
    BY <1>18, <2>1, <2>2, <2>3, <2>4
<1>39. p0 \in DOMAIN levels'[sd0] =>
          levels'[sd0][p0].total_quantity = l.total_quantity - cell[s].remaining
  BY <1>12, <1>27
<1>40. \A x \in Slots : OrderStays(x)
  BY <1>23 DEF OrderStays
<1>41. BookInv'
  BY <1>28, <1>29, <1>33, <1>36 DEF BookInv
<1> QED
  BY <1>5, <1>7, <1>37, <1>38, <1>39, <1>40, <1>41 DEF s, sd0, p0, l

LEMMA InitIsConsistent == Init => BookInv
<1> SUFFICES ASSUME Init
             PROVE  BookInv
  OBVIOUS
<1>1. /\ free_slots = Null /\ link = [s \in Slots |-> Null] /\ current_slot = 1 /\ blocks = 1
      /\ cell = [s \in Slots |-> Blank] /\ live = {} /\ next_id = 1
      /\ index = << >> /\ levels = NoLevels
  BY DEF Init, Pool!Init, Null, Slots
<1>2. DOMAIN << >> = {}
  OBVIOUS
<1>3. DOMAIN levels = Sides /\ \A sd \in Sides : DOMAIN levels[sd] = {}
  BY <1>1, <1>2 DEF NoLevels
<1>4. BookTyped
  <2>1. Blank \in Order
    BY DEF Blank, Order, Sides
  <2> QED
    BY <1>1, <1>3, <2>1 DEF BookTyped
<1>5. PoolInv
  <2> DEFINE f == [i \in {} |-> Null]
  <2>1. Returned(free_slots, link, f, 0)
    BY <1>1 DEF Returned
  <2>2. Split(current_slot, live, f, 0)
    BY <1>1, SlotFacts DEF Split
  <2>3. \E n \in Nat : \E g : Returned(free_slots, link, g, n) /\ Split(current_slot, live, g, n)
    <3> HIDE DEF f
    <3> QED
      BY <2>1, <2>2
  <2>4. blocks \in 1 .. MaxBlocks /\ blocks * BlockSize + 1 >= 1
    <3>1. blocks * BlockSize = BlockSize
      BY <1>1, SlotFacts
    <3> QED
      BY <1>1, <3>1, SlotFacts
  <2> QED
    BY <1>1, <2>3, <2>4 DEF PoolInv
<1>6. IndexInv
  BY <1>1, <1>2 DEF IndexInv
<1>7. LevelsInv
  BY <1>3 DEF LevelsInv
<1> QED
  BY <1>4, <1>5, <1>6, <1>7 DEF BookInv

LEMMA NextKeepsBook ==
    ASSUME BookInv, [Next]_vars
    PROVE  BookInv'
<1>1. CASE Next
  <2>1. ASSUME NEW side \in Sides, NEW price \in Prices, NEW qty \in Quantities,
               Construct(side, price, qty)
        PROVE  BookInv'
    BY <2>1, ConstructKeepsBook
  <2>2. ASSUME NEW s \in Slots, AddOrder(s)
        PROVE  BookInv'
    BY <2>2, AddKeepsBook
  <2>3. ASSUME NEW s \in Slots, Destroy(s)
        PROVE  BookInv'
    BY <2>3, DestroyKeepsBook
  <2>4. ASSUME NEW id \in Ids, RemoveOrder(id)
        PROVE  BookInv'
    BY <2>4, RemoveKeepsBook
  <2>5. ASSUME NEW id \in Ids, NEW qty \in 1 .. MaxFill, FillOrder(id, qty)
        PROVE  BookInv'
    BY <2>5, FillKeepsBook
  <2>6. CASE Clear
    BY <2>6, ClearKeepsBook
  <2> QED
    BY <1>1, <2>1, <2>2, <2>3, <2>4, <2>5, <2>6 DEF Next
<1>2. CASE UNCHANGED vars
  <2>1. /\ free_slots' = free_slots /\ link' = link /\ current_slot' = current_slot
        /\ blocks' = blocks /\ cell' = cell /\ live' = live /\ next_id' = next_id
        /\ index' = index /\ levels' = levels
    BY <1>2 DEF vars, poolVars, bookVars
  <2>2. BookTyped'
    BY <2>1 DEF BookInv, BookTyped
  <2>3. PoolInv'
    BY <2>1 DEF BookInv, PoolInv
  <2>4. IndexInv'
    BY <2>1 DEF BookInv, IndexInv
  <2>5. LevelsInv'
    BY <2>1 DEF BookInv, LevelsInv
  <2> QED
    BY <2>2, <2>3, <2>4, <2>5 DEF BookInv
<1> QED
  BY <1>1, <1>2

\* The invariant behind the lists (orderbook.hpp:27, memory_pool.hpp:38): whatever
\* the caller does, there is for every level a list of the orders indexed at
\* its side and price, linked both ways, and a list of the returned slots,
\* which nobody holds.
THEOREM BookIsConsistent == Spec => []BookInv
<1>1. Init => BookInv
  BY InitIsConsistent
<1>2. BookInv /\ [Next]_vars => BookInv'
  BY NextKeepsBook
<1> QED
  BY <1>1, <1>2, PTL DEF Spec

-----------------------------------------------------------------------------
(* The walks along the pointers give the lists                             *)

ChainRound(nodes, l, g, i) ==
    IF i = 1 THEN l.head
    ELSE IF g[i - 1] \in Slots THEN nodes[g[i - 1]].next ELSE Null
IsChain(nodes, l, g) == g = [i \in 1 .. l.order_count |-> ChainRound(nodes, l, g, i)]

LEMMA ChainAt ==
    ASSUME NEW nodes, NEW l, NEW g, IsChain(nodes, l, g), NEW i \in 1 .. l.order_count
    PROVE  g[i] = ChainRound(nodes, l, g, i)
<1> DEFINE h == [j \in 1 .. l.order_count |-> ChainRound(nodes, l, g, j)]
<1>1. g = h
  BY DEF IsChain
<1>2. h[i] = ChainRound(nodes, l, g, i)
  OBVIOUS
<1> HIDE DEF h
<1> QED
  BY <1>1, <1>2

LEMMA ChainExists ==
    ASSUME NEW nodes, NEW l, NEW c, Linear(nodes, l, c)
    PROVE  \E g : IsChain(nodes, l, g)
<1> DEFINE n == l.order_count
           g == [i \in 1 .. n |-> c[i]]
<1>1. /\ n \in Nat /\ n >= 1 /\ l.head = c[1]
      /\ \A i \in 1 .. n : c[i] \in Slots /\ nodes[c[i]].next = IF i = n THEN Null ELSE c[i + 1]
  BY DEF Linear
<1>2. \A i \in 1 .. n : g[i] = c[i]
  OBVIOUS
<1>3. g = [i \in 1 .. n |-> g[i]]
  OBVIOUS
<1> HIDE DEF g
<1>4. ASSUME NEW i \in 1 .. n
      PROVE  g[i] = ChainRound(nodes, l, g, i)
  <2>1. CASE i = 1
    BY <1>1, <1>2, <2>1 DEF ChainRound
  <2>2. CASE i # 1
    <3>1. i - 1 \in 1 .. n /\ i - 1 # n /\ (i - 1) + 1 = i
      BY <1>1, <2>2
    <3>2. g[i - 1] \in Slots /\ nodes[g[i - 1]].next = c[i]
      BY <1>1, <1>2, <3>1
    <3> QED
      BY <1>2, <2>2, <3>2 DEF ChainRound
  <2> QED
    BY <2>1, <2>2
<1>5. IsChain(nodes, l, g)
  BY <1>3, <1>4 DEF IsChain
<1> QED
  BY <1>5

LEMMA ChainIsList ==
    ASSUME NEW nodes, NEW l, NEW c, Linear(nodes, l, c),
           NEW g, IsChain(nodes, l, g), NEW i \in 1 .. l.order_count
    PROVE  g[i] = c[i]
<1> DEFINE n == l.order_count
           Good == { k \in Nat : k + 1 \in 1 .. n => g[k + 1] = c[k + 1] }
<1>1. /\ n \in Nat /\ n >= 1 /\ l.head = c[1]
      /\ \A k \in 1 .. n : c[k] \in Slots /\ nodes[c[k]].next = IF k = n THEN Null ELSE c[k + 1]
  BY DEF Linear
<1>2. \A k \in 1 .. n : g[k] = ChainRound(nodes, l, g, k)
  BY ChainAt
<1> HIDE DEF n
<1>3. 0 \in Good
  <2>1. 1 \in 1 .. n
    BY <1>1
  <2>2. g[1] = c[1]
    BY <1>1, <1>2, <2>1 DEF ChainRound
  <2>3. 0 + 1 = 1 /\ 0 \in Nat
    OBVIOUS
  <2> QED
    BY <2>2, <2>3
<1>4. ASSUME NEW k \in Nat, k \in Good
      PROVE  k + 1 \in Good
  <2> SUFFICES ASSUME (k + 1) + 1 \in 1 .. n
               PROVE  g[(k + 1) + 1] = c[(k + 1) + 1]
    OBVIOUS
  <2>1. /\ k + 1 \in 1 .. n /\ k + 1 # n /\ (k + 1) + 1 # 1
        /\ ((k + 1) + 1) - 1 = k + 1
    BY <1>1
  <2>2. g[k + 1] = c[k + 1]
    BY <1>4, <2>1
  <2>3. g[k + 1] \in Slots /\ nodes[g[k + 1]].next = c[(k + 1) + 1]
    BY <1>1, <2>1, <2>2
  <2> QED
    BY <1>2, <2>1, <2>3 DEF ChainRound
<1> HIDE DEF Good
<1>5. i - 1 \in Nat /\ (i - 1) + 1 = i /\ i \in 1 .. n
  BY <1>1 DEF n
<1>6. i - 1 \in Good
  BY <1>3, <1>4, <1>5, NatSetInduction
<1> QED
  BY <1>5, <1>6 DEF Good

LEMMA ChainGivesList ==
    ASSUME NEW l, NEW c, Linear(cell, l, c)
    PROVE  /\ DOMAIN Chain(l) = 1 .. l.order_count
           /\ \A i \in 1 .. l.order_count : Chain(l)[i] = c[i]
<1> DEFINE at == CHOOSE g : IsChain(cell, l, g)
<1>1. IsChain(cell, l, at)
  BY ChainExists
<1>2. Chain(l) = [i \in 1 .. l.order_count |-> at[i]]
  BY DEF Chain, IsChain, ChainRound
<1> HIDE DEF at
<1>3. \A i \in 1 .. l.order_count : at[i] = c[i]
  BY <1>1, ChainIsList
<1> QED
  BY <1>2, <1>3

FollowRound(head, links, g, i) ==
    IF i = 0 THEN head ELSE IF g[i - 1] = Null THEN Null ELSE links[g[i - 1]]
IsFollow(head, links, g, m) == g = [i \in 0 .. m |-> FollowRound(head, links, g, i)]

LEMMA FollowAt ==
    ASSUME NEW head, NEW links, NEW g, NEW m, IsFollow(head, links, g, m), NEW i \in 0 .. m
    PROVE  g[i] = FollowRound(head, links, g, i)
<1> DEFINE h == [j \in 0 .. m |-> FollowRound(head, links, g, j)]
<1>1. g = h
  BY DEF IsFollow
<1>2. h[i] = FollowRound(head, links, g, i)
  OBVIOUS
<1> HIDE DEF h
<1> QED
  BY <1>1, <1>2

\* The slot at each position of the walk, null when the list has ended.
Reached(f, n, i) == IF i < n THEN f[i + 1] ELSE Null

LEMMA FollowExists ==
    ASSUME NEW head, NEW links, NEW f, NEW n, Returned(head, links, f, n), NEW m \in Nat
    PROVE  \E g : IsFollow(head, links, g, m)
<1> DEFINE g == [i \in 0 .. m |-> Reached(f, n, i)]
<1>1. /\ n \in Nat /\ head = IF n = 0 THEN Null ELSE f[1]
      /\ \A i \in 1 .. n : f[i] \in Slots /\ links[f[i]] = IF i = n THEN Null ELSE f[i + 1]
  BY DEF Returned
<1>2. \A i \in 0 .. m : g[i] = Reached(f, n, i)
  OBVIOUS
<1>3. g = [i \in 0 .. m |-> g[i]]
  OBVIOUS
<1> HIDE DEF g
<1>4. ASSUME NEW i \in 0 .. m
      PROVE  g[i] = FollowRound(head, links, g, i)
  <2>1. CASE i = 0
    <3>1. 0 < n <=> n # 0
      BY <1>1
    <3>2. 0 + 1 = 1
      OBVIOUS
    <3> QED
      BY <1>1, <1>2, <2>1, <3>1, <3>2 DEF FollowRound, Reached
  <2>2. CASE i # 0
    <3>1. i - 1 \in 0 .. m /\ (i - 1) + 1 = i
      BY <2>2
    <3>2. g[i - 1] = Reached(f, n, i - 1)
      BY <1>2, <3>1
    <3>3. CASE i - 1 < n
      <4>1. i \in 1 .. n /\ (i < n <=> i # n)
        BY <1>1, <2>2, <3>3
      <4>2. g[i - 1] = f[i] /\ f[i] \in Slots
        BY <1>1, <3>1, <3>2, <3>3, <4>1 DEF Reached
      <4>3. g[i] = links[f[i]]
        BY <1>1, <1>2, <4>1 DEF Reached
      <4> QED
        BY <2>2, <4>2, <4>3, SlotFacts DEF FollowRound
    <3>4. CASE ~ (i - 1 < n)
      <4>1. ~ (i < n)
        BY <1>1, <3>4
      <4>2. g[i - 1] = Null /\ g[i] = Null
        BY <1>2, <3>2, <3>4, <4>1 DEF Reached
      <4> QED
        BY <2>2, <4>2 DEF FollowRound
    <3> QED
      BY <3>3, <3>4
  <2> QED
    BY <2>1, <2>2
<1>5. IsFollow(head, links, g, m)
  BY <1>3, <1>4 DEF IsFollow
<1> QED
  BY <1>5

LEMMA FollowReaches ==
    ASSUME NEW head, NEW links, NEW f, NEW n, Returned(head, links, f, n), NEW m \in Nat,
           NEW g, IsFollow(head, links, g, m), NEW i \in 0 .. m
    PROVE  g[i] = Reached(f, n, i)
<1> DEFINE Good == { k \in Nat : k <= m => g[k] = Reached(f, n, k) }
<1>1. /\ n \in Nat /\ head = IF n = 0 THEN Null ELSE f[1]
      /\ \A k \in 1 .. n : f[k] \in Slots /\ links[f[k]] = IF k = n THEN Null ELSE f[k + 1]
  BY DEF Returned
<1>2. \A k \in 0 .. m : g[k] = FollowRound(head, links, g, k)
  BY FollowAt
<1>3. 0 \in Good
  <2>1. 0 \in 0 .. m /\ 0 + 1 = 1 /\ (0 < n <=> n # 0)
    BY <1>1
  <2>2. g[0] = head
    BY <1>2, <2>1 DEF FollowRound
  <2>3. g[0] = Reached(f, n, 0)
    BY <1>1, <2>1, <2>2 DEF Reached
  <2> QED
    BY <2>3
<1>4. ASSUME NEW k \in Nat, k \in Good
      PROVE  k + 1 \in Good
  <2> SUFFICES ASSUME k + 1 <= m
               PROVE  g[k + 1] = Reached(f, n, k + 1)
    OBVIOUS
  <2>1. k <= m /\ k + 1 \in 0 .. m /\ k + 1 # 0 /\ (k + 1) - 1 = k
    OBVIOUS
  <2>2. g[k] = Reached(f, n, k)
    BY <1>4, <2>1
  <2>3. g[k + 1] = IF g[k] = Null THEN Null ELSE links[g[k]]
    BY <1>2, <2>1 DEF FollowRound
  <2>4. CASE k < n
    <3>1. k + 1 \in 1 .. n /\ (k + 1 < n <=> k + 1 # n)
      BY <1>1, <2>4
    <3>2. g[k] = f[k + 1] /\ f[k + 1] \in Slots
      BY <1>1, <2>2, <2>4, <3>1 DEF Reached
    <3>3. g[k + 1] = links[f[k + 1]]
      BY <2>3, <3>2, SlotFacts
    <3>4. links[f[k + 1]] = IF k + 1 = n THEN Null ELSE f[(k + 1) + 1]
      BY <1>1, <3>1
    <3> QED
      BY <3>1, <3>3, <3>4 DEF Reached
  <2>5. CASE ~ (k < n)
    <3>1. ~ (k + 1 < n)
      BY <1>1, <2>5
    <3> QED
      BY <2>2, <2>3, <2>5, <3>1 DEF Reached
  <2> QED
    BY <2>4, <2>5
<1> HIDE DEF Good
<1>5. i \in Good /\ i \in Nat /\ i <= m
  BY <1>3, <1>4, NatSetInduction
<1> QED
  BY <1>5 DEF Good

LEMMA FollowGivesList ==
    ASSUME NEW f, NEW n, Returned(free_slots, link, f, n), NEW m \in Nat
    PROVE  /\ DOMAIN Pool!Follow(m) = 1 .. m + 1
           /\ \A i \in 1 .. m + 1 : Pool!Follow(m)[i] = IF i <= n THEN f[i] ELSE Null
<1> DEFINE at == CHOOSE g : IsFollow(free_slots, link, g, m)
<1>1. IsFollow(free_slots, link, at, m)
  BY FollowExists
<1>2. Pool!Follow(m) = [i \in 1 .. m + 1 |-> at[i - 1]]
  BY DEF Pool!Follow, IsFollow, FollowRound, Null
<1> HIDE DEF at
<1>3. \A i \in 0 .. m : at[i] = Reached(f, n, i)
  BY <1>1, FollowReaches
<1>4. DOMAIN Pool!Follow(m) = 1 .. m + 1
  BY <1>2
<1>5. ASSUME NEW i \in 1 .. m + 1
      PROVE  Pool!Follow(m)[i] = IF i <= n THEN f[i] ELSE Null
  <2>1. i - 1 \in 0 .. m /\ (i - 1) + 1 = i
    OBVIOUS
  <2>2. n \in Nat
    BY DEF Returned
  <2>3. i - 1 < n <=> i <= n
    BY <2>2
  <2> QED
    BY <1>2, <1>3, <2>1, <2>3 DEF Reached
<1> QED
  BY <1>4, <1>5

-----------------------------------------------------------------------------
(* What the book and the pool promise                                      *)

LEMMA PoolConsistent ==
    ASSUME PoolInv
    PROVE  Pool!Consistent(live)
<1> DEFINE m == BlockSize * MaxBlocks
           list == Pool!Follow(m)
           returned == { list[i] : i \in DOMAIN list } \ {Null}
<1>1. /\ blocks \in 1 .. MaxBlocks
      /\ current_slot \in Nat /\ current_slot >= 1
      /\ current_slot <= blocks * BlockSize + 1
      /\ link \in [Slots -> Slots \cup {Null}]
      /\ live \subseteq Slots
  BY DEF PoolInv
<1>2. PICK n \in Nat : \E f : Returned(free_slots, link, f, n) /\ Split(current_slot, live, f, n)
  BY DEF PoolInv
<1>3. PICK f : Returned(free_slots, link, f, n) /\ Split(current_slot, live, f, n)
  BY <1>2
<1>4. /\ \A i \in 1 .. n : f[i] \in Slots /\ f[i] \notin live
      /\ \A i, j \in 1 .. n : f[i] = f[j] => i = j
      /\ \A s \in Slots : s < current_slot <=> s \in live \/ \E i \in 1 .. n : f[i] = s
  BY <1>3 DEF Returned, Split
<1>5. m \in Nat /\ Slots = 1 .. m /\ Null = 0 /\ Null \notin Slots
  BY SlotFacts
<1> HIDE DEF m
\* There are at most as many returned slots as slots.
<1>6. n <= m
  <2> DEFINE h == [i \in 1 .. n |-> f[i]]
  <2>1. h \in Injection(1 .. n, 1 .. m)
    BY <1>4, <1>5 DEF Injection, IsInjective
  <2> HIDE DEF h
  <2>2. /\ IsFiniteSet(1 .. m)
        /\ Cardinality(1 .. m) = IF 1 > m THEN 0 ELSE m - 1 + 1
        /\ Cardinality(1 .. n) = IF 1 > n THEN 0 ELSE n - 1 + 1
    BY <1>5, FS_Interval
  <2>3. Cardinality(1 .. n) <= Cardinality(1 .. m)
    BY <2>1, <2>2, FS_Injection
  <2> QED
    BY <1>5, <2>2, <2>3
<1>7. /\ DOMAIN list = 1 .. m + 1
      /\ \A i \in 1 .. m + 1 : list[i] = IF i <= n THEN f[i] ELSE Null
  BY <1>3, <1>5, FollowGivesList
<1> HIDE DEF list
<1>8. \A i, j \in DOMAIN list : list[i] = list[j] => i = j \/ list[i] = Null
  <2> TAKE i, j \in DOMAIN list
  <2>1. \A k \in DOMAIN list : k <= n => k \in 1 .. n
    BY <1>5, <1>7
  <2>2. CASE i <= n /\ j <= n
    BY <1>4, <1>7, <2>1, <2>2
  <2>3. CASE ~ (i <= n /\ j <= n)
    BY <1>7, <2>3
  <2> QED
    BY <2>2, <2>3
<1>9. ASSUME NEW s
      PROVE  s \in returned <=> \E i \in 1 .. n : f[i] = s
  <2>1. ASSUME s \in returned
        PROVE  \E i \in 1 .. n : f[i] = s
    <3>1. PICK i \in 1 .. m + 1 : list[i] = s /\ s # Null
      BY <1>7, <2>1
    <3>2. i \in 1 .. n
      BY <1>5, <1>7, <3>1
    <3> QED
      BY <1>7, <3>1, <3>2
  <2>2. ASSUME NEW i \in 1 .. n, f[i] = s
        PROVE  s \in returned
    <3>1. i \in 1 .. m + 1 /\ i <= n
      BY <1>5, <1>6
    <3> QED
      BY <1>4, <1>5, <1>7, <2>2, <3>1
  <2> QED
    BY <2>1, <2>2
<1>10. returned \cap live = {}
  BY <1>4, <1>9
<1>11. returned \cup live = 1 .. current_slot - 1
  <2>1. blocks * BlockSize <= m
    <3>1. blocks \in Nat /\ BlockSize \in Nat /\ MaxBlocks \in Nat /\ MaxBlocks - blocks \in Nat
      BY <1>1, SlotFacts
    <3>2. (MaxBlocks - blocks) * BlockSize \in Nat
      BY <3>1
    <3>3. m = blocks * BlockSize + (MaxBlocks - blocks) * BlockSize
      BY <3>1 DEF m
    <3>4. blocks * BlockSize \in Nat
      BY <3>1
    <3> QED
      BY <1>5, <3>2, <3>3, <3>4
  <2>2. blocks * BlockSize \in Nat
    BY <1>1, SlotFacts
  <2>3. \A s : s \in 1 .. current_slot - 1 <=> s \in Slots /\ s < current_slot
    BY <1>1, <1>5, <2>1, <2>2
  <2>4. \A s : s \in returned \cup live <=> s \in 1 .. current_slot - 1
    BY <1>1, <1>4, <1>9, <2>3
  <2> HIDE DEF returned
  <2> QED
    BY <2>4
<1>12. current_slot \in 1 .. Pool!LastSlot
  <2>1. blocks * BlockSize \in Nat
    BY <1>1, SlotFacts
  <2> QED
    BY <1>1, <2>1 DEF Pool!LastSlot
<1> QED
  BY <1>1, <1>8, <1>10, <1>11, <1>12 DEF Pool!Consistent, list, m, Null, Slots

\* A level, the slots along it and the orders indexed at its price fit.
OrdersAt(side, p) == { id \in DOMAIN index : /\ cell[index[id]].side = side
                                            /\ cell[index[id]].price = p }
Fits(l, c, orders) ==
    /\ l.order_count = Cardinality(orders) /\ orders # {}
    /\ ToSet(c) = { index[id] : id \in orders }
    /\ l.head = c[1] /\ l.tail = c[l.order_count]
    /\ \A i \in DOMAIN c :
          /\ cell[c[i]].prev = IF i = 1 THEN Null ELSE c[i - 1]
          /\ cell[c[i]].next = IF i = l.order_count THEN Null ELSE c[i + 1]

LEMMA ConsistentBookIsStructured == BookInv => StructureOK
<1> SUFFICES ASSUME BookInv
             PROVE  StructureOK
  OBVIOUS
<1>1. Pool!Consistent(live)
  BY PoolConsistent DEF BookInv
<1>2. live \subseteq Slots
  BY DEF BookInv, PoolInv
<1>3. \A s \in live : cell[s].id \in 1 .. next_id - 1 /\ cell[s].remaining \in Nat
  <2>1. \A s \in Slots : cell[s].remaining \in Nat
    BY DEF BookInv, BookTyped, Order
  <2> QED
    BY <1>2, <2>1 DEF BookInv, IndexInv
<1>4. \A id \in DOMAIN index : index[id] \in live /\ cell[index[id]].id = id
  BY DEF BookInv, IndexInv
<1>5. ASSUME NEW side \in Sides, NEW p \in DOMAIN levels[side],
             NEW l, l = levels[side][p], NEW ch, ch = Chain(l),
             NEW orders, orders = OrdersAt(side, p)
      PROVE  Fits(l, ch, orders)
  <2>1. PICK c : ListOf(cell, index, side, p, l, c)
    BY <1>5 DEF BookInv, LevelsInv
  <2> DEFINE n == l.order_count
  <2>2. /\ n \in Nat /\ n >= 1
        /\ l.head = c[1] /\ l.tail = c[n]
        /\ \A i \in 1 .. n :
              /\ c[i] \in Slots
              /\ cell[c[i]].id \in DOMAIN index
              /\ index[cell[c[i]].id] = c[i]
              /\ cell[c[i]].side = side /\ cell[c[i]].price = p
              /\ cell[c[i]].prev = IF i = 1 THEN Null ELSE c[i - 1]
              /\ cell[c[i]].next = IF i = n THEN Null ELSE c[i + 1]
        /\ \A i, j \in 1 .. n : c[i] = c[j] => i = j
    BY <2>1, InLevel
  <2>3. \A id \in orders : \E i \in 1 .. n : c[i] = index[id]
    BY <1>5, <2>1 DEF ListOf, Holds, OrdersAt
  <2>4. DOMAIN ch = 1 .. n /\ \A i \in 1 .. n : ch[i] = c[i]
    BY <1>5, <2>1, ChainGivesList DEF ListOf
  <2>5. \A i \in 1 .. n : cell[c[i]].id \in orders
    BY <1>5, <2>2 DEF OrdersAt
  <2>6. \A id \in orders : id \in DOMAIN index /\ cell[index[id]].id = id
    BY <1>4, <1>5 DEF OrdersAt
  <2> HIDE DEF n
  <2>7. n = Cardinality(orders)
    <3> DEFINE h == [i \in 1 .. n |-> cell[c[i]].id]
    <3>1. h \in [1 .. n -> orders]
      BY <2>5
    <3>2. \A i, j \in 1 .. n : h[i] = h[j] => i = j
      <4> TAKE i, j \in 1 .. n
      <4>1. h[i] = h[j] => c[i] = c[j]
        BY <2>2
      <4> QED
        BY <2>2, <4>1
    <3>3. \A id \in orders : \E i \in 1 .. n : h[i] = id
      BY <2>3, <2>6
    <3> HIDE DEF h
    <3>4. h \in Bijection(1 .. n, orders)
      BY <3>1, <3>2, <3>3 DEF Bijection, Injection, Surjection, IsInjective
    <3>5. ExistsBijection(1 .. n, orders)
      BY <3>4 DEF ExistsBijection
    <3> QED
      BY <2>2, <3>5, FS_CountingElements
  <2>8. orders # {}
    <3>1. 1 \in 1 .. n
      BY <2>2
    <3> QED
      BY <2>5, <3>1
  <2>9. ToSet(ch) = { index[id] : id \in orders }
    <3>1. ToSet(ch) = { c[i] : i \in 1 .. n }
      BY <2>4 DEF ToSet
    <3>2. ASSUME NEW i \in 1 .. n
          PROVE  \E id \in orders : c[i] = index[id]
      BY <2>2, <2>5
    <3> QED
      BY <2>3, <3>1, <3>2
  <2>10. l.head = ch[1] /\ l.tail = ch[n]
    <3>1. 1 \in 1 .. n /\ n \in 1 .. n
      BY <2>2
    <3> QED
      BY <2>2, <2>4, <3>1
  <2>11. ASSUME NEW i \in DOMAIN ch
         PROVE  /\ cell[ch[i]].prev = IF i = 1 THEN Null ELSE ch[i - 1]
                /\ cell[ch[i]].next = IF i = n THEN Null ELSE ch[i + 1]
    <3>1. i \in 1 .. n
      BY <2>4, <2>11
    <3>2. /\ i # 1 => i - 1 \in 1 .. n
          /\ i # n => i + 1 \in 1 .. n
      BY <2>2, <3>1
    <3> QED
      BY <2>2, <2>4, <3>1, <3>2
  <2> QED
    BY <2>7, <2>8, <2>9, <2>10, <2>11 DEF n, Fits
<1>6. \A side \in Sides : \A p \in DOMAIN levels[side] :
          Fits(levels[side][p], Chain(levels[side][p]), OrdersAt(side, p))
  BY <1>5
<1> QED
  BY <1>1, <1>3, <1>4, <1>6 DEF StructureOK, Fits, OrdersAt

\* Whatever is added, removed from the middle, filled, cleared or destroyed, the
\* orders of a level are one chain that reads the same from both ends
\* (orderbook.cpp:20), each of them indexed under its id, their number is the
\* level's count, and the pool's list holds just the slots that nobody holds
\* (memory_pool.hpp:38).
THEOREM BookStructureHolds == Spec => []StructureOK
<1>1. BookInv => StructureOK
  BY ConsistentBookIsStructured
<1> QED
  BY <1>1, BookIsConsistent, PTL

-----------------------------------------------------------------------------
(* The queues                                                              *)

\* What a queue says of an order, and the queue of the n slots in c.
QOrder == [id : Nat, qty : Nat]
QueueOf(nodes, c, n) == [i \in 1 .. n |-> [id |-> nodes[c[i]].id, qty |-> nodes[c[i]].remaining]]

\* The walk along a level gives the queue of its list.
QueuesFollowLines ==
    \A side \in Sides : \A p, c, n :
        Lined(cell, index, levels[side], side, p, c, n) => QueueAt(side, p) = QueueOf(cell, c, n)

\* The queue read along the pointers is that of the list.
LEMMA QueuesAreLines == QueuesFollowLines
<1> SUFFICES ASSUME NEW side \in Sides, NEW p, NEW c, NEW n,
                    Lined(cell, index, levels[side], side, p, c, n)
             PROVE  QueueAt(side, p) = QueueOf(cell, c, n)
  BY DEF QueuesFollowLines
<1> DEFINE l == LevelOf([side |-> side, price |-> p])
           ch == Chain(l)
<1>1. l = IF p \in DOMAIN levels[side] THEN levels[side][p] ELSE NewLevel
  BY DEF LevelOf
<1>2. DOMAIN ch = 1 .. n /\ \A i \in 1 .. n : ch[i] = c[i] /\ c[i] \in Slots
  <2>1. CASE p \in DOMAIN levels[side]
    <3>1. l.order_count = n /\ Linear(cell, l, c)
      BY <1>1, <2>1 DEF Lined, ListOf
    <3> HIDE DEF l
    <3>2. DOMAIN ch = 1 .. n /\ \A i \in 1 .. n : ch[i] = c[i]
      BY <3>1, ChainGivesList
    <3>3. \A i \in 1 .. n : c[i] \in Slots
      BY <3>1 DEF Linear
    <3> QED
      BY <3>2, <3>3
  <2>2. CASE p \notin DOMAIN levels[side]
    <3>1. l.order_count = 0 /\ n = 0
      BY <1>1, <2>2 DEF NewLevel, Lined
    <3> HIDE DEF l
    <3>2. DOMAIN ch = 1 .. 0
      BY <3>1 DEF Chain
    <3> QED
      BY <3>1, <3>2
  <2> QED
    BY <2>1, <2>2
<1>3. QueueAt(side, p) = [i \in DOMAIN ch |-> IF ch[i] \in Slots
                            THEN [id |-> cell[ch[i]].id, qty |-> cell[ch[i]].remaining]
                            ELSE [id |-> 0, qty |-> 0]]
  BY DEF QueueAt
<1> HIDE DEF ch
<1> QED
  BY <1>2, <1>3 DEF QueueOf

\* Every price of a side has its list, empty when it has no level.
LEMMA LinesExist ==
    ASSUME BookInv, NEW side \in Sides, NEW p
    PROVE  \E c : \E n \in Nat : Lined(cell, index, levels[side], side, p, c, n)
<1>1. CASE p \in DOMAIN levels[side]
  <2>1. PICK c : ListOf(cell, index, side, p, levels[side][p], c)
    BY <1>1 DEF BookInv, LevelsInv
  <2>2. levels[side][p].order_count \in Nat
    BY <2>1, InLevel
  <2> QED
    BY <1>1, <2>1, <2>2 DEF Lined
<1>2. CASE p \notin DOMAIN levels[side]
  BY <1>2 DEF Lined
<1> QED
  BY <1>1, <1>2

\* The order in slot x is in the book, on this side and at this price.
BookedAt(x, side, p) ==
    /\ x \in Slots /\ cell[x] \in Order
    /\ cell[x].id \in DOMAIN index /\ index[cell[x].id] = x
    /\ cell[x].side = side /\ cell[x].price = p

\* The orders of a list are in the book, on its side and at its price.
LEMMA InLine ==
    ASSUME BookInv, NEW side \in Sides, NEW p, NEW c, NEW n,
           Lined(cell, index, levels[side], side, p, c, n)
    PROVE  \A i \in 1 .. n : BookedAt(c[i], side, p)
<1>1. CASE p \in DOMAIN levels[side]
  <2>1. levels[side][p].order_count = n /\ ListOf(cell, index, side, p, levels[side][p], c)
    BY <1>1 DEF Lined
  <2>2. \A x \in Slots : cell[x] \in Order
    BY DEF BookInv, BookTyped
  <2> QED
    BY <2>1, <2>2, InLevel DEF BookedAt
<1>2. CASE p \notin DOMAIN levels[side]
  BY <1>2 DEF Lined
<1> QED
  BY <1>1, <1>2

\* A queue lists orders of the book, is as long as its level's count says, and is empty just when there is no level.
QueueFits(side, p) ==
    LET q == QueueAt(side, p)
    IN  /\ q \in Seq(QOrder)
        /\ \A i \in DOMAIN q : /\ q[i].id \in DOMAIN index
                               /\ cell[index[q[i].id]].side = side
                               /\ cell[index[q[i].id]].price = p
        /\ p \in DOMAIN levels[side] <=> q # << >>
        /\ p \in DOMAIN levels[side] => Len(q) = levels[side][p].order_count

\* The queue at every price fits its level.
LEMMA QueuesFit ==
    ASSUME BookInv, NEW side \in Sides, NEW p
    PROVE  QueueFits(side, p)
<1>1. PICK c : \E n \in Nat : Lined(cell, index, levels[side], side, p, c, n)
  BY LinesExist
<1>2. PICK n \in Nat : Lined(cell, index, levels[side], side, p, c, n)
  BY <1>1
<1> DEFINE q == QueueOf(cell, c, n)
<1>3. QueueAt(side, p) = q
  BY <1>2, QueuesAreLines DEF QueuesFollowLines
<1>4. \A i \in 1 .. n : BookedAt(c[i], side, p)
  BY <1>2, InLine
<1>5. DOMAIN q = 1 .. n /\ \A i \in 1 .. n : q[i] = [id |-> cell[c[i]].id, qty |-> cell[c[i]].remaining]
  BY DEF QueueOf
<1>6. \A i \in 1 .. n : q[i] \in QOrder /\ q[i].id = cell[c[i]].id
  BY <1>4, <1>5 DEF BookedAt, QOrder, Order
<1>7. q = [i \in 1 .. n |-> q[i]]
  BY <1>5 DEF QueueOf
<1> HIDE DEF q
<1>8. q \in Seq(QOrder) /\ Len(q) = n
  BY <1>6, <1>7
<1>9. p \in DOMAIN levels[side] <=> n # 0
  <2>1. CASE p \in DOMAIN levels[side]
    <3>1. levels[side][p].order_count = n /\ ListOf(cell, index, side, p, levels[side][p], c)
      BY <1>2, <2>1 DEF Lined
    <3> QED
      BY <2>1, <3>1, InLevel
  <2>2. CASE p \notin DOMAIN levels[side]
    BY <1>2, <2>2 DEF Lined
  <2> QED
    BY <2>1, <2>2
<1>10. p \in DOMAIN levels[side] => levels[side][p].order_count = n
  BY <1>2 DEF Lined
<1>11. q # << >> <=> n # 0
  BY <1>8
<1>12. \A i \in DOMAIN q : /\ q[i].id \in DOMAIN index
                           /\ cell[index[q[i].id]].side = side
                           /\ cell[index[q[i].id]].price = p
  BY <1>4, <1>5, <1>6 DEF BookedAt
<1> QED
  BY <1>3, <1>8, <1>9, <1>10, <1>11, <1>12 DEF QueueFits

\* A queue stays when its list and what its orders say do.
LEMMA QueueStays ==
    ASSUME BookInv, NEW side \in Sides, NEW p, LineStays(side, p),
           \A id \in DOMAIN index : OrderStays(index[id])
    PROVE  QueueAt(side, p)' = QueueAt(side, p)
<1>1. PICK c : \E n \in Nat : Lined(cell, index, levels[side], side, p, c, n)
  BY LinesExist
<1>2. PICK n \in Nat : Lined(cell, index, levels[side], side, p, c, n)
  BY <1>1
<1>3. QueueAt(side, p) = QueueOf(cell, c, n)
  BY <1>2, QueuesAreLines DEF QueuesFollowLines
<1>4. QueuesFollowLines'
  BY QueuesAreLines, PTL
<1>5. QueueAt(side, p)' = QueueOf(cell', c, n)
  BY <1>2, <1>4 DEF QueuesFollowLines, LineStays
<1>6. \A i \in 1 .. n : BookedAt(c[i], side, p)
  BY <1>2, InLine
<1>7. \A i \in 1 .. n : OrderStays(c[i])
  BY <1>6 DEF BookedAt
<1> QED
  BY <1>3, <1>5, <1>7 DEF QueueOf, OrderStays

-----------------------------------------------------------------------------
(* The quantities of a queue                                               *)

\* The quantity a queue holds.
Total(q) == SumFunction([k \in DOMAIN q |-> q[k].qty])

\* The quantities at the places of a queue.
QtyAt(q) == [k \in DOMAIN q |-> q[k].qty]

\* The total of a queue is the sum over its places.
LEMMA TotalIsSum ==
    ASSUME NEW q, NEW n, DOMAIN q = 1 .. n
    PROVE  /\ Total(q) = SumFunctionOnSet(QtyAt(q), 1 .. n)
           /\ \A k \in 1 .. n : QtyAt(q)[k] = q[k].qty
<1>1. DOMAIN QtyAt(q) = 1 .. n
  BY DEF QtyAt
<1>2. Total(q) = SumFunction(QtyAt(q))
  BY DEF Total, QtyAt
<1>3. \A k \in 1 .. n : QtyAt(q)[k] = q[k].qty
  BY DEF QtyAt
<1> QED
  BY <1>1, <1>2, <1>3 DEF SumFunction

\* The places of a queue and the quantities at them.
LEMMA QueueTyped ==
    ASSUME NEW q \in Seq(QOrder)
    PROVE  /\ Len(q) \in Nat /\ DOMAIN q = 1 .. Len(q)
           /\ \A k \in 1 .. Len(q) : q[k] \in QOrder /\ q[k].qty \in Nat /\ q[k].qty \in Int
<1>1. /\ Len(q) \in Nat /\ DOMAIN q = 1 .. Len(q)
      /\ \A k \in 1 .. Len(q) : q[k] \in QOrder
  OBVIOUS
<1>2. \A o \in QOrder : o.qty \in Nat /\ o.qty \in Int
  BY DEF QOrder
<1> QED
  BY <1>1, <1>2

\* Nothing is the total of no orders.
LEMMA TotalEmpty == Total(<< >>) = 0
<1>1. DOMAIN << >> = 1 .. 0 /\ 1 .. 0 = {}
  OBVIOUS
<1> QED
  BY <1>1, TotalIsSum, SumEmpty

\* Totals are natural numbers.
LEMMA TotalNat ==
    ASSUME NEW q \in Seq(QOrder)
    PROVE  Total(q) \in Nat
<1> DEFINE n == Len(q)
<1>1. n \in Nat /\ DOMAIN q = 1 .. n /\ \A k \in 1 .. n : q[k].qty \in Nat
  BY QueueTyped
<1> HIDE DEF n
<1>2. IsFiniteSet(1 .. n)
  BY <1>1, FS_Interval
<1>3. SumFunctionOnSet(QtyAt(q), 1 .. n) \in Nat
  BY <1>1, <1>2, TotalIsSum, SumNat
<1> QED
  BY <1>1, <1>3, TotalIsSum

\* An order at the end adds its quantity to the total.
LEMMA TotalAppend ==
    ASSUME NEW q \in Seq(QOrder), NEW o \in QOrder
    PROVE  Total(Append(q, o)) = Total(q) + o.qty
<1> DEFINE n == Len(q)
           q2 == Append(q, o)
<1>1. n \in Nat /\ DOMAIN q = 1 .. n /\ \A k \in 1 .. n : q[k].qty \in Int
  BY QueueTyped
<1>2. DOMAIN q2 = 1 .. n + 1 /\ q2[n + 1] = o /\ \A k \in 1 .. n : q2[k] = q[k]
  BY <1>1
<1> HIDE DEF n, q2
<1>3. o.qty \in Int
  BY DEF QOrder
<1>4. /\ 1 .. n + 1 = (1 .. n) \cup {n + 1} /\ n + 1 \notin 1 .. n
      /\ n + 1 \in 1 .. n + 1
  BY <1>1
<1>f. IsFiniteSet(1 .. n)
  BY <1>1, FS_Interval
<1>5. /\ \A k \in 1 .. n + 1 : QtyAt(q2)[k] = q2[k].qty
      /\ \A k \in 1 .. n : QtyAt(q)[k] = q[k].qty
  BY <1>1, <1>2, TotalIsSum
<1>6. \A k \in (1 .. n) \cup {n + 1} : QtyAt(q2)[k] \in Int
  BY <1>1, <1>2, <1>3, <1>4, <1>5
<1>7. SumFunctionOnSet(QtyAt(q2), (1 .. n) \cup {n + 1})
         = QtyAt(q2)[n + 1] + SumFunctionOnSet(QtyAt(q2), 1 .. n)
  BY <1>4, <1>f, <1>6, SumAdd
<1>8. /\ \A k \in 1 .. n : QtyAt(q)[k] \in Int
      /\ \A k \in 1 .. n : QtyAt(q2)[k] = QtyAt(q)[k]
  BY <1>1, <1>2, <1>4, <1>5
<1>9. SumFunctionOnSet(QtyAt(q2), 1 .. n) = SumFunctionOnSet(QtyAt(q), 1 .. n)
  BY <1>f, <1>8, SumEqual
<1>10. SumFunctionOnSet(QtyAt(q), 1 .. n) \in Int
  BY <1>f, <1>8, SumType
<1>11. /\ Total(q2) = SumFunctionOnSet(QtyAt(q2), 1 .. n + 1)
       /\ Total(q) = SumFunctionOnSet(QtyAt(q), 1 .. n)
  BY <1>1, <1>2, TotalIsSum
<1>12. QtyAt(q2)[n + 1] = o.qty
  BY <1>2, <1>4, <1>5
<1>13. Total(q2) = Total(q) + o.qty
  <2>1. Total(q2) = o.qty + Total(q) /\ Total(q) \in Int
    BY <1>4, <1>7, <1>9, <1>10, <1>11, <1>12
  <2> QED
    BY <1>3, <2>1
<1> QED
  BY <1>13 DEF q2

\* q without its k-th order.
Less(q, k) == [i \in 1 .. Len(q) - 1 |-> IF i < k THEN q[i] ELSE q[i + 1]]

\* The queue without its k-th order: the total loses its quantity.
LEMMA TotalLess ==
    ASSUME NEW q \in Seq(QOrder), NEW k \in 1 .. Len(q)
    PROVE  Total(Less(q, k)) = Total(q) - q[k].qty
<1> DEFINE n == Len(q)
           q2 == Less(q, k)
           h == [i \in 1 .. n - 1 |-> IF i < k THEN i ELSE i + 1]
           R == (1 .. n) \ {k}
<1>1. n \in Nat /\ DOMAIN q = 1 .. n /\ \A i \in 1 .. n : q[i].qty \in Int
  BY QueueTyped
<1>2. k \in 1 .. n
  OBVIOUS
<1>3. DOMAIN q2 = 1 .. n - 1 /\ \A i \in 1 .. n - 1 : q2[i] = IF i < k THEN q[i] ELSE q[i + 1]
  BY DEF Less
<1>4. \A i \in 1 .. n - 1 : h[i] = IF i < k THEN i ELSE i + 1
  OBVIOUS
<1> HIDE DEF n, q2, h
<1>5. IsFiniteSet(1 .. n) /\ IsFiniteSet(1 .. n - 1)
  BY <1>1, FS_Interval
<1>6. \A i \in 1 .. n - 1 : h[i] \in R /\ q2[i] = q[h[i]]
  BY <1>1, <1>2, <1>3, <1>4
<1>7. \A i, j \in 1 .. n - 1 : h[i] = h[j] => i = j
  BY <1>1, <1>2, <1>4
<1>8. ASSUME NEW z \in R
      PROVE  \E i \in 1 .. n - 1 : h[i] = z
  <2>1. z \in 1 .. n /\ z # k
    OBVIOUS
  <2>2. CASE z < k
    <3>1. z \in 1 .. n - 1
      BY <1>1, <1>2, <2>1, <2>2
    <3> QED
      BY <1>4, <2>2, <3>1
  <2>3. CASE z > k
    <3>1. z - 1 \in 1 .. n - 1 /\ ~ (z - 1 < k) /\ (z - 1) + 1 = z
      BY <1>1, <1>2, <2>1, <2>3
    <3> QED
      BY <1>4, <3>1
  <2> QED
    BY <1>1, <1>2, <2>1, <2>2, <2>3
<1>9. /\ \A i \in 1 .. n - 1 : QtyAt(q2)[i] = q2[i].qty
      /\ \A i \in 1 .. n : QtyAt(q)[i] = q[i].qty
      /\ Total(q2) = SumFunctionOnSet(QtyAt(q2), 1 .. n - 1)
      /\ Total(q) = SumFunctionOnSet(QtyAt(q), 1 .. n)
  BY <1>1, <1>3, TotalIsSum
<1>10. \A i \in 1 .. n : QtyAt(q)[i] \in Int
  BY <1>1, <1>9
<1>11. \A i \in 1 .. n - 1 : QtyAt(q2)[i] = QtyAt(q)[h[i]]
  BY <1>6, <1>9
<1>12. \A z \in R : QtyAt(q)[z] \in Int
  BY <1>10
<1> HIDE DEF R
<1>13. SumFunctionOnSet(QtyAt(q2), 1 .. n - 1) = SumFunctionOnSet(QtyAt(q), R)
  <2>1. Reindexed(h, 1 .. n - 1, QtyAt(q2), R, QtyAt(q))
    BY <1>6, <1>7, <1>8, <1>11, <1>12 DEF Reindexed
  <2> QED
    BY <1>5, <2>1, SumReindex
<1>14. SumFunctionOnSet(QtyAt(q), 1 .. n) = QtyAt(q)[k] + SumFunctionOnSet(QtyAt(q), R)
  BY <1>2, <1>5, <1>10, SumRemove DEF R
<1>15. IsFiniteSet(R)
  BY <1>5, FS_RemoveElement DEF R
<1>16. SumFunctionOnSet(QtyAt(q), R) \in Int
  BY <1>12, <1>15, SumType
<1>17. QtyAt(q)[k] = q[k].qty /\ q[k].qty \in Int
  BY <1>1, <1>2, <1>9
<1>18. Total(q2) = Total(q) - q[k].qty
  BY <1>9, <1>13, <1>14, <1>16, <1>17
<1> QED
  BY <1>18 DEF q2

\* q with the quantity of its k-th order reduced by d.
Filled(q, k, d) == [q EXCEPT ![k].qty = @ - d]

\* The queue after a fill of its k-th order: the total loses what was filled.
LEMMA TotalFilled ==
    ASSUME NEW q \in Seq(QOrder), NEW k \in 1 .. Len(q), NEW d \in Nat
    PROVE  Total(Filled(q, k, d)) = Total(q) - d
<1> DEFINE n == Len(q)
           q2 == Filled(q, k, d)
<1>1. n \in Nat /\ DOMAIN q = 1 .. n /\ \A i \in 1 .. n : q[i] \in QOrder /\ q[i].qty \in Int
  BY QueueTyped
<1>2. k \in 1 .. n
  OBVIOUS
<1>3. /\ DOMAIN q2 = 1 .. n
      /\ q2[k].qty = q[k].qty - d
      /\ \A i \in 1 .. n : i # k => q2[i] = q[i]
  BY <1>1, <1>2 DEF Filled, QOrder
<1> HIDE DEF n, q2
<1>4. IsFiniteSet(1 .. n)
  BY <1>1, FS_Interval
<1>5. /\ \A i \in 1 .. n : QtyAt(q2)[i] = q2[i].qty
      /\ \A i \in 1 .. n : QtyAt(q)[i] = q[i].qty
      /\ Total(q2) = SumFunctionOnSet(QtyAt(q2), 1 .. n)
      /\ Total(q) = SumFunctionOnSet(QtyAt(q), 1 .. n)
  BY <1>1, <1>3, TotalIsSum
<1>6. \A i \in 1 .. n : QtyAt(q)[i] \in Int
  BY <1>1, <1>5
<1>7. QtyAt(q2)[k] = QtyAt(q)[k] - d /\ QtyAt(q2)[k] \in Int /\ QtyAt(q)[k] \in Int
  BY <1>1, <1>2, <1>3, <1>5
<1>8. \A i \in 1 .. n : i # k => QtyAt(q2)[i] = QtyAt(q)[i]
  BY <1>3, <1>5
<1>9. SumFunctionOnSet(QtyAt(q2), 1 .. n)
         = SumFunctionOnSet(QtyAt(q), 1 .. n) - QtyAt(q)[k] + QtyAt(q2)[k]
  <2>1. SameBut(QtyAt(q2), QtyAt(q), 1 .. n, k)
    BY <1>2, <1>6, <1>7, <1>8 DEF SameBut
  <2> QED
    BY <1>4, <2>1, SumSameBut
<1>10. SumFunctionOnSet(QtyAt(q), 1 .. n) \in Int
  BY <1>4, <1>6, SumType
<1>11. Total(q2) = Total(q) - d
  BY <1>5, <1>7, <1>9, <1>10
<1> QED
  BY <1>11 DEF q2

-----------------------------------------------------------------------------
(* How the steps move the queues                                           *)

\* The totals of the levels are those of the queues.
TotalsRight ==
    \A side \in Sides : \A p \in DOMAIN levels[side] :
        levels[side][p].total_quantity = Total(QueueAt(side, p))

\* The queue of an order, with and without a level.
LEMMA TotalAt ==
    ASSUME BookInv, TotalsRight, NEW side \in Sides, NEW p, NEW l,
           l = IF p \in DOMAIN levels[side] THEN levels[side][p] ELSE NewLevel
    PROVE  l.total_quantity = Total(QueueAt(side, p))
<1>1. CASE p \in DOMAIN levels[side]
  BY <1>1 DEF TotalsRight
<1>2. CASE p \notin DOMAIN levels[side]
  <2>1. QueueFits(side, p)
    BY QueuesFit
  <2>2. QueueAt(side, p) = << >>
    BY <1>2, <2>1 DEF QueueFits
  <2>3. l.total_quantity = 0
    BY <1>2 DEF NewLevel
  <2> QED
    BY <2>2, <2>3, TotalEmpty
<1> QED
  BY <1>1, <1>2

\* A step that leaves a queue and its total.
QueueUnmoved(side, p) ==
    /\ QueueAt(side, p)' = QueueAt(side, p)
    /\ TotalStays(side, p)

\* The totals stay right where the queues stay, and where the step sets them right.
LEMMA TotalsUnmoved ==
    ASSUME TotalsRight, DOMAIN levels' = Sides,
           \A side \in Sides : \A p : QueueUnmoved(side, p) \/
              (p \in DOMAIN levels'[side] =>
                  levels'[side][p].total_quantity = Total(QueueAt(side, p)'))
    PROVE  TotalsRight'
<1> SUFFICES ASSUME NEW side \in Sides, NEW p \in DOMAIN levels'[side]
             PROVE  levels'[side][p].total_quantity = Total(QueueAt(side, p)')
  BY DEF TotalsRight
<1>1. CASE QueueUnmoved(side, p)
  BY <1>1 DEF QueueUnmoved, TotalStays, TotalsRight
<1>2. CASE ~ QueueUnmoved(side, p)
  BY <1>2
<1> QED
  BY <1>1, <1>2

\* An order added to the book goes to the end of its queue, and no other queue moves.
LEMMA AddMoves ==
    ASSUME BookInv, TotalsRight, NEW s \in Slots, AddOrder(s),
           NEW side, side = cell[s].side, NEW price, price = cell[s].price,
           NEW new, new = [id |-> cell[s].id, qty |-> cell[s].remaining]
    PROVE  /\ side \in Sides /\ price \in Prices /\ new \in QOrder
           /\ QueueAt(side, price)' = Append(QueueAt(side, price), new)
           /\ \A sd \in Sides : \A p : ~ (sd = side /\ p = price) => QueueUnmoved(sd, p)
           /\ TotalsRight'
<1> DEFINE q == QueueAt(side, price)
<1>1. /\ BookInv'
      /\ side \in Sides /\ price \in Prices
      /\ \A sd \in Sides : \A p : ~ (sd = side /\ p = price) =>
            LineStays(sd, p) /\ TotalStays(sd, p)
      /\ \A c, n : Lined(cell, index, levels[side], side, price, c, n) =>
            n \in Nat /\ Lined(cell', index', levels'[side], side, price, Extended(c, n, s), n + 1)
      /\ price \in DOMAIN levels'[side]
      /\ levels'[side][price].total_quantity = LevelOf(cell[s]).total_quantity + cell[s].remaining
      /\ \A x \in Slots : OrderStays(x)
  BY AddKeepsBook
<1>2. cell[s] \in Order /\ \A id \in DOMAIN index : index[id] \in Slots
  BY DEF BookInv, BookTyped, PoolInv, IndexInv
<1>3. new \in QOrder /\ new.qty = cell[s].remaining
  BY <1>2 DEF Order, QOrder
<1>4. \A id \in DOMAIN index : OrderStays(index[id])
  BY <1>1, <1>2
<1>5. \A sd \in Sides : \A p : ~ (sd = side /\ p = price) => QueueUnmoved(sd, p)
  BY <1>1, <1>4, QueueStays DEF QueueUnmoved
<1>6. PICK c : \E n \in Nat : Lined(cell, index, levels[side], side, price, c, n)
  BY <1>1, LinesExist
<1>7. PICK n \in Nat : Lined(cell, index, levels[side], side, price, c, n)
  BY <1>6
<1>8. q = QueueOf(cell, c, n)
  BY <1>1, <1>7, QueuesAreLines DEF QueuesFollowLines
<1>9. QueuesFollowLines'
  BY QueuesAreLines, PTL
<1>10. q' = QueueOf(cell', Extended(c, n, s), n + 1)
  BY <1>1, <1>7, <1>9 DEF QueuesFollowLines
<1>11. \A i \in 1 .. n : OrderStays(c[i])
  <2>1. \A i \in 1 .. n : BookedAt(c[i], side, price)
    BY <1>1, <1>7, InLine
  <2> QED
    BY <1>1, <2>1 DEF BookedAt
<1>12. q' = Append(q, new)
  <2> DEFINE a == QueueOf(cell, c, n)
             b == QueueOf(cell', Extended(c, n, s), n + 1)
  <2>1. /\ DOMAIN a = 1 .. n
        /\ \A i \in 1 .. n : a[i] = [id |-> cell[c[i]].id, qty |-> cell[c[i]].remaining]
        /\ a = [i \in 1 .. n |-> a[i]]
    BY DEF QueueOf
  <2>2. a \in Seq(QOrder)
    BY <1>1, <1>8, QueuesFit DEF QueueFits
  <2>3. Len(a) = n
    <3> HIDE DEF a
    <3> QED
      BY <2>1, <2>2
  <2>4. \A i \in 1 .. n + 1 : b[i] = IF i = n + 1 THEN new ELSE a[i]
    <3> TAKE i \in 1 .. n + 1
    <3>1. b[i] = [id |-> cell'[Extended(c, n, s)[i]].id,
                  qty |-> cell'[Extended(c, n, s)[i]].remaining]
      BY DEF QueueOf
    <3>2. CASE i = n + 1
      <4>1. Extended(c, n, s)[i] = s
        BY <3>2 DEF Extended
      <4>2. OrderStays(s)
        BY <1>1
      <4> QED
        BY <3>1, <3>2, <4>1, <4>2 DEF OrderStays
    <3>3. CASE i # n + 1
      <4>1. i \in 1 .. n
        BY <3>3
      <4>2. Extended(c, n, s)[i] = c[i]
        BY <3>3 DEF Extended
      <4>3. OrderStays(c[i])
        BY <1>11, <4>1
      <4> QED
        BY <2>1, <3>1, <3>3, <4>1, <4>2, <4>3 DEF OrderStays
    <3> QED
      BY <3>2, <3>3
  <2>5. b = [i \in 1 .. n + 1 |-> b[i]]
    BY DEF QueueOf
  <2> HIDE DEF a, b
  <2>6. Append(a, new) = [i \in 1 .. n + 1 |-> IF i = n + 1 THEN new ELSE a[i]]
    BY <2>2, <2>3
  <2>7. b = Append(a, new)
    BY <2>4, <2>5, <2>6
  <2> QED
    BY <1>8, <1>10, <2>7 DEF a, b
<1>13. levels'[side][price].total_quantity = Total(q')
  <2>1. q \in Seq(QOrder)
    BY <1>1, QueuesFit DEF QueueFits
  <2>2. LevelOf(cell[s]).total_quantity = Total(q)
    BY <1>1, TotalAt DEF LevelOf
  <2>3. Total(Append(q, new)) = Total(q) + new.qty
    BY <1>3, <2>1, TotalAppend
  <2> QED
    BY <1>1, <1>3, <1>12, <2>2, <2>3
<1>14. DOMAIN levels' = Sides
  BY <1>1 DEF BookInv, BookTyped
<1>15. TotalsRight'
  <2>1. \A sd \in Sides : \A p : QueueUnmoved(sd, p) \/
              (p \in DOMAIN levels'[sd] =>
                  levels'[sd][p].total_quantity = Total(QueueAt(sd, p)'))
    BY <1>5, <1>13
  <2> QED
    BY <1>14, <2>1, TotalsUnmoved
<1> QED
  BY <1>1, <1>3, <1>5, <1>12, <1>15

\* An order removed from the book leaves its queue from wherever it stood, and no other
\* queue moves.
LEMMA RemoveMoves ==
    ASSUME BookInv, TotalsRight, NEW gone \in Ids, RemoveOrder(gone),
           NEW s, s = index[gone], NEW side, side = cell[s].side, NEW price, price = cell[s].price
    PROVE  /\ side \in Sides /\ price \in Prices
           /\ \E k \in 1 .. Len(QueueAt(side, price)) :
                 QueueAt(side, price)' = Less(QueueAt(side, price), k)
           /\ \A sd \in Sides : \A p : ~ (sd = side /\ p = price) => QueueUnmoved(sd, p)
           /\ TotalsRight'
<1> DEFINE q == QueueAt(side, price)
<1>1. /\ BookInv'
      /\ s \in Slots /\ side \in Sides /\ price \in DOMAIN levels[side]
      /\ \A sd \in Sides : \A p : ~ (sd = side /\ p = price) =>
            LineStays(sd, p) /\ TotalStays(sd, p)
      /\ price \in DOMAIN levels'[side] =>
            levels'[side][price].total_quantity =
               levels[side][price].total_quantity - cell[s].remaining
      /\ \A c, n : Lined(cell, index, levels[side], side, price, c, n) =>
            \E k \in 1 .. n :
               c[k] = s /\ Lined(cell', index', levels'[side], side, price, Without(c, n, k), n - 1)
      /\ \A x \in Slots : OrderStays(x)
  BY RemoveKeepsBook
<1>2. cell[s] \in Order /\ price \in Prices /\ \A id \in DOMAIN index : index[id] \in Slots
  BY <1>1 DEF BookInv, BookTyped, PoolInv, IndexInv
<1>3. \A id \in DOMAIN index : OrderStays(index[id])
  BY <1>1, <1>2
<1>4. \A sd \in Sides : \A p : ~ (sd = side /\ p = price) => QueueUnmoved(sd, p)
  BY <1>1, <1>3, QueueStays DEF QueueUnmoved
<1>5. PICK c : \E n \in Nat : Lined(cell, index, levels[side], side, price, c, n)
  BY <1>1, LinesExist
<1>6. PICK n \in Nat : Lined(cell, index, levels[side], side, price, c, n)
  BY <1>5
<1>7. PICK k \in 1 .. n :
         c[k] = s /\ Lined(cell', index', levels'[side], side, price, Without(c, n, k), n - 1)
  BY <1>1, <1>6
<1>8. q = QueueOf(cell, c, n)
  BY <1>1, <1>6, QueuesAreLines DEF QueuesFollowLines
<1>9. QueuesFollowLines'
  BY QueuesAreLines, PTL
<1>10. q' = QueueOf(cell', Without(c, n, k), n - 1)
  BY <1>1, <1>7, <1>9 DEF QueuesFollowLines
<1>11. \A i \in 1 .. n : OrderStays(c[i])
  <2>1. \A i \in 1 .. n : BookedAt(c[i], side, price)
    BY <1>1, <1>6, InLine
  <2> QED
    BY <1>1, <2>1 DEF BookedAt
<1>12. q \in Seq(QOrder) /\ Len(q) = n /\ q[k].qty = cell[s].remaining
  <2>1. q \in Seq(QOrder)
    BY <1>1, QueuesFit DEF QueueFits
  <2>2. DOMAIN q = 1 .. n /\ q[k].qty = cell[s].remaining
    BY <1>7, <1>8 DEF QueueOf
  <2> HIDE DEF q
  <2> QED
    BY <2>1, <2>2
<1>13. q' = Less(q, k)
  <2>1. ASSUME NEW i \in 1 .. n - 1
        PROVE  /\ OrderStays(Without(c, n, k)[i])
               /\ i < k => Without(c, n, k)[i] = c[i] /\ i \in 1 .. n
               /\ ~ (i < k) => Without(c, n, k)[i] = c[i + 1] /\ i + 1 \in 1 .. n
    BY <1>11 DEF Without
  <2>2. \A i \in 1 .. n : q[i] = [id |-> cell[c[i]].id, qty |-> cell[c[i]].remaining]
    BY <1>8 DEF QueueOf
  <2> DEFINE b == QueueOf(cell', Without(c, n, k), n - 1)
  <2>3. b = [i \in 1 .. n - 1 |-> b[i]]
    BY DEF QueueOf
  <2>4. ASSUME NEW i \in 1 .. n - 1
        PROVE  b[i] = IF i < k THEN q[i] ELSE q[i + 1]
    <3>1. b[i] = [id |-> cell'[Without(c, n, k)[i]].id, qty |-> cell'[Without(c, n, k)[i]].remaining]
      BY DEF QueueOf
    <3>2. b[i] = [id |-> cell[Without(c, n, k)[i]].id, qty |-> cell[Without(c, n, k)[i]].remaining]
      BY <2>1, <3>1 DEF OrderStays
    <3> HIDE DEF b, q
    <3> QED
      BY <2>1, <2>2, <3>2
  <2> HIDE DEF b, q
  <2>5. Less(q, k) = [i \in 1 .. n - 1 |-> IF i < k THEN q[i] ELSE q[i + 1]]
    BY <1>12 DEF Less
  <2>6. b = Less(q, k)
    BY <2>3, <2>4, <2>5
  <2> QED
    BY <1>10, <2>6 DEF b
<1>14. price \in DOMAIN levels'[side] => levels'[side][price].total_quantity = Total(q')
  <2>1. levels[side][price].total_quantity = Total(q)
    BY <1>1 DEF TotalsRight
  <2>2. Total(Less(q, k)) = Total(q) - q[k].qty
    BY <1>12, TotalLess
  <2> QED
    BY <1>1, <1>12, <1>13, <2>1, <2>2
<1>15. DOMAIN levels' = Sides
  BY <1>1 DEF BookInv, BookTyped
<1>16. TotalsRight'
  <2>1. \A sd \in Sides : \A p : QueueUnmoved(sd, p) \/
              (p \in DOMAIN levels'[sd] =>
                  levels'[sd][p].total_quantity = Total(QueueAt(sd, p)'))
    BY <1>4, <1>14
  <2> QED
    BY <1>15, <2>1, TotalsUnmoved
<1>17. \E j \in 1 .. Len(q) : q' = Less(q, j)
  BY <1>12, <1>13
<1> QED
  BY <1>1, <1>2, <1>4, <1>16, <1>17

\* What a fill leaves at each place of a queue.
LEMMA FilledAt ==
    ASSUME NEW q \in Seq(QOrder), NEW k, NEW d
    PROVE  Filled(q, k, d) = [i \in 1 .. Len(q) |->
                                 IF i = k THEN [q[k] EXCEPT !.qty = q[k].qty - d] ELSE q[i]]
<1>1. DOMAIN q = 1 .. Len(q)
  OBVIOUS
<1>2. Filled(q, k, d) = [i \in DOMAIN q |->
                            IF i = k THEN [q[k] EXCEPT !.qty = q[k].qty - d] ELSE q[i]]
  BY DEF Filled
<1> QED
  BY <1>1, <1>2

\* A fill takes its quantity from one order of one queue.
LEMMA FillMoves ==
    ASSUME BookInv, TotalsRight, NEW id \in Ids, NEW qty \in 1 .. MaxFill, FillOrder(id, qty),
           NEW s, s = index[id], NEW side, side = cell[s].side, NEW price, price = cell[s].price
    PROVE  /\ side \in Sides /\ price \in Prices
           /\ \E k \in 1 .. Len(QueueAt(side, price)) :
                 /\ qty \in 1 .. QueueAt(side, price)[k].qty
                 /\ QueueAt(side, price)' = Filled(QueueAt(side, price), k, qty)
           /\ \A sd \in Sides : \A p : ~ (sd = side /\ p = price) => QueueUnmoved(sd, p)
           /\ TotalsRight'
<1> DEFINE q == QueueAt(side, price)
<1>1. /\ BookInv'
      /\ \A sd \in Sides : \A p : LineStays(sd, p)
      /\ \A sd \in Sides : \A p : ~ (sd = side /\ p = price) => TotalStays(sd, p)
      /\ side \in Sides /\ price \in DOMAIN levels[side]
      /\ levels'[side][price].total_quantity = levels[side][price].total_quantity - qty
      /\ s \in Slots /\ qty <= cell[s].remaining
      /\ cell'[s].id = cell[s].id /\ cell'[s].remaining = cell[s].remaining - qty
      /\ \A x \in Slots : x # s => OrderStays(x)
  BY FillKeepsBook
<1>2. /\ cell[s] \in Order /\ price \in Prices
      /\ \A i \in DOMAIN index : index[i] \in Slots /\ cell[index[i]].id = i
  BY <1>1 DEF BookInv, BookTyped, PoolInv, IndexInv
<1>3. id \in DOMAIN index
  BY DEF FillOrder
<1>4. PICK c : \E n \in Nat : Lined(cell, index, levels[side], side, price, c, n)
  BY <1>1, LinesExist
<1>5. PICK n \in Nat : Lined(cell, index, levels[side], side, price, c, n)
  BY <1>4
<1>6. ListOf(cell, index, side, price, levels[side][price], c) /\ levels[side][price].order_count = n
  BY <1>1, <1>5 DEF Lined
<1>7. PICK k \in 1 .. n : c[k] = s
  <2>1. Holds(cell, index, side, price, c, n)
    BY <1>6 DEF ListOf
  <2> QED
    BY <1>3, <2>1 DEF Holds
<1>8. \A i, j \in 1 .. n : c[i] = c[j] => i = j
  BY <1>6, InLevel
<1>9. q = QueueOf(cell, c, n)
  BY <1>1, <1>5, QueuesAreLines DEF QueuesFollowLines
<1>10. QueuesFollowLines'
  BY QueuesAreLines, PTL
<1>11. q' = QueueOf(cell', c, n)
  BY <1>1, <1>5, <1>10 DEF QueuesFollowLines, LineStays
<1>12. \A i \in 1 .. n : BookedAt(c[i], side, price)
  BY <1>1, <1>5, InLine
<1>13. \A i \in 1 .. n : i # k => OrderStays(c[i])
  <2>1. \A x \in Slots : x # s => OrderStays(x)
    BY <1>1
  <2>2. \A i \in 1 .. n : c[i] \in Slots
    BY <1>12 DEF BookedAt
  <2>3. \A i \in 1 .. n : i # k => c[i] # s
    BY <1>7, <1>8
  <2> QED
    BY <2>1, <2>2, <2>3
<1>14. q \in Seq(QOrder) /\ Len(q) = n /\ q[k].qty = cell[s].remaining
  <2>1. q \in Seq(QOrder)
    BY <1>1, QueuesFit DEF QueueFits
  <2>2. DOMAIN q = 1 .. n /\ q[k].qty = cell[s].remaining
    BY <1>7, <1>9 DEF QueueOf
  <2> HIDE DEF q
  <2> QED
    BY <2>1, <2>2
<1>15. qty \in Nat /\ qty >= 1 /\ cell[s].remaining \in Nat
  BY <1>2, OrderBookAssumption DEF Order
<1>16. qty \in 1 .. q[k].qty
  BY <1>1, <1>14, <1>15
<1>17. q' = Filled(q, k, qty)
  <2> DEFINE b == QueueOf(cell', c, n)
  <2>1. \A i \in 1 .. n : q[i] = [id |-> cell[c[i]].id, qty |-> cell[c[i]].remaining]
    BY <1>9 DEF QueueOf
  <2>2. b = [i \in 1 .. n |-> b[i]]
    BY DEF QueueOf
  <2>3. \A i \in 1 .. n : b[i] = [id |-> cell'[c[i]].id, qty |-> cell'[c[i]].remaining]
    BY DEF QueueOf
  <2> HIDE DEF b, q
  <2>4. ASSUME NEW i \in 1 .. n
        PROVE  b[i] = IF i = k THEN [q[k] EXCEPT !.qty = q[k].qty - qty] ELSE q[i]
    <3>1. CASE i = k
      <4>1. /\ q[k] = [id |-> cell[s].id, qty |-> cell[s].remaining]
            /\ b[k] = [id |-> cell[s].id, qty |-> cell[s].remaining - qty]
        <5>1. c[k] = s
          BY <1>7
        <5>2. cell'[s].id = cell[s].id /\ cell'[s].remaining = cell[s].remaining - qty
          BY <1>1
        <5>3. /\ q[k] = [id |-> cell[s].id, qty |-> cell[s].remaining]
              /\ b[k] = [id |-> cell'[s].id, qty |-> cell'[s].remaining]
          BY <2>1, <2>3, <5>1
        <5> QED
          BY <5>2, <5>3
      <4> QED
        BY <3>1, <4>1
    <3>2. CASE i # k
      BY <1>13, <2>1, <2>3, <3>2 DEF OrderStays
    <3> QED
      BY <3>1, <3>2
  <2>5. Filled(q, k, qty) = [i \in 1 .. n |->
                                IF i = k THEN [q[k] EXCEPT !.qty = q[k].qty - qty] ELSE q[i]]
    <3>1. q \in Seq(QOrder) /\ Len(q) = n
      BY <1>14
    <3> QED
      BY <3>1, FilledAt
  <2>6. b = Filled(q, k, qty)
    BY <2>2, <2>4, <2>5
  <2> QED
    BY <1>11, <2>6 DEF b
<1>18. levels'[side][price].total_quantity = Total(q')
  <2>1. levels[side][price].total_quantity = Total(q)
    BY <1>1 DEF TotalsRight
  <2>2. Total(Filled(q, k, qty)) = Total(q) - qty
    BY <1>14, <1>15, TotalFilled
  <2> QED
    BY <1>1, <1>17, <2>1, <2>2
<1>19. DOMAIN levels' = Sides
  BY <1>1 DEF BookInv, BookTyped
<1>20. \A sd \in Sides : \A p : ~ (sd = side /\ p = price) => QueueUnmoved(sd, p)
  <2> TAKE sd \in Sides
  <2> TAKE p
  <2> SUFFICES ASSUME ~ (sd = side /\ p = price)
               PROVE  QueueUnmoved(sd, p)
    OBVIOUS
  <2>1. PICK d : \E m \in Nat : Lined(cell, index, levels[sd], sd, p, d, m)
    BY LinesExist
  <2>2. PICK m \in Nat : Lined(cell, index, levels[sd], sd, p, d, m)
    BY <2>1
  <2>3. QueueAt(sd, p) = QueueOf(cell, d, m)
    BY <2>2, QueuesAreLines DEF QueuesFollowLines
  <2>4. QueueAt(sd, p)' = QueueOf(cell', d, m)
    BY <1>1, <1>10, <2>2 DEF QueuesFollowLines, LineStays
  <2>5. \A i \in 1 .. m : BookedAt(d[i], sd, p)
    BY <2>2, InLine
  <2>6. \A i \in 1 .. m : OrderStays(d[i])
    BY <1>1, <2>5 DEF BookedAt
  <2>7. QueueAt(sd, p)' = QueueAt(sd, p)
    BY <2>3, <2>4, <2>6 DEF QueueOf, OrderStays
  <2> QED
    BY <1>1, <2>7 DEF QueueUnmoved
<1>21. TotalsRight'
  <2>1. \A sd \in Sides : \A p : QueueUnmoved(sd, p) \/
              (p \in DOMAIN levels'[sd] =>
                  levels'[sd][p].total_quantity = Total(QueueAt(sd, p)'))
    BY <1>18, <1>20
  <2> QED
    BY <1>19, <2>1, TotalsUnmoved
<1>22. \E j \in 1 .. Len(q) : qty \in 1 .. q[j].qty /\ q' = Filled(q, j, qty)
  BY <1>14, <1>16, <1>17
<1> QED
  BY <1>1, <1>2, <1>20, <1>21, <1>22

-----------------------------------------------------------------------------
(* The steps are steps of the queues                                       *)

\* What the book's pointers amount to.
Queues == [side \in Sides |-> [p \in Prices |-> QueueAt(side, p)]]

\* The queue of a side and price, before and after a step.
LEMMA QueueIn ==
    ASSUME NEW side \in Sides, NEW p \in Prices
    PROVE  Queues[side][p] = QueueAt(side, p) /\ Queues'[side][p] = QueueAt(side, p)'
  BY DEF Queues

\* The queues when only one of them moves.
LEMMA QueuesMove ==
    ASSUME NEW side \in Sides, NEW price \in Prices,
           \A sd \in Sides : \A p : ~ (sd = side /\ p = price) => QueueUnmoved(sd, p)
    PROVE  Queues' = [Queues EXCEPT ![side][price] = QueueAt(side, price)']
<1> DEFINE new == QueueAt(side, price)'
           Row(sd) == [p \in Prices |-> QueueAt(sd, p)]
           Row2(sd) == [p \in Prices |-> QueueAt(sd, p)']
<1>1. Queues = [sd \in Sides |-> Row(sd)] /\ Queues' = [sd \in Sides |-> Row2(sd)]
  BY DEF Queues
<1>2. ASSUME NEW sd \in Sides, sd # side
      PROVE  Row2(sd) = Row(sd)
  BY <1>2 DEF QueueUnmoved
<1>3. Row2(side) = [Row(side) EXCEPT ![price] = new]
  <2>1. \A p \in Prices : p # price => QueueAt(side, p)' = QueueAt(side, p)
    BY DEF QueueUnmoved
  <2>2. \A p \in Prices : Row2(side)[p] = IF p = price THEN new ELSE Row(side)[p]
    BY <2>1
  <2>3. DOMAIN Row(side) = Prices /\ Row2(side) = [p \in Prices |-> Row2(side)[p]]
    OBVIOUS
  <2> HIDE DEF Row, Row2, new
  <2>4. [Row(side) EXCEPT ![price] = new] = [p \in Prices |-> IF p = price THEN new ELSE Row(side)[p]]
    BY <2>3
  <2> QED
    BY <2>2, <2>3, <2>4
<1>4. Queues[side] = Row(side)
  BY DEF Queues
<1> HIDE DEF Row, Row2, new
<1>5. [Queues EXCEPT ![side][price] = new] = [Queues EXCEPT ![side] = [Row(side) EXCEPT ![price] = new]]
  BY <1>4
<1>6. [sd \in Sides |-> Row2(sd)] = [sd \in Sides |-> IF sd = side THEN Row2(side) ELSE Row(sd)]
  BY <1>2
<1>7. [Queues EXCEPT ![side] = Row2(side)] = [sd \in Sides |-> IF sd = side THEN Row2(side) ELSE Row(sd)]
  BY <1>1
<1>8. Queues' = [Queues EXCEPT ![side][price] = new]
  BY <1>1, <1>3, <1>5, <1>6, <1>7
<1> QED
  BY <1>8 DEF new

\* The queues when none of them moves.
LEMMA QueuesRest ==
    ASSUME \A side \in Sides : \A p : QueueUnmoved(side, p)
    PROVE  Queues' = Queues
  BY DEF Queues, QueueUnmoved

\* The promise's removal from a sequence is the queue without that place.
LEMMA LessIsRemoveAt ==
    ASSUME NEW q \in Seq(QOrder), NEW k \in 1 .. Len(q)
    PROVE  Promise!RemoveAt(q, k) = Less(q, k)
<1> DEFINE a == SubSeq(q, 1, k - 1)
           b == SubSeq(q, k + 1, Len(q))
           n == Len(q)
<1>1. n \in Nat /\ k \in 1 .. n
  OBVIOUS
<1>2. a \in Seq(QOrder) /\ Len(a) = k - 1 /\ \A i \in 1 .. k - 1 : a[i] = q[i]
  OBVIOUS
<1>3. b \in Seq(QOrder) /\ Len(b) = n - k /\ \A i \in 1 .. n - k : b[i] = q[k + i]
  BY <1>1
<1>4. Promise!RemoveAt(q, k) = a \o b
  BY DEF Promise!RemoveAt
<1>5. Less(q, k) = [i \in 1 .. n - 1 |-> IF i < k THEN q[i] ELSE q[i + 1]]
  BY DEF Less
<1> HIDE DEF a, b, n
<1>6. /\ a \o b \in Seq(QOrder) /\ Len(a \o b) = Len(a) + Len(b)
      /\ \A i \in 1 .. Len(a) + Len(b) : (a \o b)[i] = IF i <= Len(a) THEN a[i] ELSE b[i - Len(a)]
  BY <1>2, <1>3, ConcatProperties
<1>7. Len(a \o b) = n - 1
  BY <1>1, <1>2, <1>3, <1>6
<1>8. ASSUME NEW i \in 1 .. n - 1
      PROVE  (a \o b)[i] = IF i < k THEN q[i] ELSE q[i + 1]
  <2>1. CASE i < k
    BY <1>1, <1>2, <1>3, <1>6, <2>1
  <2>2. CASE ~ (i < k)
    <3>1. (a \o b)[i] = b[i - (k - 1)] /\ i - (k - 1) \in 1 .. n - k
      BY <1>1, <1>2, <1>3, <1>6, <2>2
    <3>2. k + (i - (k - 1)) = i + 1
      BY <1>1
    <3> QED
      BY <1>3, <2>2, <3>1, <3>2
  <2> QED
    BY <2>1, <2>2
<1>9. a \o b = [i \in 1 .. n - 1 |-> (a \o b)[i]]
  <2>1. \A z \in Seq(QOrder) : z = [i \in 1 .. Len(z) |-> z[i]]
    OBVIOUS
  <2> QED
    BY <1>6, <1>7, <2>1
<1> QED
  BY <1>4, <1>5, <1>8, <1>9

\* The orders in the queues are those in the index.
LEMMA HeldInIndex ==
    ASSUME BookInv, NEW o \in Promise!HeldIn(Queues)
    PROVE  o.id \in DOMAIN index
<1>1. PICK side \in Sides, p \in Prices : o \in Promise!ToSet(Queues[side][p])
  BY DEF Promise!HeldIn, Promise!Sides, Sides
<1>2. PICK i \in DOMAIN QueueAt(side, p) : o = QueueAt(side, p)[i]
  BY <1>1, QueueIn DEF Promise!ToSet
<1> QED
  BY <1>2, QueuesFit DEF QueueFits

\* No id is beyond those of the model.
IdsBounded == next_id <= MaxOrders + 1

\* AddOrder adds the order to its queue: its id is new to the queues, for the index
\* did not know it.
LEMMA AddIsAdd ==
    ASSUME BookInv, TotalsRight, IdsBounded, NEW s \in Slots, AddOrder(s)
    PROVE  TotalsRight' /\ Promise!Next
<1> DEFINE new == [id |-> cell[s].id, qty |-> cell[s].remaining]
<1>1. PICK side : side = cell[s].side
  OBVIOUS
<1>2. PICK price : price = cell[s].price
  OBVIOUS
<1>3. /\ side \in Sides /\ price \in Prices /\ new \in QOrder
      /\ QueueAt(side, price)' = Append(QueueAt(side, price), new)
      /\ \A sd \in Sides : \A p : ~ (sd = side /\ p = price) => QueueUnmoved(sd, p)
      /\ TotalsRight'
  BY <1>1, <1>2, AddMoves
<1>4. s \in live /\ cell[s].id \notin DOMAIN index
  BY DEF AddOrder, InBook
<1>5. new \in Promise!Order
  <2>1. cell[s].id \in 1 .. next_id - 1 /\ next_id \in Nat
    BY <1>4 DEF BookInv, BookTyped, IndexInv
  <2>2. MaxOrders \in Nat
    BY OrderBookAssumption
  <2>3. cell[s].id \in Ids
    BY <2>1, <2>2 DEF IdsBounded, Ids
  <2> QED
    BY <1>3, <2>3 DEF QOrder, Promise!Order
<1>6. \A o \in Promise!HeldIn(Queues) : o.id # new.id
  BY <1>4, HeldInIndex
<1>7. QueueAt(side, price) \in Seq(QOrder)
  BY <1>3, QueuesFit DEF QueueFits
<1> HIDE DEF new
<1>8. Queues' = [Queues EXCEPT ![side][price] = Append(Queues[side][price], new)]
  BY <1>3, QueueIn, QueuesMove
<1>9. new \in Promise!ToSet(Queues'[side][price])
  <2>1. Queues'[side][price] = Append(QueueAt(side, price), new)
    BY <1>3, QueueIn
  <2>2. ASSUME NEW q \in Seq(QOrder)
        PROVE  new \in Promise!ToSet(Append(q, new))
    <3>1. Append(q, new)[Len(q) + 1] = new /\ Len(q) + 1 \in DOMAIN Append(q, new)
      BY <1>3
    <3> QED
      BY <3>1 DEF Promise!ToSet
  <2> QED
    BY <1>7, <2>1, <2>2
<1>10. Promise!Add(Queues, Queues', side, price, new)
  BY <1>5, <1>6, <1>8 DEF Promise!Add
<1>11. Promise!Next
  BY <1>3, <1>9, <1>10 DEF Promise!Next, Promise!Sides, Sides, Queues
<1> QED
  BY <1>3, <1>11

\* RemoveOrder withdraws the order from its queue.
LEMMA RemoveIsWithdraw ==
    ASSUME BookInv, TotalsRight, NEW gone \in Ids, RemoveOrder(gone)
    PROVE  TotalsRight' /\ Promise!Next
<1>1. PICK s : s = index[gone]
  OBVIOUS
<1>2. PICK side : side = cell[s].side
  OBVIOUS
<1>3. PICK price : price = cell[s].price
  OBVIOUS
<1>4. /\ side \in Sides /\ price \in Prices
      /\ \E k \in 1 .. Len(QueueAt(side, price)) :
            QueueAt(side, price)' = Less(QueueAt(side, price), k)
      /\ \A sd \in Sides : \A p : ~ (sd = side /\ p = price) => QueueUnmoved(sd, p)
      /\ TotalsRight'
  BY <1>1, <1>2, <1>3, RemoveMoves
<1>5. PICK k \in 1 .. Len(QueueAt(side, price)) :
            QueueAt(side, price)' = Less(QueueAt(side, price), k)
  BY <1>4
<1>6. QueueAt(side, price) \in Seq(QOrder)
  BY <1>4, QueuesFit DEF QueueFits
<1>7. Queues' = [Queues EXCEPT ![side][price] = Promise!RemoveAt(Queues[side][price], k)]
  BY <1>4, <1>5, <1>6, QueueIn, QueuesMove, LessIsRemoveAt
<1>8. k \in DOMAIN Queues[side][price]
  BY <1>4, <1>5, <1>6, QueueIn
<1>9. Promise!Withdraw(Queues, Queues', side, price, k)
  BY <1>7 DEF Promise!Withdraw
<1>10. Promise!Next
  BY <1>4, <1>8, <1>9 DEF Promise!Next, Promise!Sides, Sides, Queues
<1> QED
  BY <1>4, <1>10

\* FillOrder reduces the order where it stands.
LEMMA FillIsReduce ==
    ASSUME BookInv, TotalsRight, NEW id \in Ids, NEW qty \in 1 .. MaxFill, FillOrder(id, qty)
    PROVE  TotalsRight' /\ Promise!Next
<1>1. PICK s : s = index[id]
  OBVIOUS
<1>2. PICK side : side = cell[s].side
  OBVIOUS
<1>3. PICK price : price = cell[s].price
  OBVIOUS
<1>4. /\ side \in Sides /\ price \in Prices
      /\ \E k \in 1 .. Len(QueueAt(side, price)) :
            /\ qty \in 1 .. QueueAt(side, price)[k].qty
            /\ QueueAt(side, price)' = Filled(QueueAt(side, price), k, qty)
      /\ \A sd \in Sides : \A p : ~ (sd = side /\ p = price) => QueueUnmoved(sd, p)
      /\ TotalsRight'
  BY <1>1, <1>2, <1>3, FillMoves
<1>5. PICK k \in 1 .. Len(QueueAt(side, price)) :
            /\ qty \in 1 .. QueueAt(side, price)[k].qty
            /\ QueueAt(side, price)' = Filled(QueueAt(side, price), k, qty)
  BY <1>4
<1>6. QueueAt(side, price) \in Seq(QOrder)
  BY <1>4, QueuesFit DEF QueueFits
<1>7. Queues' = [Queues EXCEPT ![side][price] = Filled(Queues[side][price], k, qty)]
  BY <1>4, <1>5, <1>6, QueueIn, QueuesMove
<1>8. /\ k \in DOMAIN Queues[side][price]
      /\ qty \in 1 .. Queues[side][price][k].qty
  BY <1>4, <1>5, <1>6, QueueIn
<1>9. Queues' = [Queues EXCEPT ![side][price][k].qty = Queues[side][price][k].qty - qty]
  BY <1>7 DEF Filled
<1>10. Promise!Reduce(Queues, Queues', side, price, k, qty)
  BY <1>9 DEF Promise!Reduce
<1>11. Promise!Next
  BY <1>4, <1>8, <1>10 DEF Promise!Next, Promise!Sides, Sides, Queues
<1> QED
  BY <1>4, <1>11

\* A book without levels has empty queues.
LEMMA EmptyBook ==
    ASSUME BookInv, \A side \in Sides : DOMAIN levels[side] = {}
    PROVE  TotalsRight /\ Queues = Promise!Empty
<1>1. TotalsRight
  BY DEF TotalsRight
<1>2. \A side \in Sides : \A p \in Prices : QueueAt(side, p) = << >>
  BY QueuesFit DEF QueueFits
<1> QED
  BY <1>1, <1>2 DEF Queues, Promise!Empty, Promise!Sides, Sides

\* A book without levels promises nothing.
EmptyBookIsEmpty ==
    BookInv /\ (\A side \in Sides : DOMAIN levels[side] = {}) => TotalsRight /\ Queues = Promise!Empty

\* The same, in a form that can be taken to the next state.
LEMMA EmptyBooks == EmptyBookIsEmpty
  BY EmptyBook DEF EmptyBookIsEmpty

\* Clear empties the queues, though the orders keep their links.
LEMMA ClearIsEmpty ==
    ASSUME BookInv, Clear
    PROVE  TotalsRight' /\ Promise!Next
<1>1. BookInv' /\ \A side \in Sides : DOMAIN levels'[side] = {}
  BY ClearKeepsBook
<1>2. EmptyBookIsEmpty'
  BY EmptyBooks, PTL
<1>3. TotalsRight' /\ Queues' = Promise!Empty
  BY <1>1, <1>2 DEF EmptyBookIsEmpty, Promise!Empty, Promise!Sides
<1>4. Promise!Next
  BY <1>3 DEF Promise!Next, Queues
<1> QED
  BY <1>3, <1>4

-----------------------------------------------------------------------------
\* A step that leaves every list, total and order leaves the queues.
LEMMA QueuesKept ==
    ASSUME BookInv, TotalsRight, BookInv',
           \A side \in Sides : \A p : LineStays(side, p) /\ TotalStays(side, p),
           \A id \in DOMAIN index : OrderStays(index[id])
    PROVE  TotalsRight' /\ Queues' = Queues
<1>1. ASSUME NEW side \in Sides, NEW p
      PROVE  QueueUnmoved(side, p)
  BY QueueStays DEF QueueUnmoved
<1>2. DOMAIN levels' = Sides
  BY DEF BookInv, BookTyped
<1> QED
  BY <1>1, <1>2, TotalsUnmoved, QueuesRest

\* What the promise rests on beside the lists: the ids stay within the bound,
\* and the totals of the levels are those of the queues.
AnswerInv == IdsBounded /\ TotalsRight

\* The book starts with empty queues.
LEMMA InitIsRight == Init => AnswerInv /\ Promise!Init
<1> SUFFICES ASSUME Init
             PROVE  AnswerInv /\ Promise!Init
  OBVIOUS
<1>1. BookInv
  BY InitIsConsistent
<1>2. \A side \in Sides : DOMAIN levels[side] = {}
  BY DEF Init, NoLevels
<1>3. TotalsRight /\ Queues = Promise!Empty
  BY <1>1, <1>2, EmptyBook
<1>4. IdsBounded
  BY OrderBookAssumption DEF Init, IdsBounded
<1> QED
  BY <1>3, <1>4 DEF AnswerInv, Promise!Init, Queues

\* Only the construction of an order moves the ids.
LEMMA IdsStayBounded ==
    ASSUME BookInv, IdsBounded, [Next]_vars
    PROVE  IdsBounded'
<1>1. MaxOrders \in Nat /\ next_id \in Nat
  BY OrderBookAssumption DEF BookInv, BookTyped
<1>2. next_id' = next_id \/ (next_id <= MaxOrders /\ next_id' = next_id + 1)
  BY DEF Next, vars, Construct, AddOrder, Destroy, RemoveOrder, FillOrder, Clear
<1> QED
  BY <1>1, <1>2 DEF IdsBounded

\* Nothing moves when nothing happens.
LEMMA StutterKeeps ==
    ASSUME BookInv, TotalsRight, UNCHANGED vars
    PROVE  TotalsRight' /\ Queues' = Queues
<1>1. cell' = cell /\ index' = index /\ levels' = levels
  BY DEF vars, bookVars
<1>2. BookInv'
  BY NextKeepsBook
<1>3. \A side \in Sides : \A p : LineStays(side, p) /\ TotalStays(side, p)
  BY <1>1 DEF LineStays, TotalStays
<1>4. \A id \in DOMAIN index : OrderStays(index[id])
  BY <1>1 DEF OrderStays
<1> QED
  BY <1>2, <1>3, <1>4, QueuesKept

\* Every step is one of the queues or leaves them, and keeps the totals right.
LEMMA NextKeepsAnswers ==
    ASSUME BookInv, AnswerInv, [Next]_vars
    PROVE  AnswerInv' /\ (Promise!Next \/ Queues' = Queues)
<1>1. TotalsRight /\ IdsBounded /\ IdsBounded'
  BY IdsStayBounded DEF AnswerInv
<1>2. CASE Next
  <2>1. ASSUME NEW side \in Sides, NEW price \in Prices, NEW qty \in Quantities,
               Construct(side, price, qty)
        PROVE  TotalsRight' /\ Queues' = Queues
    <3>1. /\ BookInv'
          /\ \A sd \in Sides : \A p : LineStays(sd, p) /\ TotalStays(sd, p)
          /\ \A id \in DOMAIN index : OrderStays(index[id])
      BY <2>1, ConstructKeepsBook
    <3> QED
      BY <1>1, <3>1, QueuesKept
  <2>2. ASSUME NEW s \in Slots, AddOrder(s)
        PROVE  TotalsRight' /\ Promise!Next
    BY <1>1, <2>2, AddIsAdd
  <2>3. ASSUME NEW s \in Slots, Destroy(s)
        PROVE  TotalsRight' /\ Queues' = Queues
    <3>1. /\ BookInv'
          /\ \A sd \in Sides : \A p : LineStays(sd, p) /\ TotalStays(sd, p)
          /\ \A id \in DOMAIN index : OrderStays(index[id])
      BY <2>3, DestroyKeepsBook
    <3> QED
      BY <1>1, <3>1, QueuesKept
  <2>4. ASSUME NEW id \in Ids, RemoveOrder(id)
        PROVE  TotalsRight' /\ Promise!Next
    BY <1>1, <2>4, RemoveIsWithdraw
  <2>5. ASSUME NEW id \in Ids, NEW qty \in 1 .. MaxFill, FillOrder(id, qty)
        PROVE  TotalsRight' /\ Promise!Next
    BY <1>1, <2>5, FillIsReduce
  <2>6. ASSUME Clear
        PROVE  TotalsRight' /\ Promise!Next
    BY <1>1, <2>6, ClearIsEmpty
  <2>7. TotalsRight' /\ (Promise!Next \/ Queues' = Queues)
    BY <1>2, <2>1, <2>2, <2>3, <2>4, <2>5, <2>6 DEF Next
  <2> QED
    BY <1>1, <2>7 DEF AnswerInv
<1>3. CASE UNCHANGED vars
  BY <1>1, <1>3, StutterKeeps DEF AnswerInv
<1> QED
  BY <1>2, <1>3

-----------------------------------------------------------------------------
(* The prices of a side in their order                                     *)

\* f lists n prices of a side, best first.
Ordered(side, f, n) == \A i, j \in 1 .. n : i < j => Better(side, f[i], f[j])

\* A set of prices that is not empty has a worst one.
LEMMA WorstExists ==
    ASSUME NEW side, NEW S, IsFiniteSet(S), \A x \in S : x \in Int, S # {}
    PROVE  \E w \in S : \A x \in S : x # w => Better(side, x, w)
<1> DEFINE Worst(T, w) == \A x \in T : x # w => Better(side, x, w)
           Good == { T \in SUBSET S : T # {} => \E w \in T : Worst(T, w) }
<1>1. {} \in Good
  OBVIOUS
<1>2. ASSUME NEW T \in SUBSET S, NEW x \in S \ T, T \in Good
      PROVE  T \cup {x} \in Good
  <2>1. CASE T = {}
    <3>1. Worst(T \cup {x}, x)
      BY <2>1
    <3> QED
      BY <3>1
  <2>2. CASE T # {}
    <3>1. PICK w \in T : Worst(T, w)
      BY <1>2, <2>2
    <3>2. \A y \in T : y \in Int
      OBVIOUS
    <3>3. x \in Int /\ w \in Int /\ x # w
      BY <1>2, <3>1
    <3>4. CASE Better(side, x, w)
      <4>1. Worst(T \cup {x}, w)
        BY <3>1, <3>4
      <4> QED
        BY <3>1, <4>1
    <3>5. CASE ~ Better(side, x, w)
      <4>1. Worst(T \cup {x}, x)
        BY <3>1, <3>2, <3>3, <3>5 DEF Better
      <4> QED
        BY <4>1
    <3> QED
      BY <3>4, <3>5
  <2> QED
    BY <2>1, <2>2
<1>3. S \in Good
  <2> HIDE DEF Good
  <2> QED
    BY <1>1, <1>2, ElementInduction
<1> QED
  BY <1>3

\* A finite set of prices can be listed from the best to the worst.
LEMMA OrderedExists ==
    ASSUME NEW side, NEW S, IsFiniteSet(S), \A x \in S : x \in Int
    PROVE  \E f \in [1 .. Cardinality(S) -> S] : Ordered(side, f, Cardinality(S))
<1> DEFINE Has(T, n) == \E f \in [1 .. n -> T] : Ordered(side, f, n)
           Good == { n \in Nat : \A T \in SUBSET S : Cardinality(T) = n => Has(T, n) }
<1>1. 0 \in Good
  <2>1. ASSUME NEW T \in SUBSET S, Cardinality(T) = 0
        PROVE  Has(T, 0)
    <3> DEFINE f == [i \in 1 .. 0 |-> 0]
    <3>1. f \in [1 .. 0 -> T] /\ Ordered(side, f, 0)
      BY DEF Ordered
    <3> QED
      BY <3>1
  <2> HIDE DEF Has
  <2> QED
    BY <2>1
<1>2. ASSUME NEW n \in Nat, n \in Good
      PROVE  n + 1 \in Good
  <2>1. ASSUME NEW T \in SUBSET S, Cardinality(T) = n + 1
        PROVE  Has(T, n + 1)
    <3>1. IsFiniteSet(T) /\ T # {} /\ \A x \in T : x \in Int
      BY <2>1, FS_Subset, FS_EmptySet
    <3>2. PICK w \in T : \A x \in T : x # w => Better(side, x, w)
      BY <3>1, WorstExists
    <3>3. T \ {w} \in SUBSET S /\ Cardinality(T \ {w}) = n
      <4>1. Cardinality(T \ {w}) = Cardinality(T) - 1
        BY <3>1, <3>2, FS_RemoveElement
      <4>2. Cardinality(T \ {w}) = n
        BY <2>1, <4>1
      <4> QED
        BY <4>2
    <3>4. Has(T \ {w}, n)
      BY <1>2, <3>3
    <3>5. PICK f \in [1 .. n -> T \ {w}] : Ordered(side, f, n)
      BY <3>4
    <3> DEFINE g == [i \in 1 .. n + 1 |-> IF i = n + 1 THEN w ELSE f[i]]
    <3>6. \A i \in 1 .. n + 1 : i = n + 1 \/ (i \in 1 .. n /\ i # n + 1)
      OBVIOUS
    <3>7. \A i \in 1 .. n : f[i] \in T /\ f[i] # w
      BY <3>5
    <3>8. g \in [1 .. n + 1 -> T]
      BY <3>2, <3>6, <3>7
    <3>9. \A i \in 1 .. n + 1 : g[i] = IF i = n + 1 THEN w ELSE f[i]
      OBVIOUS
    <3> HIDE DEF g
    <3>10. ASSUME NEW i \in 1 .. n + 1, NEW j \in 1 .. n + 1, i < j
           PROVE  Better(side, g[i], g[j])
      <4>1. i \in 1 .. n /\ g[i] = f[i]
        BY <3>9, <3>10
      <4>2. CASE j = n + 1
        BY <3>2, <3>7, <3>9, <4>1, <4>2
      <4>3. CASE j # n + 1
        <5>1. j \in 1 .. n /\ g[j] = f[j]
          BY <3>6, <3>9, <4>3
        <5> QED
          BY <3>5, <3>10, <4>1, <5>1 DEF Ordered
      <4> QED
        BY <4>2, <4>3
    <3>11. Ordered(side, g, n + 1)
      BY <3>10 DEF Ordered
    <3> QED
      BY <3>8, <3>11
  <2> HIDE DEF Has
  <2> QED
    BY <2>1
<1>3. Cardinality(S) \in Nat
  BY FS_CardinalityType
<1>4. Cardinality(S) \in Good
  <2> HIDE DEF Good
  <2> QED
    BY <1>1, <1>2, <1>3, NatSetInduction
<1> QED
  BY <1>4

\* A list of all the prices misses none.
LEMMA OrderedReachesAll ==
    ASSUME NEW side, NEW S, IsFiniteSet(S), \A x \in S : x \in Int,
           NEW f \in [1 .. Cardinality(S) -> S], Ordered(side, f, Cardinality(S)),
           NEW x \in S
    PROVE  \E i \in 1 .. Cardinality(S) : f[i] = x
<1> DEFINE n == Cardinality(S)
<1>1. n \in Nat /\ IsFiniteSet(1 .. n) /\ Cardinality(1 .. n) = n
  <2>1. n \in Nat
    BY FS_CardinalityType
  <2> HIDE DEF n
  <2> QED
    BY <2>1, FS_Interval
<1>2. IsFiniteSet(S \ {x}) /\ Cardinality(S \ {x}) = n - 1
  BY FS_RemoveElement
<1>3. SUFFICES ASSUME \A i \in 1 .. n : f[i] # x
               PROVE  FALSE
  OBVIOUS
<1>4. f \in [1 .. n -> S \ {x}]
  BY <1>3
<1>5. \A i, j \in 1 .. n : i < j => f[i] # f[j]
  <2>1. \A i \in 1 .. n : f[i] \in Int
    OBVIOUS
  <2>2. \A i, j \in 1 .. n : i < j => Better(side, f[i], f[j])
    BY DEF Ordered
  <2> HIDE DEF n
  <2> QED
    BY <2>1, <2>2 DEF Better
<1> HIDE DEF n
<1>6. PICK i \in 1 .. n, j \in 1 .. n : i # j /\ f[i] = f[j]
  <2>1. Cardinality(S \ {x}) < Cardinality(1 .. n)
    BY <1>1, <1>2
  <2> QED
    BY <1>1, <1>2, <1>4, <2>1, FS_PigeonHole
<1>7. i < j \/ j < i
  BY <1>1, <1>6
<1> QED
  BY <1>5, <1>6, <1>7

-----------------------------------------------------------------------------
(* The answers                                                             *)

\* The prices of a side that have a level.
LEMMA PricesFinite ==
    ASSUME BookInv, NEW side \in Sides
    PROVE  /\ IsFiniteSet(DOMAIN levels[side])
           /\ Cardinality(DOMAIN levels[side]) \in Nat
           /\ Cardinality(DOMAIN levels[side]) <= Cardinality(Prices)
           /\ Cardinality(Prices) \in Nat
           /\ \A p \in DOMAIN levels[side] : p \in Prices
           /\ \A p \in Prices : p \in Nat /\ p \in Int /\ p < MaxPrice
<1>1. \A p \in DOMAIN levels[side] : p \in Prices
  BY DEF BookInv, BookTyped
<1>2. MaxPrice \in Nat /\ \A p \in Prices : p \in Nat /\ p \in Int /\ p < MaxPrice
  BY OrderBookAssumption
<1>3. Prices \in SUBSET Nat /\ \A p \in Prices : p <= MaxPrice
  BY <1>2
<1>4. IsFiniteSet(Prices)
  BY <1>2, <1>3, FS_BoundedSetOfNaturals
<1>5. DOMAIN levels[side] \in SUBSET Prices
  BY <1>1
<1> QED
  BY <1>1, <1>2, <1>4, <1>5, FS_Subset, FS_CardinalityType

\* The price levels of a side in their order, as depth queries see them.
DepthOf(side, f, n) ==
    /\ f \in [1 .. n -> DOMAIN levels[side]]
    /\ Ordered(side, f, n)
    /\ \A p \in DOMAIN levels[side] : \E i \in 1 .. n : f[i] = p
    /\ GetDepth(side, Cardinality(Prices)) =
          [i \in 1 .. n |-> [price |-> f[i], qty |-> levels[side][f[i]].total_quantity,
                             count |-> levels[side][f[i]].order_count]]

\* The lesser of two numbers.
LEMMA MinIsLeast ==
    ASSUME NEW a \in Int, NEW b \in Int
    PROVE  Min({a, b}) = IF a <= b THEN a ELSE b
<1>1. ASSUME NEW m, m = IF a <= b THEN a ELSE b
      PROVE  Min({a, b}) = m
  <2>1. m \in {a, b} /\ \A y \in {a, b} : m <= y
    BY <1>1
  <2>2. ASSUME NEW x \in {a, b}, \A y \in {a, b} : x <= y
        PROVE  x = m
    BY <1>1, <2>2
  <2> QED
    BY <2>1, <2>2 DEF Min
<1> QED
  BY <1>1

\* The depth query lists all the levels of a side, best first.
LEMMA DepthExists ==
    ASSUME BookInv, NEW side \in Sides
    PROVE  \E f : DepthOf(side, f, Cardinality(DOMAIN levels[side]))
<1> DEFINE prices == DOMAIN levels[side]
           n == Cardinality(prices)
           sorted == CHOOSE f \in [1 .. n -> prices] :
                        \A i, j \in DOMAIN f : i < j => Better(side, f[i], f[j])
<1>1. /\ IsFiniteSet(prices) /\ n \in Nat /\ \A p \in prices : p \in Int
      /\ n <= Cardinality(Prices) /\ Cardinality(Prices) \in Nat
  BY PricesFinite
<1>2. \E f \in [1 .. n -> prices] : Ordered(side, f, n)
  <2> HIDE DEF prices
  <2> QED
    BY <1>1, OrderedExists
<1>3. \E f \in [1 .. n -> prices] : \A i, j \in DOMAIN f : i < j => Better(side, f[i], f[j])
  <2> HIDE DEF n, prices
  <2> QED
    BY <1>2 DEF Ordered
<1>4. /\ sorted \in [1 .. n -> prices]
      /\ \A i, j \in DOMAIN sorted : i < j => Better(side, sorted[i], sorted[j])
  <2> HIDE DEF n, prices
  <2> QED
    BY <1>3
<1>5. GetDepth(side, Cardinality(Prices)) =
         [i \in 1 .. Min({Cardinality(Prices), n}) |->
             [price |-> sorted[i], qty |-> levels[side][sorted[i]].total_quantity,
              count |-> levels[side][sorted[i]].order_count]]
  BY DEF GetDepth
<1> HIDE DEF sorted
<1>6. Ordered(side, sorted, n)
  BY <1>4 DEF Ordered
<1>7. \A p \in prices : \E i \in 1 .. n : sorted[i] = p
  <2> HIDE DEF prices
  <2> QED
    BY <1>1, <1>4, <1>6, OrderedReachesAll
<1>8. Min({Cardinality(Prices), n}) = n
  <2> HIDE DEF n
  <2> QED
    BY <1>1, MinIsLeast
<1>9. DepthOf(side, sorted, n)
  <2> HIDE DEF n
  <2> QED
    BY <1>4, <1>5, <1>6, <1>7, <1>8 DEF DepthOf
<1> QED
  BY <1>9

-----------------------------------------------------------------------------
(* Division                                                                *)

\* What integer division returns.
LEMMA DivBounds ==
    ASSUME NEW n \in Int, NEW d \in Int, d > 0
    PROVE  /\ n \div d \in Int
           /\ d * (n \div d) <= n /\ n < d * ((n \div d) + 1)
  OBVIOUS

\* Half of a number, rounded down.
LEMMA HalfBounds ==
    ASSUME NEW n \in Int
    PROVE  n \div 2 \in Int /\ 2 * (n \div 2) \in {n, n - 1}
<1>1. n \div 2 \in Int /\ 2 * (n \div 2) <= n /\ n < 2 * (n \div 2) + 2
  OBVIOUS
<1> QED
  BY <1>1

\* Products keep the order of their factors.
LEMMA TimesKeepsOrder ==
    ASSUME NEW a \in Int, NEW b \in Int, NEW d \in Nat, a <= b
    PROVE  a * d \in Int /\ b * d \in Int /\ a * d <= b * d
  OBVIOUS

\* The order of products is that of their factors.
LEMMA TimesReflectsOrder ==
    ASSUME NEW x \in Int, NEW y \in Int, NEW d \in Int, d > 0, d * x < d * y
    PROVE  x < y
  OBVIOUS

\* A product of a sum is the sum of the products.
LEMMA TimesSum ==
    ASSUME NEW x \in Int, NEW a \in Int, NEW b \in Int
    PROVE  (a + b) * x = x * a + x * b /\ (a + b) * x \in Int
  OBVIOUS

\* Bounds of a quotient from those of the dividend.
LEMMA QuotientBetween ==
    ASSUME NEW n \in Int, NEW d \in Int, d > 0, NEW lo \in Int, NEW hi \in Int,
           d * lo <= n, n <= d * hi
    PROVE  n \div d \in lo .. hi
<1> DEFINE q == n \div d
<1>1. q \in Int /\ d * q <= n /\ n < d * (q + 1)
  BY DivBounds
<1> HIDE DEF q
<1>2. d * lo \in Int /\ d * hi \in Int /\ d * q \in Int /\ d * (q + 1) \in Int
  BY <1>1
<1>3. d * lo < d * (q + 1)
  BY <1>1, <1>2
<1>4. lo < q + 1
  BY <1>1, <1>3, TimesReflectsOrder
<1>5. d * hi < d * (hi + 1) /\ d * (hi + 1) \in Int
  OBVIOUS
<1>6. d * q < d * (hi + 1)
  BY <1>1, <1>2, <1>5
<1>7. q < hi + 1
  BY <1>1, <1>6, TimesReflectsOrder
<1>8. q \in lo .. hi
  BY <1>1, <1>4, <1>7
<1> QED
  BY <1>8 DEF q

\* A weighted mean lies between its values.
LEMMA MeanBetween ==
    ASSUME NEW x \in Int, NEW y \in Int, NEW a \in Nat, NEW b \in Nat, a + b # 0,
           NEW lo \in Int, NEW hi \in Int, lo <= x, x <= hi, lo <= y, y <= hi
    PROVE  (x * a + y * b) \div (a + b) \in lo .. hi
<1> DEFINE n == x * a + y * b
           d == a + b
<1>1. d \in Int /\ d > 0
  OBVIOUS
<1>2. /\ x * a \in Int /\ lo * a \in Int /\ hi * a \in Int
      /\ lo * a <= x * a /\ x * a <= hi * a
  BY TimesKeepsOrder
<1>3. /\ y * b \in Int /\ lo * b \in Int /\ hi * b \in Int
      /\ lo * b <= y * b /\ y * b <= hi * b
  BY TimesKeepsOrder
<1>4. d * lo = lo * a + lo * b /\ d * hi = hi * a + hi * b
  BY TimesSum
<1>5. n \in Int /\ lo * a + lo * b <= n /\ n <= hi * a + hi * b
  BY <1>2, <1>3
<1> HIDE DEF n, d
<1>6. n \div d \in lo .. hi
  BY <1>1, <1>4, <1>5, QuotientBetween
<1> QED
  BY <1>6 DEF n, d

-----------------------------------------------------------------------------
(* The answers                                                             *)

\* The promise's sums are those of the lemmas on sums.
LEMMA PromiseSums == \A f : Promise!SumFunction(f) = SumFunction(f)
  BY DEF Promise!SumFunction, Promise!SumFunctionOnSet, Promise!FoldFunctionOnSet,
         Promise!MapThenFoldSet, SumFunction, SumFunctionOnSet, FoldFunctionOnSet, MapThenFoldSet

\* The promise's total of a queue is the total of the queue.
LEMMA PromiseTotal ==
    ASSUME NEW q
    PROVE  Promise!SumFunction([k \in DOMAIN q |-> q[k].qty]) = Total(q)
  BY PromiseSums DEF Total

\* The lesser and the greater of two prices.
LEMMA PromiseExtremes ==
    ASSUME NEW a \in Int, NEW b \in Int
    PROVE  /\ Promise!Min({a, b}) = IF a <= b THEN a ELSE b
           /\ Promise!Max({a, b}) = IF a <= b THEN b ELSE a
<1>1. ASSUME NEW m, m = IF a <= b THEN a ELSE b
      PROVE  Promise!Min({a, b}) = m
  <2>1. m \in {a, b} /\ \A y \in {a, b} : m <= y
    BY <1>1
  <2>2. ASSUME NEW x \in {a, b}, \A y \in {a, b} : x <= y
        PROVE  x = m
    BY <1>1, <2>2
  <2> QED
    BY <2>1, <2>2 DEF Promise!Min
<1>2. ASSUME NEW m, m = IF a <= b THEN b ELSE a
      PROVE  Promise!Max({a, b}) = m
  <2>1. m \in {a, b} /\ \A y \in {a, b} : m >= y
    BY <1>2
  <2>2. ASSUME NEW x \in {a, b}, \A y \in {a, b} : x >= y
        PROVE  x = m
    BY <1>2, <2>2
  <2> QED
    BY <2>1, <2>2 DEF Promise!Max
<1> QED
  BY <1>1, <1>2

\* The best level is the first of the depth.
LEMMA BestIsFirst ==
    ASSUME BookInv, NEW side \in Sides, NEW f, NEW n \in Nat, n # 0, DepthOf(side, f, n)
    PROVE  BestLevel(side) = f[1] /\ f[1] \in DOMAIN levels[side]
<1> DEFINE prices == DOMAIN levels[side]
           Best(p) == \A q \in prices : p = q \/ Better(side, p, q)
<1>1. 1 \in 1 .. n
  OBVIOUS
<1>2. f[1] \in prices
  BY <1>1 DEF DepthOf
<1>3. Best(f[1])
  <2>1. ASSUME NEW q \in prices
        PROVE  f[1] = q \/ Better(side, f[1], q)
    <3>1. PICK i \in 1 .. n : f[i] = q
      BY DEF DepthOf
    <3>2. i = 1 \/ 1 < i
      OBVIOUS
    <3> QED
      BY <1>1, <3>1, <3>2 DEF DepthOf, Ordered
  <2> QED
    BY <2>1
<1>4. ASSUME NEW p \in prices, Best(p)
      PROVE  p = f[1]
  <2>1. p \in Int /\ f[1] \in Int
    BY <1>2, PricesFinite
  <2>2. p = f[1] \/ Better(side, p, f[1])
    BY <1>2, <1>4
  <2>3. p = f[1] \/ Better(side, f[1], p)
    BY <1>3
  <2> QED
    BY <2>1, <2>2, <2>3 DEF Better
<1>5. BestLevel(side) = CHOOSE p \in prices : Best(p)
  BY DEF BestLevel
<1> HIDE DEF Best
<1> QED
  BY <1>2, <1>3, <1>4, <1>5

\* All the levels of a side.
Depth(side) == GetDepth(side, Cardinality(Prices))

\* What the promise asks of the answers of a side, and how the best price is one of them.
SideFits(side) ==
    /\ Promise!AreLevels(Depth(side), side, Queues[side])
    /\ IsEmpty(side) <=> Depth(side) = << >>
    /\ ~ IsEmpty(side) => /\ BestLevel(side) \in DOMAIN levels[side]
                          /\ Depth(side)[1].price = BestLevel(side)

\* A level says of its queue how long it is and how much it holds.
LEMMA LevelFits ==
    ASSUME BookInv, TotalsRight, NEW side \in Sides, NEW p \in DOMAIN levels[side]
    PROVE  /\ p \in Prices
           /\ levels[side][p].total_quantity = Total(QueueAt(side, p))
           /\ levels[side][p].total_quantity \in Nat
           /\ levels[side][p].order_count = Len(QueueAt(side, p))
           /\ levels[side][p].order_count \in Nat
           /\ Queues[side][p] = QueueAt(side, p)
<1>1. p \in Prices
  BY PricesFinite
<1>2. QueueAt(side, p) \in Seq(QOrder) /\ levels[side][p].order_count = Len(QueueAt(side, p))
  BY QueuesFit DEF QueueFits
<1>3. levels[side][p].total_quantity = Total(QueueAt(side, p))
  BY DEF TotalsRight
<1>4. Total(QueueAt(side, p)) \in Nat /\ Len(QueueAt(side, p)) \in Nat
  BY <1>2, TotalNat
<1> QED
  BY <1>1, <1>2, <1>3, <1>4, QueueIn

\* The answers of each side fit its queues.
LEMMA AnswersFit ==
    ASSUME BookInv, TotalsRight, NEW side \in Sides
    PROVE  SideFits(side)
<1> DEFINE prices == DOMAIN levels[side]
           list == Depth(side)
<1>1. PICK n : n = Cardinality(prices)
  OBVIOUS
<1>2. IsFiniteSet(prices) /\ n \in Nat
  BY <1>1, PricesFinite
<1>3. PICK f : DepthOf(side, f, n)
  BY <1>1, DepthExists
<1>4. list = [i \in 1 .. n |-> [price |-> f[i], qty |-> levels[side][f[i]].total_quantity,
                                count |-> levels[side][f[i]].order_count]]
  BY <1>3 DEF DepthOf, Depth
<1>5. /\ \A i \in 1 .. n : f[i] \in prices
      /\ \A p \in prices : \E i \in 1 .. n : f[i] = p
      /\ Ordered(side, f, n)
  BY <1>3 DEF DepthOf
<1> HIDE DEF list
<1>6. DOMAIN list = 1 .. n /\ list = [i \in 1 .. n |-> list[i]]
  BY <1>4
<1>7. \A i \in 1 .. n : /\ list[i].price = f[i]
                        /\ list[i].qty = levels[side][f[i]].total_quantity
                        /\ list[i].count = levels[side][f[i]].order_count
                        /\ list[i] = [price |-> f[i], qty |-> levels[side][f[i]].total_quantity,
                                      count |-> levels[side][f[i]].order_count]
  BY <1>4
<1>8. \A i \in 1 .. n : list[i] \in Promise!Level
  <2>1. \A p \in prices : /\ p \in Prices /\ levels[side][p].total_quantity \in Nat
                          /\ levels[side][p].order_count \in Nat
    BY LevelFits
  <2> HIDE DEF prices
  <2>2. ASSUME NEW i \in 1 .. n
        PROVE  list[i] \in Promise!Level
    <3>1. f[i] \in prices
      BY <1>5
    <3>2. /\ f[i] \in Prices /\ levels[side][f[i]].total_quantity \in Nat
          /\ levels[side][f[i]].order_count \in Nat
      BY <2>1, <3>1
    <3>3. list[i] = [price |-> f[i], qty |-> levels[side][f[i]].total_quantity,
                     count |-> levels[side][f[i]].order_count]
      BY <1>7
    <3> QED
      BY <3>2, <3>3 DEF Promise!Level
  <2> QED
    BY <2>2
<1>9. list \in Seq(Promise!Level)
  BY <1>2, <1>6, <1>8
<1>10. { list[i].price : i \in DOMAIN list } = { p \in Prices : Queues[side][p] # << >> }
  <2>1. { list[i].price : i \in DOMAIN list } = prices
    BY <1>5, <1>6, <1>7
  <2>2. \A p \in Prices : p \in prices <=> Queues[side][p] # << >>
    BY QueuesFit, QueueIn DEF QueueFits
  <2>3. \A p \in prices : p \in Prices
    BY PricesFinite
  <2> QED
    BY <2>1, <2>2, <2>3
<1>11. \A i, j \in DOMAIN list : i < j => Promise!Better(side, list[i].price, list[j].price)
  BY <1>5, <1>6, <1>7 DEF Ordered, Better, Promise!Better
<1>12. ASSUME NEW i \in DOMAIN list
       PROVE  LET orders == Queues[side][list[i].price]
              IN  /\ list[i].count = Len(orders)
                  /\ list[i].qty = Promise!SumFunction([k \in DOMAIN orders |-> orders[k].qty])
  <2> DEFINE q == Queues[side][f[i]]
  <2>1. list[i].price = f[i] /\ f[i] \in prices
    BY <1>5, <1>6, <1>7, <1>12
  <2>2. /\ q = QueueAt(side, f[i])
        /\ list[i].qty = Total(q) /\ list[i].count = Len(q)
    BY <1>6, <1>7, <1>12, <2>1, LevelFits
  <2> HIDE DEF q
  <2>3. /\ list[i].count = Len(q)
        /\ list[i].qty = Promise!SumFunction([k \in DOMAIN q |-> q[k].qty])
    BY <2>2, PromiseTotal
  <2> QED
    BY <2>1, <2>3 DEF q
<1>13. Promise!AreLevels(list, side, Queues[side])
  BY <1>9, <1>10, <1>11, <1>12 DEF Promise!AreLevels
<1>14. IsEmpty(side) <=> n = 0
  BY <1>1, <1>2, FS_EmptySet DEF IsEmpty
<1>15. list = << >> <=> n = 0
  BY <1>2, <1>6, <1>9
<1>16. ASSUME n # 0
       PROVE  BestLevel(side) \in prices /\ list[1].price = BestLevel(side)
  <2>1. 1 \in 1 .. n
    BY <1>2, <1>16
  <2>2. BestLevel(side) = f[1] /\ f[1] \in prices
    BY <1>2, <1>3, <1>16, BestIsFirst
  <2> HIDE DEF prices
  <2> QED
    BY <1>7, <2>1, <2>2
<1> QED
  BY <1>13, <1>14, <1>15, <1>16 DEF SideFits, list

-----------------------------------------------------------------------------

\* Spread, mid and micro price of a book with orders on both sides.
LEMMA PricesFit ==
    ASSUME BookInv, TotalsRight, ~ OneSided,
           NEW bid, bid = BestPrice("Buy"), NEW ask, ask = BestPrice("Sell")
    PROVE  /\ Spread = ask - bid
           /\ 2 * MidPrice \in {bid + ask, bid + ask - 1}
           /\ MicroPrice \in Promise!Min({bid, ask}) .. Promise!Max({bid, ask})
<1> DEFINE bidQty == BestQuantity("Buy")
           askQty == BestQuantity("Sell")
<1>1. ASSUME NEW side \in Sides
      PROVE  BestPrice(side) \in Int /\ BestQuantity(side) \in Nat
  <2>1. ~ IsEmpty(side)
    BY DEF OneSided, Sides
  <2>2. BestPrice(side) = BestLevel(side)
    BY <2>1 DEF BestPrice
  <2>3. BestQuantity(side) = levels[side][BestLevel(side)].total_quantity
    BY <2>1 DEF BestQuantity
  <2>4. BestLevel(side) \in DOMAIN levels[side]
    BY <2>1, AnswersFit DEF SideFits
  <2>5. BestLevel(side) \in Int
    BY <2>4, PricesFinite
  <2>6. levels[side][BestLevel(side)].total_quantity \in Nat
    BY <2>4, LevelFits
  <2> QED
    BY <2>2, <2>3, <2>5, <2>6
<1>2. bid \in Int /\ ask \in Int /\ bidQty \in Nat /\ askQty \in Nat
  BY <1>1 DEF Sides
<1>3. Spread = ask - bid /\ MidPrice = (bid + ask) \div 2
  BY DEF Spread, MidPrice
<1>4. MicroPrice = IF bidQty + askQty = 0 THEN MidPrice
                   ELSE (bid * askQty + ask * bidQty) \div (bidQty + askQty)
  BY DEF MicroPrice
<1> HIDE DEF bidQty, askQty
<1>5. 2 * MidPrice \in {bid + ask, bid + ask - 1} /\ MidPrice \in Int
  BY <1>2, <1>3, HalfBounds
<1>6. PICK lo, hi : /\ lo = IF bid <= ask THEN bid ELSE ask
                    /\ hi = IF bid <= ask THEN ask ELSE bid
  OBVIOUS
<1>7. /\ lo \in Int /\ hi \in Int
      /\ lo <= bid /\ bid <= hi /\ lo <= ask /\ ask <= hi
  BY <1>2, <1>6
<1>8. Promise!Min({bid, ask}) = lo /\ Promise!Max({bid, ask}) = hi
  BY <1>2, <1>6, PromiseExtremes
<1>9. MicroPrice \in lo .. hi
  <2>1. CASE bidQty + askQty = 0
    BY <1>2, <1>4, <1>5, <1>7, <2>1
  <2>2. CASE bidQty + askQty # 0
    <3>1. askQty + bidQty # 0 /\ askQty + bidQty = bidQty + askQty
      BY <1>2, <2>2
    <3>2. (bid * askQty + ask * bidQty) \div (askQty + bidQty) \in lo .. hi
      BY <1>2, <1>7, <3>1, MeanBetween
    <3> QED
      BY <1>4, <2>2, <3>1, <3>2
  <2> QED
    BY <2>1, <2>2
<1> QED
  BY <1>3, <1>5, <1>8, <1>9

\* All that the book answers.
Answers ==
    [bids |-> GetDepth("Buy", Cardinality(Prices)), best_bid |-> BestPrice("Buy"),
     asks |-> GetDepth("Sell", Cardinality(Prices)), best_ask |-> BestPrice("Sell"),
     spread |-> Spread, mid |-> MidPrice, micro |-> MicroPrice]

\* What the book answers fits its queues.
LEMMA BookAnswers ==
    ASSUME BookInv, AnswerInv
    PROVE  Promise!Fits(Answers, Queues)
<1>1. TotalsRight
  BY DEF AnswerInv
<1> DEFINE bids == Depth("Buy")
           asks == Depth("Sell")
           bid == BestPrice("Buy")
           ask == BestPrice("Sell")
<1>2. SideFits("Buy") /\ SideFits("Sell")
  BY <1>1, AnswersFit DEF Sides
<1>3. /\ Answers.bids = bids /\ Answers.asks = asks
      /\ Answers.best_bid = bid /\ Answers.best_ask = ask
      /\ Answers.spread = Spread /\ Answers.mid = MidPrice /\ Answers.micro = MicroPrice
  BY DEF Answers, Depth
<1>4. /\ Promise!AreLevels(bids, "Buy", Queues["Buy"])
      /\ Promise!AreLevels(asks, "Sell", Queues["Sell"])
      /\ IsEmpty("Buy") <=> bids = << >>
      /\ IsEmpty("Sell") <=> asks = << >>
  BY <1>2 DEF SideFits
<1>5. bid = IF bids = << >> THEN 0 ELSE bids[1].price
  BY <1>2 DEF SideFits, BestPrice
<1>6. ask = IF asks = << >> THEN MaxPrice ELSE asks[1].price
  BY <1>2 DEF SideFits, BestPrice
<1>7. OneSided <=> bids = << >> \/ asks = << >>
  BY <1>4 DEF OneSided
<1>8. OneSided => Spread = MaxPrice /\ MidPrice = 0 /\ MicroPrice = 0
  BY DEF Spread, MidPrice, MicroPrice
<1>9. ~ OneSided => /\ Spread = ask - bid
                    /\ 2 * MidPrice \in {bid + ask, bid + ask - 1}
                    /\ MicroPrice \in Promise!Min({bid, ask}) .. Promise!Max({bid, ask})
  BY <1>1, PricesFit
<1> HIDE DEF bids, asks, bid, ask
<1>10. IF bids = << >> \/ asks = << >>
       THEN Spread = MaxPrice /\ MidPrice = 0 /\ MicroPrice = 0
       ELSE /\ Spread = ask - bid
            /\ 2 * MidPrice \in {bid + ask, bid + ask - 1}
            /\ MicroPrice \in Promise!Min({bid, ask}) .. Promise!Max({bid, ask})
  BY <1>7, <1>8, <1>9
<1> QED
  BY <1>3, <1>4, <1>5, <1>6, <1>10 DEF Promise!Fits

\* What the code promises of the book (orderbook.hpp:27 "Add order to this price
\* level (FIFO)", get_depth, best_price, spread, mid_price and micro_price): however
\* many orders are constructed, added, filled, removed from the middle of a level,
\* cleared and destroyed, through reused slots, every side and price keeps the queue of
\* its orders by time of arrival, and the levels, totals, best prices, spread, mid and
\* micro price the book answers are those of the queues.  The walks follow the lists
\* of BookInv, and a level's total is the sum over its queue at all times.
THEOREM BookImplementsQueues == Spec => ImplementsBook
<1>1. Init => BookInv /\ AnswerInv /\ Promise!Init
  BY InitIsConsistent, InitIsRight
<1>2. BookInv /\ AnswerInv /\ [Next]_vars => BookInv' /\ AnswerInv'
  BY NextKeepsBook, NextKeepsAnswers
<1>3. BookInv /\ AnswerInv /\ [Next]_vars => [Promise!Next]_Queues
  BY NextKeepsAnswers
<1>4. BookInv /\ AnswerInv => Promise!Fits(Answers, Queues)
  BY BookAnswers
<1> QED
  BY <1>1, <1>2, <1>3, <1>4, PTL DEF Spec, ImplementsBook, Promise!Spec, Queues, Answers
=============================================================================
