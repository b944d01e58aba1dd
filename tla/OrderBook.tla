----------------------------- MODULE OrderBook -----------------------------
(***************************************************************************)
(* backtest::OrderBook down to its pointers: orders in slots of a          *)
(* MemoryPool, chained into price levels by prev_at_price and              *)
(* next_at_price, two maps of levels, and the index by id.  The caller     *)
(* plays the engine's part: it constructs orders, adds, fills and removes  *)
(* them, and may destroy an order that is not in the book.                 *)
(***************************************************************************)
EXTENDS Integers, Sequences, FiniteSets, FiniteSetsExt, SequencesExt

CONSTANTS
    Prices, Quantities,
    MaxPrice,               \* Price::max()
    BlockSize, MaxBlocks,   \* of MemoryPool
    MaxFill,                \* bound: largest fill
    MaxOrders               \* bound: orders constructed

ASSUME OrderBookAssumption ==
    /\ Prices \subseteq Nat \ {0} /\ Quantities \subseteq Nat
    /\ MaxPrice \in Nat /\ \A p \in Prices : p < MaxPrice
    /\ {BlockSize, MaxBlocks, MaxFill, MaxOrders} \subseteq Nat \ {0}

VARIABLES
    free_slots, link, current_slot, blocks,     \* of MemoryPool
    cell,       \* the order in each slot
    live,       \* history: slots that hold a constructed order
    next_id,    \* IdGenerator
    index,      \* orders_: from ids to slots
    levels      \* levels_ of bids_ and asks_: from prices to PriceLevel

poolVars == <<free_slots, link, current_slot, blocks>>
bookVars == <<index, levels>>
vars == <<poolVars, cell, live, next_id, bookVars>>

Pool == INSTANCE MemoryPool
Null == Pool!Null
Slots == Pool!Slots

Sides == {"Buy", "Sell"}
Ids == 1..MaxOrders

Blank == [id |-> 0, side |-> "Buy", price |-> 0, remaining |-> 0,
          prev |-> Null, next |-> Null]
NewLevel == [total_quantity |-> 0, order_count |-> 0, head |-> Null, tail |-> Null]
NoLevels == [s \in Sides |-> << >>]
Keep(f, S) == [x \in S |-> f[x]]

-----------------------------------------------------------------------------
(* PriceLevel                                                              *)

LevelOf(o) == IF o.price \in DOMAIN levels[o.side] THEN levels[o.side][o.price] ELSE NewLevel

\* The order in slot s goes to the end of its level's list.
Linked(s, l) ==
    [x \in Slots |-> IF x = s THEN [cell[s] EXCEPT !.prev = l.tail, !.next = Null]
                     ELSE IF x = l.tail THEN [cell[x] EXCEPT !.next = s] ELSE cell[x]]

LevelWith(s, l) ==
    [total_quantity |-> l.total_quantity + cell[s].remaining,
     order_count |-> l.order_count + 1,
     head |-> IF l.tail = Null THEN s ELSE l.head,
     tail |-> s]

Unlinked(s) ==
    LET o == cell[s]
    IN  [x \in Slots |-> IF x = s THEN [o EXCEPT !.prev = Null, !.next = Null]
                         ELSE IF x = o.prev THEN [cell[x] EXCEPT !.next = o.next]
                         ELSE IF x = o.next THEN [cell[x] EXCEPT !.prev = o.prev]
                         ELSE cell[x]]

\* Variants named ..._ are plausible slips in the definition that follows them;
\* no specification uses them, the mutation checks do.
LevelWithout_KeepsTail(s, l) ==
    [total_quantity |-> l.total_quantity - cell[s].remaining,
     order_count |-> l.order_count - 1,
     head |-> IF cell[s].prev = Null THEN cell[s].next ELSE l.head,
     tail |-> l.tail]

LevelWithout(s, l) ==
    [total_quantity |-> l.total_quantity - cell[s].remaining,
     order_count |-> l.order_count - 1,
     head |-> IF cell[s].prev = Null THEN cell[s].next ELSE l.head,
     tail |-> IF cell[s].next = Null THEN cell[s].prev ELSE l.tail]

-----------------------------------------------------------------------------
(* OrderBookSide and OrderBook                                             *)

Init ==
    /\ Pool!Init
    /\ cell = [s \in Slots |-> Blank]
    /\ live = {} /\ next_id = 1
    /\ index = << >> /\ levels = NoLevels

\* MatchingEngine::allocate_order and the assignments of submit_order.
Construct(side, price, qty) ==
    LET s == Pool!Allocated
    IN  /\ next_id <= MaxOrders
        /\ s \in Slots
        /\ Pool!Allocate
        /\ cell' = [cell EXCEPT ![s] = [Blank EXCEPT !.id = next_id, !.side = side,
                                                     !.price = price, !.remaining = qty]]
        /\ live' = live \cup {s}
        /\ next_id' = next_id + 1
        /\ UNCHANGED bookVars

InBook(s) == cell[s].id \in DOMAIN index

AddOrder(s) ==
    LET o == cell[s]
        l == LevelOf(o)
    IN  /\ s \in live /\ ~InBook(s)
        /\ index' = [i \in DOMAIN index \cup {o.id} |-> IF i = o.id THEN s ELSE index[i]]
        /\ cell' = Linked(s, l)
        /\ levels' = [levels EXCEPT ![o.side] =
                         [p \in DOMAIN @ \cup {o.price} |->
                             IF p = o.price THEN LevelWith(s, l) ELSE @[p]]]
        /\ UNCHANGED <<poolVars, live, next_id>>

\* An id that is not in the book is left alone.
RemoveOrder(id) ==
    /\ id \in DOMAIN index
    /\ LET s == index[id]
           o == cell[s]
           l == LevelWithout(s, LevelOf(o))
           others == DOMAIN levels[o.side] \ {o.price}
       IN  /\ cell' = Unlinked(s)
           /\ levels' = [levels EXCEPT ![o.side] =
                            IF l.order_count = 0 THEN Keep(@, others)
                            ELSE [@ EXCEPT ![o.price] = l]]
    /\ index' = Keep(index, DOMAIN index \ {id})
    /\ UNCHANGED <<poolVars, live, next_id>>

\* The engine fills a resting order and updates its level at once.
FillOrder(id, qty) ==
    /\ id \in DOMAIN index
    /\ LET s == index[id]
           o == cell[s]
       IN  /\ qty <= o.remaining
           /\ cell' = [cell EXCEPT ![s].remaining = @ - qty]
           /\ levels' = [levels EXCEPT ![o.side][o.price].total_quantity = @ - qty]
    /\ UNCHANGED <<poolVars, live, next_id, index>>

\* The orders keep the links they had.
Clear ==
    /\ index' = << >>
    /\ levels' = NoLevels
    /\ UNCHANGED <<poolVars, cell, live, next_id>>

\* MatchingEngine::deallocate_order: the slot goes back to the pool.
Destroy(s) ==
    /\ s \in live /\ ~InBook(s)
    /\ Pool!Deallocate(s)
    /\ cell' = [cell EXCEPT ![s] = Blank]
    /\ live' = live \ {s}
    /\ UNCHANGED <<next_id, bookVars>>

Next ==
    \/ \E side \in Sides, price \in Prices, qty \in Quantities : Construct(side, price, qty)
    \/ \E s \in Slots : AddOrder(s) \/ Destroy(s)
    \/ \E id \in Ids : RemoveOrder(id)
    \/ \E id \in Ids : \E qty \in 1..MaxFill : FillOrder(id, qty)
    \/ Clear

Spec == Init /\ [][Next]_vars

-----------------------------------------------------------------------------
(* The queries                                                             *)

Better(side, p, q) == IF side = "Buy" THEN p > q ELSE p < q

BestLevel(side) ==
    CHOOSE p \in DOMAIN levels[side] : \A q \in DOMAIN levels[side] : p = q \/ Better(side, p, q)

IsEmpty(side) == DOMAIN levels[side] = {}

BestPrice(side) ==
    IF IsEmpty(side) THEN IF side = "Buy" THEN 0 ELSE MaxPrice ELSE BestLevel(side)

BestQuantity(side) == IF IsEmpty(side) THEN 0 ELSE levels[side][BestLevel(side)].total_quantity

\* The n best levels of a side.
GetDepth(side, n) ==
    LET prices == DOMAIN levels[side]
        sorted == CHOOSE f \in [1..Cardinality(prices) -> prices] :
                      \A i, j \in DOMAIN f : i < j => Better(side, f[i], f[j])
        level(p) == levels[side][p]
    IN  [i \in 1..Min({n, Cardinality(prices)}) |->
            [price |-> sorted[i], qty |-> level(sorted[i]).total_quantity,
             count |-> level(sorted[i]).order_count]]

OneSided == IsEmpty("Buy") \/ IsEmpty("Sell")
Spread == IF OneSided THEN MaxPrice ELSE BestPrice("Sell") - BestPrice("Buy")
MidPrice == IF OneSided THEN 0 ELSE (BestPrice("Buy") + BestPrice("Sell")) \div 2

MicroPrice ==
    LET bidQty == BestQuantity("Buy")
        askQty == BestQuantity("Sell")
    IN  IF OneSided THEN 0
        ELSE IF bidQty + askQty = 0 THEN MidPrice
        ELSE (BestPrice("Buy") * askQty + BestPrice("Sell") * bidQty) \div (bidQty + askQty)

-----------------------------------------------------------------------------
(* Properties                                                              *)

\* The slots of a level from its head along next_at_price (for_each_order).
Chain(l) ==
    LET at[i \in 1..l.order_count] ==
            IF i = 1 THEN l.head
            ELSE IF at[i - 1] \in Slots THEN cell[at[i - 1]].next ELSE Null
    IN  [i \in 1..l.order_count |-> at[i]]

\* The pool and the lists agree with each other: no slot is both returned and in
\* use, so allocate never hands out an order that somebody still holds
\* (memory_pool.hpp:38), and whatever is added, removed from the middle, cleared or
\* destroyed, the orders of a level are one chain that reads the same from
\* both ends (orderbook.cpp:20), each of them indexed under its id.
StructureOK ==
    /\ Pool!Consistent(live)
    /\ \A s \in live : cell[s].id \in 1..(next_id - 1) /\ cell[s].remaining \in Nat
    /\ \A id \in DOMAIN index : index[id] \in live /\ cell[index[id]].id = id
    /\ \A side \in Sides : \A p \in DOMAIN levels[side] :
          LET l == levels[side][p]
              c == Chain(l)
              orders == { id \in DOMAIN index : /\ cell[index[id]].side = side
                                                /\ cell[index[id]].price = p }
          IN  /\ l.order_count = Cardinality(orders) /\ orders # {}
              /\ ToSet(c) = { index[id] : id \in orders }
              /\ l.head = c[1] /\ l.tail = c[l.order_count]
              /\ \A i \in DOMAIN c :
                    /\ cell[c[i]].prev = IF i = 1 THEN Null ELSE c[i - 1]
                    /\ cell[c[i]].next = IF i = l.order_count THEN Null ELSE c[i + 1]

\* The pointers, maps, counts and totals amount to queues in the order of
\* arrival, and what the book answers fits them.
QueueAt(side, p) ==
    LET c == Chain(LevelOf([side |-> side, price |-> p]))
    IN  [i \in DOMAIN c |-> IF c[i] \in Slots
                            THEN [id |-> cell[c[i]].id, qty |-> cell[c[i]].remaining]
                            ELSE [id |-> 0, qty |-> 0]]

Promise == INSTANCE BookOfQueues WITH
    queues <- [side \in Sides |-> [p \in Prices |-> QueueAt(side, p)]],
    top <- [bids |-> GetDepth("Buy", Cardinality(Prices)), best_bid |-> BestPrice("Buy"),
            asks |-> GetDepth("Sell", Cardinality(Prices)), best_ask |-> BestPrice("Sell"),
            spread |-> Spread, mid |-> MidPrice, micro |-> MicroPrice]

ImplementsBook == Promise!Spec
=============================================================================
