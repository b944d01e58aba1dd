--------------------------- MODULE MatchingEngine ---------------------------
(***************************************************************************)
(* backtest::MatchingEngine and the OrderBook it drives.                   *)
(*                                                                         *)
(* submit_order creates an order, matches it against the other side of its *)
(* symbol's book and lets the rest of it rest, die or stay.  The nested    *)
(* matching loop is unrolled into one action per iteration, because the    *)
(* fill and trade callbacks run between applying a fill and taking the     *)
(* filled order out of the book: a callback that cancels orders sees, and  *)
(* changes, the book in the middle of a match.                             *)
(*                                                                         *)
(* An order's id is its position in orders (IdGenerator counts up by one,  *)
(* and orders never leave all_orders_).  A PriceLevel's linked list is the *)
(* sequence fifo[sym][side][price]; the empty sequence stands for a price  *)
(* that has no level in the side's map.                                    *)
(***************************************************************************)
EXTENDS Integers, Sequences, FiniteSets, Functions

CONSTANTS
    Symbols,      \* traded symbols
    Prices,       \* limit prices, in ticks
    Quantities,   \* quantities requested, zero included
    Types,        \* the order types submitted in this instance
    Strategies,   \* strategy ids
    MaxOrders,    \* bound: orders submitted in one behaviour
    Reentrant,    \* TRUE: callbacks may cancel orders in the middle of a match
    None          \* the null pointer

Sides == {"Buy", "Sell"}

\* Types that OrderType declares.
OrderTypes == {"Market", "Limit", "StopMarket", "StopLimit", "IOC", "FOK", "GTC"}

\* A Price is an int64_t: any non-empty set of prices has a least and a greatest.
ASSUME PricesAssumption ==
    /\ Prices \subseteq Nat \ {0}
    /\ \A S \in SUBSET Prices : S # {} =>
          /\ \E lo \in S : \A p \in S : lo <= p
          /\ \E hi \in S : \A p \in S : p <= hi

ASSUME ConstantsAssumption ==
    /\ Quantities \subseteq Nat
    /\ Types \subseteq OrderTypes
    /\ MaxOrders \in Nat
    /\ Reentrant \in BOOLEAN
    /\ None \notin Nat

VARIABLES
    orders,    \* all_orders_: every order ever accepted, by id
    index,     \* OrderBook::orders_ of each symbol: ids found by remove_order
    fifo,      \* the list of each price level, oldest order first
    total,     \* PriceLevel::total_quantity_
    pc,        \* where submit_order is; "idle" outside it
    aggressor, \* the order being submitted
    level,     \* the price of the PriceLevel in use by the inner loop
    passive,   \* the order just filled against
    sweep      \* the active orders cancel_all_orders has still to cancel

book == <<index, fifo, total>>
vars == <<orders, book, pc, aggressor, level, passive, sweep>>

-----------------------------------------------------------------------------
(* Orders                                                                  *)

OrderId == 1 .. MaxOrders

Active(o) == o.status \in {"New", "PartiallyFilled"}
Terminal(o) == o.status \in {"Filled", "Cancelled", "Rejected"}

\* OrderRequest::market leaves the price at zero; the others set a limit.
PriceFits(type, price) == (price = 0) <=> (type \in {"Market", "StopMarket"})

\* The requests offered.
Requests ==
    { r \in [sym : Symbols, side : Sides, type : Types, price : Prices \cup {0},
             qty : Quantities, strat : Strategies] : PriceFits(r.type, r.price) }

NewOrder(r) ==
    [sym |-> r.sym, side |-> r.side, type |-> r.type, price |-> r.price,
     qty |-> r.qty, filled |-> 0, rem |-> r.qty, status |-> "New",
     strat |-> r.strat]

ApplyFill(o, q) ==
    [o EXCEPT !.filled = @ + q, !.rem = @ - q,
              !.status = IF o.rem = q THEN "Filled" ELSE "PartiallyFilled"]

\* Variants named ..._ are plausible slips in the definition that follows them;
\* no specification uses them, the mutation checks do.
CancelOf_NewOnly(o) == IF o.status = "New" THEN [o EXCEPT !.status = "Cancelled"] ELSE o
CancelOf_Unguarded(o) == [o EXCEPT !.status = "Cancelled"]
CancelOf(o) == IF Active(o) THEN [o EXCEPT !.status = "Cancelled"] ELSE o

-----------------------------------------------------------------------------
(* One side of a book                                                      *)

Opposite(side) == IF side = "Buy" THEN "Sell" ELSE "Buy"

Better(side, p, q) == IF side = "Buy" THEN p > q ELSE p < q

\* The keys of levels_.
LevelPrices(sym, side) == { p \in Prices : fifo[sym][side][p] # <<>> }

IsBest(sym, side, p) ==
    /\ p \in LevelPrices(sym, side)
    /\ \A q \in LevelPrices(sym, side) : ~ Better(side, q, p)

\* The limit price of o allows a trade at p.
Willing_Strict(o, p) == IF o.side = "Buy" THEN o.price > p ELSE o.price < p
Willing(o, p) == IF o.side = "Buy" THEN o.price >= p ELSE o.price <= p

Unlink_Head(s, id) == Tail(s)
Unlink(s, id) ==
    LET i == CHOOSE j \in 1 .. Len(s) : s[j] = id
    IN  [j \in 1 .. Len(s) - 1 |-> IF j < i THEN s[j] ELSE s[j + 1]]

AddToBook_Front(id) ==
    LET o == orders[id] IN
    /\ index' = [index EXCEPT ![o.sym] = @ \cup {id}]
    /\ fifo'  = [fifo EXCEPT ![o.sym][o.side][o.price] = <<id>> \o @]
    /\ total' = [total EXCEPT ![o.sym][o.side][o.price] = @ + o.rem]

\* OrderBook::add_order: into the index and at the tail of the level.
AddToBook(id) ==
    LET o == orders[id] IN
    /\ index' = [index EXCEPT ![o.sym] = @ \cup {id}]
    /\ fifo'  = [fifo EXCEPT ![o.sym][o.side][o.price] = Append(@, id)]
    /\ total' = [total EXCEPT ![o.sym][o.side][o.price] = @ + o.rem]

RemoveFromBook_KeepsIndex(id) ==
    LET o    == orders[id]
        left == Unlink(fifo[o.sym][o.side][o.price], id)
    IN
    IF id \in index[o.sym]
    THEN /\ fifo'  = [fifo EXCEPT ![o.sym][o.side][o.price] = left]
         /\ total' = [total EXCEPT ![o.sym][o.side][o.price] =
                         IF left = <<>> THEN 0 ELSE @ - o.rem]
         /\ UNCHANGED index
    ELSE UNCHANGED book

RemoveFromBook_DeductsOriginal(id) ==
    LET o    == orders[id]
        left == Unlink(fifo[o.sym][o.side][o.price], id)
    IN
    IF id \in index[o.sym]
    THEN /\ index' = [index EXCEPT ![o.sym] = @ \ {id}]
         /\ fifo'  = [fifo EXCEPT ![o.sym][o.side][o.price] = left]
         /\ total' = [total EXCEPT ![o.sym][o.side][o.price] =
                         IF left = <<>> THEN 0 ELSE @ - o.qty]
    ELSE UNCHANGED book

RemoveFromBook_Forgotten(id) == UNCHANGED book

\* OrderBook::remove_order: an order the index does not know is left alone;
\* otherwise it is unlinked, its remaining quantity leaves the level's total,
\* and a level that became empty is deleted, total and all.
RemoveFromBook(id) ==
    LET o    == orders[id]
        left == Unlink(fifo[o.sym][o.side][o.price], id)
    IN
    IF id \in index[o.sym]
    THEN /\ index' = [index EXCEPT ![o.sym] = @ \ {id}]
         /\ fifo'  = [fifo EXCEPT ![o.sym][o.side][o.price] = left]
         /\ total' = [total EXCEPT ![o.sym][o.side][o.price] =
                         IF left = <<>> THEN 0 ELSE @ - o.rem]
    ELSE UNCHANGED book

AvailableWithin_BestOnly(o) ==
    LET side == Opposite(o.side) IN
    SumFunctionOnSet(total[o.sym][side],
                     { p \in Prices : IsBest(o.sym, side, p) /\ Willing(o, p) })

\* What match_fok_order counts: the totals of the levels within the limit.
AvailableWithin(o) ==
    LET side == Opposite(o.side) IN
    SumFunctionOnSet(total[o.sym][side],
                     { p \in LevelPrices(o.sym, side) : Willing(o, p) })

-----------------------------------------------------------------------------
(* submit_order                                                            *)

EntersLoop_FokOnAny(o) ==
    CASE o.type \in {"Market", "IOC"} -> TRUE
      [] o.type \in {"Limit", "GTC"} ->
            \E p \in Prices : IsBest(o.sym, Opposite(o.side), p) /\ Willing(o, p)
      [] o.type = "FOK" -> AvailableWithin(o) > 0
      [] OTHER -> FALSE

\* match_limit_order enters the matching loop only when the best opposite
\* price is within the limit; match_fok_order only when enough is available.
EntersLoop(o) ==
    CASE o.type \in {"Market", "IOC"} -> TRUE
      [] o.type \in {"Limit", "GTC"} ->
            \E p \in Prices : IsBest(o.sym, Opposite(o.side), p) /\ Willing(o, p)
      [] o.type = "FOK" -> AvailableWithin(o) >= o.qty
      [] OTHER -> FALSE

\* A stop order is tracked and nothing else: submit_order has no branch for it.
Submit(r) ==
    LET o  == NewOrder(r)
        id == Len(orders) + 1
    IN
    /\ pc = "idle"
    /\ sweep = {}
    /\ Len(orders) < MaxOrders
    /\ \/ /\ EntersLoop(o)
          /\ orders' = Append(orders, o)
          /\ pc' = "levels"
          /\ aggressor' = id
       \/ /\ ~ EntersLoop(o)
          /\ o.type \in {"Limit", "GTC"}
          /\ orders' = Append(orders, o)
          /\ pc' = "finish"
          /\ aggressor' = id
       \/ /\ ~ EntersLoop(o)
          /\ o.type = "FOK"
          /\ orders' = Append(orders, [o EXCEPT !.status = "Rejected"])
          /\ UNCHANGED <<pc, aggressor>>
       \/ /\ o.type \in {"StopMarket", "StopLimit"}
          /\ orders' = Append(orders, o)
          /\ UNCHANGED <<pc, aggressor>>
    /\ UNCHANGED <<book, level, passive, sweep>>

\* Head of the outer loop: the limit is compared with the level's price only
\* when the aggressor's type is Limit.
MayTakeLevel_Unchecked(o, p) == TRUE
MayTakeLevel_AllTypes(o, p) == Willing(o, p)
MayTakeLevel(o, p) == o.type = "Limit" => Willing(o, p)

TakeLevel ==
    LET o == orders[aggressor] IN
    /\ pc = "levels"
    /\ o.rem # 0
    /\ \E p \in Prices :
          /\ IsBest(o.sym, Opposite(o.side), p)
          /\ MayTakeLevel(o, p)
          /\ level' = p
    /\ pc' = "orders"
    /\ UNCHANGED <<orders, book, aggressor, passive, sweep>>

LeaveLevels ==
    LET o == orders[aggressor] IN
    /\ pc = "levels"
    /\ \/ o.rem = 0
       \/ ~ \E p \in Prices : IsBest(o.sym, Opposite(o.side), p) /\ MayTakeLevel(o, p)
    /\ pc' = "finish"
    /\ UNCHANGED <<orders, book, aggressor, level, passive, sweep>>

\* The list of the level in use.  After its last order is removed the level is
\* deleted and the loop condition reads it once more; the freed order_count_
\* still holds the zero it was deleted with, so the list reads as empty.
LevelFifo ==
    LET o == orders[aggressor] IN fifo[o.sym][Opposite(o.side)][level]

FillQty_Aggressors(o, p) == o.rem
FillQty(o, p) == IF o.rem <= p.rem THEN o.rem ELSE p.rem

\* Body of the inner loop: both orders are filled and the level's total drops.
Fill ==
    LET o  == orders[aggressor]
        pa == Head(LevelFifo)
        q  == FillQty(o, orders[pa])
    IN
    /\ pc = "orders"
    /\ o.rem # 0
    /\ LevelFifo # <<>>
    /\ orders' = [orders EXCEPT ![aggressor] = ApplyFill(@, q),
                                ![pa] = ApplyFill(@, q)]
    /\ total' = [total EXCEPT ![o.sym][Opposite(o.side)][level] = @ - q]
    /\ passive' = pa
    /\ pc' = "callbacks"
    /\ UNCHANGED <<index, fifo, aggressor, level, sweep>>

\* After the callbacks return, the passive order leaves the book if filled.
AfterFill ==
    /\ pc = "callbacks"
    /\ sweep = {}
    /\ IF orders[passive].rem = 0 THEN RemoveFromBook(passive) ELSE UNCHANGED book
    /\ passive' = None
    /\ pc' = "orders"
    /\ UNCHANGED <<orders, aggressor, level, sweep>>

LeaveLevel ==
    /\ pc = "orders"
    /\ orders[aggressor].rem = 0 \/ LevelFifo = <<>>
    /\ level' = None
    /\ pc' = "levels"
    /\ UNCHANGED <<orders, book, aggressor, passive, sweep>>

\* The end of match_market_order, match_ioc_order and match_limit_order.
Finish ==
    LET o == orders[aggressor] IN
    /\ pc = "finish"
    /\ \/ /\ o.type \in {"Market", "IOC"}
          /\ orders' = [orders EXCEPT ![aggressor] = CancelOf(@)]
          /\ UNCHANGED book
       \/ /\ o.type \in {"Limit", "GTC"}
          /\ IF Active(o) /\ o.rem # 0 THEN AddToBook(aggressor) ELSE UNCHANGED book
          /\ UNCHANGED orders
       \/ /\ o.type = "FOK"
          /\ UNCHANGED <<orders, book>>
    /\ pc' = "idle"
    /\ aggressor' = None
    /\ UNCHANGED <<level, passive, sweep>>

-----------------------------------------------------------------------------
(* Cancellation: between submissions, or from a callback                   *)

MayCancel == pc = "idle" \/ (Reentrant /\ pc = "callbacks")

CancelOne(id) ==
    /\ Active(orders[id])
    /\ RemoveFromBook(id)
    /\ orders' = [orders EXCEPT ![id] = CancelOf(@)]

CancelOrder(id) ==
    /\ MayCancel
    /\ sweep = {}
    /\ CancelOne(id)
    /\ UNCHANGED <<pc, aggressor, level, passive, sweep>>

\* cancel_all_orders visits a hash map, so in no particular order.
CancelAllOrders(strat) ==
    LET mine == { id \in DOMAIN orders : orders[id].strat = strat /\ Active(orders[id]) } IN
    /\ MayCancel
    /\ sweep = {}
    /\ mine # {}
    /\ sweep' = mine
    /\ UNCHANGED <<orders, book, pc, aggressor, level, passive>>

CancelNext(id) ==
    /\ id \in sweep
    /\ CancelOne(id)
    /\ sweep' = sweep \ {id}
    /\ UNCHANGED <<pc, aggressor, level, passive>>

-----------------------------------------------------------------------------

Init ==
    /\ orders = <<>>
    /\ index = [sym \in Symbols |-> {}]
    /\ fifo = [sym \in Symbols |-> [side \in Sides |-> [p \in Prices |-> <<>>]]]
    /\ total = [sym \in Symbols |-> [side \in Sides |-> [p \in Prices |-> 0]]]
    /\ pc = "idle"
    /\ aggressor = None
    /\ level = None
    /\ passive = None
    /\ sweep = {}

\* One call in progress runs on its own: the engine is single-threaded.
MatchStep ==
    TakeLevel \/ LeaveLevels \/ Fill \/ AfterFill \/ LeaveLevel \/ Finish

Next ==
    \/ \E r \in Requests : Submit(r)
    \/ TakeLevel
    \/ LeaveLevels
    \/ Fill
    \/ AfterFill
    \/ LeaveLevel
    \/ Finish
    \/ \E id \in DOMAIN orders : CancelOrder(id)
    \/ \E strat \in Strategies : CancelAllOrders(strat)
    \/ \E id \in DOMAIN orders : CancelNext(id)

Spec == Init /\ [][Next]_vars

\* A call that has started runs to its end: nothing in it waits.
FairSpec ==
    /\ Spec
    /\ WF_vars(MatchStep)
    /\ WF_vars(\E id \in DOMAIN orders : CancelNext(id))

-----------------------------------------------------------------------------
(* Properties                                                              *)

Idle == pc = "idle" /\ sweep = {}

Order ==
    { o \in [sym : Symbols, side : Sides, type : Types, price : Prices \cup {0},
     qty : Quantities, filled : Nat, rem : Nat,
     status : {"New", "PartiallyFilled", "Filled", "Cancelled", "Rejected"},
     strat : Strategies] : PriceFits(o.type, o.price) }

\* Type invariant of the engine's state.
TypeOK ==
    /\ orders \in Seq(Order)
    /\ Len(orders) <= MaxOrders
    /\ index \in [Symbols -> SUBSET (DOMAIN orders)]
    /\ fifo \in [Symbols -> [Sides -> [Prices -> Seq(DOMAIN orders)]]]
    /\ total \in [Symbols -> [Sides -> [Prices -> Int]]]
    /\ pc \in {"idle", "levels", "orders", "callbacks", "finish"}
    /\ aggressor \in (DOMAIN orders) \cup {None}
    /\ level \in Prices \cup {None}
    /\ passive \in (DOMAIN orders) \cup {None}
    /\ sweep \in SUBSET (DOMAIN orders)

\* An order a book should hold: of a kind that rests, still open.
Rests(o) == o.type \in {"Limit", "GTC"} /\ Active(o) /\ o.rem > 0

\* The orders that belong in a book now: those that rest, except the one being
\* submitted, and the one just filled until its callbacks have returned.
Bookable(id) ==
    /\ id # aggressor
    /\ orders[id].type \in {"Limit", "GTC"}
    /\ Rests(orders[id]) \/ (id = passive /\ orders[id].rem = 0)

\* The three structures that say where an order is agree at every step of every
\* call: OrderBook::orders_, the price levels and the order's own fields.  An
\* order is in the index, and once in the level of its side and price, exactly
\* while it is open, and a level's list is in order of arrival.
BookMatchesOrders ==
    /\ \A sym \in Symbols :
          index[sym] = { id \in DOMAIN orders : orders[id].sym = sym /\ Bookable(id) }
    /\ \A sym \in Symbols, side \in Sides, p \in Prices :
          LET f == fifo[sym][side][p] IN
          /\ { f[i] : i \in 1 .. Len(f) } =
                { id \in index[sym] : orders[id].side = side /\ orders[id].price = p }
          /\ \A i, j \in 1 .. Len(f) : i < j => f[i] < f[j]

\* What each order still wants.
Wanted == [id \in DOMAIN orders |-> orders[id].rem]

\* total_quantity_, kept by three different functions, is what the orders of the
\* level still want: the FOK check relies on it.
TotalsMatchOrders ==
    \A sym \in Symbols, side \in Sides, p \in Prices :
        LET f == fifo[sym][side][p] IN
        total[sym][side][p] =
            SumFunctionOnSet(Wanted, { f[i] : i \in 1 .. Len(f) })

\* The best bid stays below the best ask, in the middle of a match as well.
BookUncrossed ==
    \A sym \in Symbols :
        \A b \in LevelPrices(sym, "Buy"), a \in LevelPrices(sym, "Sell") : b < a

\* What holds at each point of submit_order: who is being matched (always the
\* newest order, of a type that matches), which pointers are set, when cancels
\* may be under way, and that an order just filled whole is no longer active.
ControlOK ==
    /\ pc = "idle" <=> aggressor = None
    /\ aggressor # None =>
          /\ aggressor = Len(orders)
          /\ orders[aggressor].type \notin {"StopMarket", "StopLimit"}
    /\ pc \in {"orders", "callbacks"} <=> level # None
    /\ pc = "callbacks" <=> passive # None
    /\ sweep # {} => pc \in {"idle", "callbacks"}
    /\ \A id \in sweep : Active(orders[id])
    /\ (passive # None /\ orders[passive].rem = 0) => ~ Active(orders[passive])

\* An order about to rest crosses nothing: the matching loop was left, or never
\* entered, because no opposite level was within its limit.
RestsOutside ==
    pc = "finish" =>
        LET o == orders[aggressor] IN
        (o.type \in {"Limit", "GTC"} /\ o.rem # 0) =>
            \A p \in LevelPrices(o.sym, Opposite(o.side)) : ~ Willing(o, p)

\* The level in use by the inner loop stays the best of its side until the loop
\* leaves it, whatever the callbacks cancel.
LevelIsBest ==
    pc \in {"orders", "callbacks"} =>
        LET o == orders[aggressor] IN
        \A p \in LevelPrices(o.sym, Opposite(o.side)) :
            ~ Better(Opposite(o.side), p, level)

\* The inductive invariant behind BookMatchesOrders and BookUncrossed.
EngineInv ==
    TypeOK /\ ControlOK /\ BookMatchesOrders /\ BookUncrossed /\ RestsOutside

\* Once its call has returned, a fill-or-kill order is filled whole or not at all.
FokAllOrNothing ==
    Idle => \A id \in DOMAIN orders :
        orders[id].type = "FOK" =>
            \/ orders[id].filled = 0 /\ (orders[id].qty > 0 => orders[id].status = "Rejected")
            \/ orders[id].filled = orders[id].qty /\ orders[id].status = "Filled"

\* An order whose type forbids it to wait is over when its call has returned.
ImmediateOrdersEnd ==
    Idle => \A id \in DOMAIN orders :
        (orders[id].type \in {"Market", "IOC", "FOK"} /\ orders[id].qty > 0)
            => Terminal(orders[id])

FilledBy(id) == orders'[id].filled > orders[id].filled

\* Price-time priority: the resting order that is filled has the best price of
\* its side, and is the oldest at that price, among all the open orders of the
\* engine and not only those the level lists hold.
PriceTimePriority ==
    [][\A id \in DOMAIN orders \ {aggressor} : FilledBy(id) =>
          \A other \in DOMAIN orders \ {aggressor} :
              LET o == orders[id]  x == orders[other] IN
              (Rests(x) /\ x.sym = o.sym /\ x.side = o.side) =>
                  \/ Better(o.side, o.price, x.price)
                  \/ o.price = x.price /\ id <= other]_vars

\* No fill is worse than the limit of the incoming order, for the order types
\* whose limit the loop (Limit) or the availability check (FOK) looks at.
FillsWithinLimit ==
    [][\A id \in DOMAIN orders \ {aggressor} : FilledBy(id) =>
          (orders[aggressor].type \in {"Limit", "FOK"}
             => Willing(orders[aggressor], orders[id].price))]_vars

\* Filled, Cancelled and Rejected are final: the order never trades again.
TerminalIsFinal ==
    [][\A id \in DOMAIN orders :
          Terminal(orders[id]) => orders'[id].status = orders[id].status
                                  /\ ~ FilledBy(id)]_vars

\* The engine cancels a market or IOC order itself only when no order is left
\* for it to trade with.
NothingLeftToTake ==
    [][\A id \in DOMAIN orders :
          (pc = "finish" /\ Active(orders[id]) /\ ~ Active(orders'[id])
             /\ orders[id].qty > 0)
          => \A other \in DOMAIN orders :
                ~ (Rests(orders[other]) /\ orders[other].sym = orders[id].sym
                   /\ orders[other].side = Opposite(orders[id].side))]_vars

\* A FOK order is rejected only if the open orders within its limit really do
\* not add up to its quantity.
FokKilledOnlyIfShort ==
    [][(Len(orders') > Len(orders) /\ orders'[Len(orders')].status = "Rejected") =>
          LET o == orders'[Len(orders')] IN
          o.qty > SumFunctionOnSet(Wanted,
                     { id \in DOMAIN orders :
                         /\ Rests(orders[id])
                         /\ orders[id].sym = o.sym
                         /\ orders[id].side = Opposite(o.side)
                         /\ Willing(o, orders[id].price) })]_vars

\* Every call returns: the matching loop ends, whatever the callbacks cancel.
EveryCallReturns == ~ Idle ~> Idle

\* An order that carries a limit price never trades beyond it, whatever its type:
\* IOC (OrderRequest::ioc takes a price) and GTC ("same as Limit") included.
LimitsHonoured ==
    [][\A id \in DOMAIN orders \ {aggressor} : FilledBy(id) =>
          (orders[aggressor].type # "Market"
             => Willing(orders[aggressor], orders[id].price))]_vars
=============================================================================
