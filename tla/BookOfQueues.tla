---------------------------- MODULE BookOfQueues ----------------------------
(***************************************************************************)
(* What an order book promises: a first-in-first-out queue of orders for   *)
(* each side and price, and answers about them that fit the queues.        *)
(***************************************************************************)
EXTENDS Integers, Sequences, FiniteSetsExt, SequencesExt

CONSTANTS
    Ids, Prices,
    MaxPrice    \* Price::max()

VARIABLES
    queues,     \* the orders of each side and price, oldest first
    top         \* what the book answers

Sides == {"Buy", "Sell"}
Order == [id : Ids, qty : Nat]

Empty == [s \in Sides |-> [p \in Prices |-> << >>]]
HeldIn(qs) == UNION { ToSet(qs[s][p]) : s \in Sides, p \in Prices }

Better(s, p, q) == IF s = "Buy" THEN p > q ELSE p < q
Level == [price : Prices, qty : Nat, count : Nat]

\* The levels of a side, best first: bids from high to low, asks from low to high.
AreLevels(list, s, q) ==
    /\ list \in Seq(Level)
    /\ { list[i].price : i \in DOMAIN list } = { p \in Prices : q[p] # << >> }
    /\ \A i, j \in DOMAIN list : i < j => Better(s, list[i].price, list[j].price)
    /\ \A i \in DOMAIN list :
          LET orders == q[list[i].price]
          IN  /\ list[i].count = Len(orders)
              /\ list[i].qty = SumFunction([k \in DOMAIN orders |-> orders[k].qty])

\* Without orders on one side there is no spread and no mid; the micro price
\* lies between the best prices, both included.
Fits(answer, qs) ==
    LET bid == answer.best_bid
        ask == answer.best_ask
    IN  /\ AreLevels(answer.bids, "Buy", qs["Buy"])
        /\ AreLevels(answer.asks, "Sell", qs["Sell"])
        /\ bid = IF answer.bids = << >> THEN 0 ELSE answer.bids[1].price
        /\ ask = IF answer.asks = << >> THEN MaxPrice ELSE answer.asks[1].price
        /\ IF answer.bids = << >> \/ answer.asks = << >>
           THEN answer.spread = MaxPrice /\ answer.mid = 0 /\ answer.micro = 0
           ELSE /\ answer.spread = ask - bid
                /\ 2 * answer.mid \in {bid + ask, bid + ask - 1}
                /\ answer.micro \in Min({bid, ask})..Max({bid, ask})

Init == queues = Empty

\* The operations relate the queues before and after.
Add(before, after, s, p, new) ==
    /\ new \in Order
    /\ \A o \in HeldIn(before) : o.id # new.id
    /\ after = [before EXCEPT ![s][p] = Append(@, new)]

Withdraw(before, after, s, p, i) ==
    after = [before EXCEPT ![s][p] = RemoveAt(@, i)]

Reduce(before, after, s, p, i, qty) ==
    after = [before EXCEPT ![s][p][i].qty = @ - qty]

Next ==
    \E before \in {queues}, after \in {queues'} :
        \/ \E s \in Sides, p \in Prices : \E new \in ToSet(after[s][p]) :
              Add(before, after, s, p, new)
        \/ \E s \in Sides, p \in Prices : \E i \in DOMAIN before[s][p] :
              \/ Withdraw(before, after, s, p, i)
              \/ \E qty \in 1..before[s][p][i].qty : Reduce(before, after, s, p, i, qty)
        \/ after = Empty

\* The queues move by operations, and the answers fit them at all times.
Spec == Init /\ [][Next]_queues /\ []Fits(top, queues)
=============================================================================
