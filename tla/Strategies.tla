----------------------------- MODULE Strategies -----------------------------
(***************************************************************************)
(* The strategies of the repository, one in each behaviour, and what they  *)
(* see of the simulator: orders go out and nothing comes back from the     *)
(* call, they arrive later, trade wholly, in part or not at all, and their *)
(* fills are reported later still, in the order of the event queue.  Ticks *)
(* come in between.                                                        *)
(*                                                                         *)
(* The program that runs the strategy hands it the fills: its own, or      *)
(* every fill there is.  The simulator books both sides of a trade, so the *)
(* position a strategy reads stays zero unless that program books the      *)
(* reports of its own orders as well.                                      *)
(***************************************************************************)
EXTENDS Integers, Sequences, FiniteSets, Functions, SequencesExt

CONSTANTS
    Setups,         \* what may be configured: see Setup
    Mids,           \* mid prices of ticks
    Slices, Interval,       \* num_slices_ and time_interval_ of VWAP
    Lookback, Unit,         \* lookback_period_; see ZAbove
    EntryZ, ExitZ,          \* squares of the scores, in parts of Unit
    ThresholdBps,           \* threshold_bps_
    MaxPosition,            \* max_position_
    MaxStrays,      \* bound: fills of others that are forwarded
    None            \* INVALID_ORDER_ID, or no order

Kinds == {"VWAP", "MeanReversion", "MarketMaking", "Momentum"}
Sides == {"Buy", "Sell"}

\* kind of strategy; whether its reports are booked; whether it is handed all
\* fills; total_quantity_, position_size_ or order_size_; how long a tick may be after the last; and a bound,
\* the ticks of a behaviour.
Setup == [kind : Kinds, booked : BOOLEAN, all : BOOLEAN, quantity : Nat \ {0},
          waits : SUBSET Nat, ticks : Nat]

ASSUME StrategiesAssumption ==
    /\ Setups \subseteq Setup
    /\ Mids \subseteq Nat \ {0}
    /\ {Slices, Lookback} \subseteq Nat \ {0}
    /\ {Interval, Unit, EntryZ, ExitZ, ThresholdBps, MaxPosition, MaxStrays} \subseteq Nat

VARIABLES
    setup,
    active,         \* is_active_
    remaining, slices_sent, next_slice_time,    \* of VWAPStrategy
    prices,         \* prices_ of the two that follow the mid
    quote,          \* bid_order_id_ and ask_order_id_, by side
    side_fills,     \* buy_fills_ and sell_fills_
    now,            \* time of the simulation
    position,       \* what get_position tells
    orders,         \* all that were sent: side, qty, when, what is left, where it is
    reports,        \* fills on their way, oldest first
    ticks,          \* history: ticks so far
    strays,         \* history: fills of others so far
    cancels,        \* history: the orders that cancels were sent for
    overlapped,     \* history: sent while an earlier order was outstanding
    exposed         \* history: the most ever outstanding, by side

strategyVars == <<active, remaining, slices_sent, next_slice_time, prices, quote, side_fills>>
venueVars == <<now, position, orders, reports>>
history == <<ticks, strays, cancels, overlapped, exposed>>
vars == <<setup, strategyVars, venueVars, history>>

Signed(side, qty) == IF side = "Buy" THEN qty ELSE -qty
Size(n) == IF n < 0 THEN -n ELSE n

SliceQuantity == setup.quantity \div Slices

Init ==
    /\ setup \in Setups
    /\ active = TRUE
    /\ remaining = setup.quantity /\ slices_sent = 0 /\ next_slice_time = 0
    /\ prices = << >>
    /\ quote = [side \in Sides |-> None] /\ side_fills = [side \in Sides |-> 0]
    /\ now = 0 /\ position = 0 /\ orders = << >> /\ reports = << >>
    /\ ticks = 0 /\ strays = 0 /\ cancels = {} /\ overlapped = FALSE
    /\ exposed = [side \in Sides |-> 0]

-----------------------------------------------------------------------------
(* Sending orders                                                          *)

Order(side, qty) == [side |-> side, qty |-> qty, left |-> qty, sent |-> now', at |-> "sent"]

\* What of an order has been filled and is not yet reported, and what of an order
\* in the list may still come to be reported.
Unreported(id) ==
    SumFunction([i \in DOMAIN reports |-> IF reports[i].id = id THEN reports[i].qty ELSE 0])
Outstanding(list, id) ==
    Unreported(id) + (IF list[id].at \in {"sent", "resting"} THEN list[id].left ELSE 0)

OutstandingOf(list, side) ==
    SumFunctionOnSet([id \in DOMAIN list |-> Outstanding(list, id)],
                     {id \in DOMAIN list : list[id].side = side})

\* The submit helpers: the simulator queues an event and returns no order.
Send(new) ==
    /\ orders' = orders \o new
    /\ overlapped' = (overlapped \/
           (new # << >> /\ \E id \in DOMAIN orders : Outstanding(orders, id) # 0))
    /\ exposed' = [side \in Sides |->
                      IF OutstandingOf(orders', side) > exposed[side]
                      THEN OutstandingOf(orders', side) ELSE exposed[side]]

Answer(id) == None

-----------------------------------------------------------------------------
(* on_tick                                                                 *)

\* The next slice, cut to what remains, as an IOC order; end_time_ is not looked
\* at and what an order leaves unfilled is not sent again.
SliceNow == IF SliceQuantity > remaining THEN remaining ELSE SliceQuantity

\* Variants named ..._ are plausible slips in the definition that follows them;
\* no specification uses them, the mutation checks do.
DueSlice_IgnoresCount == now' >= next_slice_time /\ SliceNow # 0

DueSlice == now' >= next_slice_time /\ slices_sent < Slices /\ SliceNow # 0

VwapOnTick ==
    /\ IF DueSlice
       THEN /\ Send(<<Order("Buy", SliceNow)>>)
            /\ slices_sent' = slices_sent + 1
            /\ next_slice_time' = next_slice_time + Interval
       ELSE Send(<< >>) /\ UNCHANGED <<slices_sent, next_slice_time>>
    /\ UNCHANGED <<prices, quote, cancels>>

\* Variants named ..._ are plausible slips in the definition that follows them;
\* no specification uses them, the mutation checks do.
Window_OneTooLong(mid) ==
    IF Len(prices) > Lookback THEN Append(Tail(prices), mid) ELSE Append(prices, mid)

Window(mid) ==
    LET longer == Append(prices, mid)
    IN  IF Len(longer) > Lookback THEN Tail(longer) ELSE longer

Squares(list) == [i \in DOMAIN list |-> list[i] * list[i]]
SignedSquare(n) == IF n < 0 THEN -(n * n) ELSE n * n

\* math::sma and math::stddev, kept as integers: the last price above the mean, and
\* the spread, which is zero when the standard deviation is.
Excess(list) == Len(list) * Last(list) - SumFunction(list)
Spread(list) == Len(list) * SumFunction(Squares(list)) - SumFunction(list) * SumFunction(list)

\* The z-score is above t, given the square of t with the sign of t.
ZAbove(list, t) ==
    Unit * SignedSquare(Excess(list)) * (Len(list) - 1) > t * Len(list) * Spread(list)
ZBelow(list, t) ==
    Unit * SignedSquare(Excess(list)) * (Len(list) - 1) < t * Len(list) * Spread(list)

\* The return over the window is above, or below, so many basis points.
ReturnAbove(list, bps) == (Last(list) - Head(list)) * 10000 > bps * Head(list)
ReturnBelow(list, bps) == (Last(list) - Head(list)) * 10000 < bps * Head(list)

\* Market orders: an entry when flat, all of the position on the way out.
\* Variants named ..._ are plausible slips in the definition that follows them;
\* no specification uses them, the mutation checks do.
MeanReversionSends_ExitsFullSize(list) ==
    CASE position = 0 /\ ZAbove(list, EntryZ) -> <<Order("Sell", setup.quantity)>>
      [] position = 0 /\ ZBelow(list, -EntryZ) -> <<Order("Buy", setup.quantity)>>
      [] position > 0 /\ ZAbove(list, -ExitZ) -> <<Order("Sell", setup.quantity)>>
      [] position < 0 /\ ZBelow(list, ExitZ) -> <<Order("Buy", setup.quantity)>>
      [] OTHER -> << >>

MeanReversionSends(list) ==
    CASE position = 0 /\ ZAbove(list, EntryZ) -> <<Order("Sell", setup.quantity)>>
      [] position = 0 /\ ZBelow(list, -EntryZ) -> <<Order("Buy", setup.quantity)>>
      [] position > 0 /\ ZAbove(list, -ExitZ) -> <<Order("Sell", position)>>
      [] position < 0 /\ ZBelow(list, ExitZ) -> <<Order("Buy", -position)>>
      [] OTHER -> << >>

MomentumSends(list) ==
    CASE position = 0 /\ ReturnAbove(list, ThresholdBps) -> <<Order("Buy", setup.quantity)>>
      [] position = 0 /\ ReturnBelow(list, -ThresholdBps) -> <<Order("Sell", setup.quantity)>>
      [] position > 0 /\ ReturnBelow(list, 0) -> <<Order("Sell", position)>>
      [] position < 0 /\ ReturnAbove(list, 0) -> <<Order("Buy", -position)>>
      [] OTHER -> << >>

MeanReversionOnTick(mid) ==
    /\ prices' = Window(mid)
    /\ Send(IF Len(prices') < Lookback \/ Spread(prices') = 0 THEN << >>
            ELSE MeanReversionSends(prices'))
    /\ UNCHANGED <<slices_sent, next_slice_time, quote, cancels>>

MomentumOnTick(mid) ==
    /\ prices' = Window(mid)
    /\ Send(IF Len(prices') < Lookback THEN << >> ELSE MomentumSends(prices'))
    /\ UNCHANGED <<slices_sent, next_slice_time, quote, cancels>>

\* The quotes it knows are cancelled, then each side within the limit is quoted.
\* Variants named ..._ are plausible slips in the definition that follows them;
\* no specification uses them, the mutation checks do.
QuotedSides_IgnoresPosition == <<"Buy", "Sell">>

QuotedSides ==
    (IF position < MaxPosition THEN <<"Buy">> ELSE << >>)
        \o (IF position > -MaxPosition THEN <<"Sell">> ELSE << >>)

MarketMakingOnTick ==
    LET sides == QuotedSides
        id(side) == Len(orders) + CHOOSE i \in DOMAIN sides : sides[i] = side
    IN  /\ cancels' = cancels \cup ({quote[side] : side \in Sides} \ {None})
        /\ Send([i \in DOMAIN sides |-> Order(sides[i], setup.quantity)])
        /\ quote' = [side \in Sides |-> IF side \in ToSet(sides) THEN Answer(id(side)) ELSE None]
        /\ UNCHANGED <<slices_sent, next_slice_time, prices>>

OnTick(mid, wait) ==
    /\ ticks < setup.ticks
    /\ ticks' = ticks + 1
    /\ now' = now + wait
    /\ IF ~active
       THEN Send(<< >>) /\ UNCHANGED <<slices_sent, next_slice_time, prices, quote, cancels>>
       ELSE \/ setup.kind = "VWAP" /\ VwapOnTick
            \/ setup.kind = "MeanReversion" /\ MeanReversionOnTick(mid)
            \/ setup.kind = "MarketMaking" /\ MarketMakingOnTick
            \/ setup.kind = "Momentum" /\ MomentumOnTick(mid)
    /\ UNCHANGED <<setup, active, remaining, side_fills, position, reports, strays>>

-----------------------------------------------------------------------------
(* The orders at the engine                                                *)

\* Fills of an order that does not rest: any number of pieces of at least one.
\* One of a negative quantity is filled in one piece by whatever it meets.
FillsOf(qty) ==
    IF qty < 0 THEN {<< >>, <<qty>>}
    ELSE {fills \in UNION {[1..n -> 1..qty] : n \in 0..qty} : SumFunction(fills) <= qty}

\* Orders arrive in the order they were sent, those of one moment in any.
MayArrive(id) ==
    /\ orders[id].at = "sent"
    /\ \A other \in DOMAIN orders :
          orders[other].at = "sent" => orders[other].sent >= orders[id].sent

\* A market or IOC order is matched and its remainder is dropped; rejected it
\* leaves no fill either.
Match(id, fills) ==
    /\ setup.kind # "MarketMaking" /\ MayArrive(id)
    /\ orders' = [orders EXCEPT ![id].at = "over", ![id].left = @ - SumFunction(fills)]
    /\ reports' = reports \o [i \in DOMAIN fills |-> [id |-> id, qty |-> fills[i], ts |-> now]]
    /\ UNCHANGED <<setup, strategyVars, now, position, history>>

\* A limit order is put into the book, or fails validation.
Rest(id, valid) ==
    /\ setup.kind = "MarketMaking" /\ MayArrive(id)
    /\ orders' = [orders EXCEPT ![id].at = IF valid THEN "resting" ELSE "rejected"]
    /\ UNCHANGED <<setup, strategyVars, now, position, reports, history>>

Trade(id, qty) ==
    /\ orders[id].at = "resting" /\ qty <= orders[id].left
    /\ orders' = [orders EXCEPT ![id].left = @ - qty,
                                ![id].at = IF qty = orders[id].left THEN "over" ELSE @]
    /\ reports' = Append(reports, [id |-> id, qty |-> qty, ts |-> now])
    /\ UNCHANGED <<setup, strategyVars, now, position, history>>

-----------------------------------------------------------------------------
(* on_fill                                                                 *)

\* The remainder is taken for finished at zero, not below.
VwapOnFill(qty) ==
    /\ remaining' = remaining - qty
    /\ active' = (active /\ remaining' # 0)
    /\ UNCHANGED <<quote, side_fills>>

\* Any fill of a side counts and forgets the quote, a partial one too.
MarketMakingOnFill(side) ==
    /\ quote' = [quote EXCEPT ![side] = None]
    /\ side_fills' = [side_fills EXCEPT ![side] = @ + 1]
    /\ UNCHANGED <<active, remaining>>

OnFill(side, qty) ==
    /\ \/ setup.kind = "VWAP" /\ VwapOnFill(qty)
       \/ setup.kind = "MarketMaking" /\ MarketMakingOnFill(side)
       \/ /\ setup.kind \in {"MeanReversion", "Momentum"}
          /\ UNCHANGED <<active, remaining, quote, side_fills>>
    /\ UNCHANGED <<slices_sent, next_slice_time, prices>>

\* The report of one of its orders; reports of one moment come in any order.
Report(i) ==
    /\ reports[i].ts = Head(reports).ts
    /\ LET report == reports[i]
           side == orders[report.id].side
       IN  /\ position' = IF setup.booked THEN position + Signed(side, report.qty) ELSE position
           /\ OnFill(side, report.qty)
    /\ reports' = RemoveAt(reports, i)
    /\ UNCHANGED <<setup, now, orders, history>>

\* A fill of somebody else, handed on to the strategy.
Stray(side) ==
    /\ setup.all /\ strays < MaxStrays
    /\ OnFill(side, 1)
    /\ strays' = strays + 1
    /\ UNCHANGED <<setup, venueVars, ticks, cancels, overlapped, exposed>>

Next ==
    \/ \E mid \in Mids, wait \in setup.waits : OnTick(mid, wait)
    \/ \E id \in DOMAIN orders :
          \/ \E fills \in FillsOf(orders[id].qty) : Match(id, fills)
          \/ \E valid \in BOOLEAN : Rest(id, valid)
          \/ \E qty \in 1..orders[id].left : Trade(id, qty)
    \/ \E i \in DOMAIN reports : Report(i)
    \/ \E side \in Sides : Stray(side)

Spec == Init /\ [][Next]_vars

-----------------------------------------------------------------------------
(* Properties                                                              *)

Reported(id) == orders[id].qty - orders[id].left - Unreported(id)

\* Over all orders: what was sent, what was reported, what may still be.
AllSent == SumFunction([id \in DOMAIN orders |-> IF orders[id].qty > 0 THEN orders[id].qty ELSE 0])
AllReported == SumFunction([id \in DOMAIN orders |-> Reported(id)])
AllOutstanding == SumFunction([id \in DOMAIN orders |-> Outstanding(orders, id)])

\* The state has the types of its declarations, and what was reported of an order
\* is never less than nothing nor more than it had, from submit (strategy_base.cpp:6)
\* to the last fill.
TypeOK ==
    /\ setup \in Setups /\ active \in BOOLEAN /\ overlapped \in BOOLEAN
    /\ remaining \in Int /\ position \in Int
    /\ slices_sent \in 0..Slices /\ {next_slice_time, now, ticks, strays} \subseteq Nat
    /\ cancels \subseteq Nat
    /\ prices \in UNION {[1..n -> Mids] : n \in 0..Lookback}
    /\ quote \in [Sides -> Nat \cup {None}] /\ side_fills \in [Sides -> Nat]
    /\ \A id \in DOMAIN orders :
          /\ orders[id].side \in Sides /\ orders[id].qty \in Int \ {0}
          /\ orders[id].at \in {"sent", "resting", "over", "rejected"}
          /\ Size(Reported(id)) <= Size(orders[id].qty)

\* A VWAP execution never sends more than its total, whatever it is told, and no
\* slice before its time or beyond their number (strategies.cpp:24).  Told of its own
\* fills only, what it thinks remains is the total less the fills reported, it is
\* never over-filled, every order is for at least one unit, and it has stopped
\* exactly when all is filled.
NeverOverExecutes ==
    setup.kind = "VWAP" =>
        /\ AllSent <= setup.quantity
        /\ \A id \in DOMAIN orders : orders[id].sent >= (id - 1) * Interval
        /\ ~setup.all =>
              /\ remaining = setup.quantity - AllReported
              /\ AllOutstanding <= remaining
              /\ \A id \in DOMAIN orders : orders[id].qty > 0
              /\ active <=> remaining # 0

\* The market maker quotes a side only while its position is within max_position_
\* (strategies.cpp:191).  Fills come back late, so the inventory may go beyond it by
\* all the quotes of that side that were out at once, but by no more, and it counts
\* no fill that was not reported.
InventoryWithinQuotes ==
    setup.kind = "MarketMaking" =>
        /\ position > 0 => position < MaxPosition + exposed["Buy"]
        /\ position < 0 => position > -(MaxPosition + exposed["Sell"])
        /\ side_fills["Buy"] + side_fills["Sell"] <= AllReported + strays

\* The market maker cancels its existing orders on a tick before it quotes again
\* (strategies.cpp:177): of the orders still out, those of earlier ticks have been
\* sent a cancel.  It never learns their ids from submit (execution_simulator.cpp:32).
QuotesAreReplaced ==
    setup.kind = "MarketMaking" =>
        \A id \in DOMAIN orders :
            orders[id].at \in {"sent", "resting"} /\ orders[id].sent < now => id \in cancels

\* A strategy that follows a signal and never decides while an order of its own is
\* outstanding stays within position_size_ and never goes through zero, also when
\* entries and exits are filled in part, and whatever of its last order is still to
\* be reported (strategies.cpp:126 and 262).
PositionWithinSize ==
    setup.kind \in {"MeanReversion", "Momentum"} /\ ~overlapped =>
        \A open \in SUBSET DOMAIN orders :
            LET later == position + SumFunctionOnSet([id \in DOMAIN orders |->
                            Signed(orders[id].side, Outstanding(orders, id))], open)
            IN  Size(later) <= setup.quantity /\ position * later >= 0
=============================================================================
