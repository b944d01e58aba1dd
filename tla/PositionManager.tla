-------------------------- MODULE PositionManager --------------------------
(***************************************************************************)
(* backtest::PositionManager: what is held of each symbol, at what average *)
(* price, what closing it has earned, and the cash.  Prices and quantities *)
(* are whole numbers; averages and gains are exact fractions.              *)
(***************************************************************************)
EXTENDS Integers, FiniteSets, Functions, Fractions

CONSTANTS Symbols, InitialCash

VARIABLES
    positions,  \* the symbols that have an entry, and their Position
    cash

Sides == {"Buy", "Sell"}

NewPosition ==
    [quantity |-> 0, avg_entry_price |-> Whole(0), realized_pnl |-> Whole(0),
     unrealized_pnl |-> Whole(0), market_value |-> 0, last_price |-> 0]

Position ==
    [quantity : Int, avg_entry_price : Fraction, realized_pnl : Fraction,
     unrealized_pnl : Fraction, market_value : Int, last_price : Nat]

IsFlat(p) == p.quantity = 0
IsLong(p) == p.quantity > 0
IsShort(p) == p.quantity < 0

\* The position without adding an entry for the symbol.
PositionOf(s) == IF s \in DOMAIN positions THEN positions[s] ELSE NewPosition

Entry(s, p) ==
    [t \in DOMAIN positions \cup {s} |-> IF t = s THEN p ELSE positions[t]]

Signed(side, qty) == IF side = "Buy" THEN qty ELSE -qty

-----------------------------------------------------------------------------
(* One position                                                            *)

UpdateUnrealized(p, price) ==
    [p EXCEPT !.last_price = price,
              !.market_value = price * p.quantity,
              !.unrealized_pnl =
                  IF IsFlat(p) THEN Whole(0)
                  ELSE Minus(Whole(price * p.quantity),
                             Times(p.avg_entry_price, Whole(p.quantity)))]

IsReducing(p, side) ==
    \/ IsLong(p) /\ side = "Sell"
    \/ IsShort(p) /\ side = "Buy"

\* What closing qty, or all that is held if that is less, earns at the price.
Gain(p, qty, price) ==
    LET closed == IF qty < Magnitude(p.quantity) THEN qty ELSE Magnitude(p.quantity)
        perUnit == Minus(Whole(price), p.avg_entry_price)
    IN  Times(perUnit, Whole(IF IsLong(p) THEN closed ELSE -closed))

\* Variants named ..._ are plausible slips in the definition that follows them;
\* no specification uses them, the mutation checks do.
Reduce_KeepsAverage(p, side, qty, price) ==
    [p EXCEPT !.quantity = @ + Signed(side, qty),
              !.realized_pnl = Plus(@, Gain(p, qty, price))]

Reduce(p, side, qty, price) ==
    LET left == p.quantity + Signed(side, qty)
        crossed == (IsLong(p) /\ left <= 0) \/ (IsShort(p) /\ left >= 0)
    IN  [p EXCEPT !.quantity = left,
                  !.realized_pnl = Plus(@, Gain(p, qty, price)),
                  !.avg_entry_price =
                      IF ~crossed THEN @
                      ELSE IF left # 0 THEN Whole(price) ELSE Whole(0)]

Add(p, side, qty, price) ==
    LET held == p.quantity + Signed(side, qty)
        notional == Plus(Times(p.avg_entry_price, Whole(Magnitude(p.quantity))),
                         Whole(price * qty))
    IN  [p EXCEPT !.quantity = held,
                  !.avg_entry_price =
                      IF held # 0 THEN Over(notional, Whole(Magnitude(held))) ELSE @]

-----------------------------------------------------------------------------
(* The operations                                                          *)

Init ==
    /\ positions = << >>
    /\ cash = InitialCash

ApplyFill(s, side, qty, price) ==
    LET p == PositionOf(s)
        traded == IF IsReducing(p, side) THEN Reduce(p, side, qty, price)
                                         ELSE Add(p, side, qty, price)
    IN  /\ positions' = Entry(s, UpdateUnrealized(traded, price))
        /\ cash' = cash - Signed(side, qty) * price

\* A price for a symbol without an entry is forgotten.
UpdatePrice(s, price) ==
    /\ positions' = IF s \in DOMAIN positions
                    THEN Entry(s, UpdateUnrealized(positions[s], price))
                    ELSE positions
    /\ UNCHANGED cash

\* A query through the non-const overload leaves an entry behind.
GetPosition(s) ==
    /\ positions' = Entry(s, PositionOf(s))
    /\ UNCHANGED cash

AddCash(amount) ==
    /\ cash' = cash + amount
    /\ UNCHANGED positions

Reset ==
    /\ positions' = << >>
    /\ cash' = InitialCash

-----------------------------------------------------------------------------
(* The totals                                                              *)

SumOfFractions(f) == FoldFunction(Plus, Whole(0), f)

TotalPortfolioValue ==
    cash + SumFunction([s \in DOMAIN positions |-> positions[s].market_value])
TotalRealized == SumOfFractions([s \in DOMAIN positions |-> positions[s].realized_pnl])
TotalUnrealized == SumOfFractions([s \in DOMAIN positions |-> positions[s].unrealized_pnl])
OpenPositionCount == Cardinality({ s \in DOMAIN positions : ~IsFlat(positions[s]) })

PositionsTyped ==
    /\ DOMAIN positions \subseteq Symbols
    /\ \A s \in DOMAIN positions : positions[s] \in Position
    /\ cash \in Int
=============================================================================
