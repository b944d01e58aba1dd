---------------------------- MODULE MCStrategies ----------------------------
(* An instance of Strategies for TLC. *)
EXTENDS Strategies

Of(kind, booked, all, quantity, waits, n) ==
    [kind |-> kind, booked |-> booked, all |-> all, quantity |-> quantity,
     waits |-> waits, ticks |-> n]

\* Totals that the slices divide, that leave a rest, and that are too small.
Executions ==
    { Of("VWAP", FALSE, all, total, {0, 1}, 4) : all \in BOOLEAN, total \in {1, 4, 7} }
Signals ==
    { Of(kind, booked, FALSE, 2, {1}, 6) :
        kind \in {"MeanReversion", "Momentum"}, booked \in BOOLEAN }
\* Quotes filled in part, and single units over more ticks.
Makers ==
    { Of("MarketMaking", TRUE, FALSE, 2, {1}, 2), Of("MarketMaking", TRUE, FALSE, 1, {1}, 3),
      Of("MarketMaking", FALSE, TRUE, 1, {1}, 2) }
SomeSetups == Executions \cup Signals \cup Makers

TwoMids == {99, 101}
=============================================================================
