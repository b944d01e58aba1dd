----------------------------- MODULE PnLTracker -----------------------------
(***************************************************************************)
(* backtest::PnLTracker: the equity curve as trades, marks and days reach  *)
(* it, and the drawdown part of calculate_stats, which rebuilds the curve  *)
(* from the returns.  Means, deviations and ratios of the statistics are   *)
(* left out.  total_realized_pnl_ and TradeRecord::realized_pnl are never  *)
(* assigned, so what depends on them is zero.                              *)
(***************************************************************************)
EXTENDS Integers, Sequences, Fractions

CONSTANT InitialEquity

VARIABLES
    current_equity,
    high_water_mark,
    total_costs,
    total_volume,
    trades,          \* how many were recorded
    daily_pnl,       \* opening and closing equity of each day
    daily_returns    \* for each mark, the equity before and after

trackerVars == <<current_equity, high_water_mark, total_costs, total_volume,
                 trades, daily_pnl, daily_returns>>

Init ==
    /\ current_equity = InitialEquity
    /\ high_water_mark = InitialEquity
    /\ total_costs = 0 /\ total_volume = 0 /\ trades = 0
    /\ daily_pnl = << >>
    /\ daily_returns = << >>

RecordTrade(qty, price, cost) ==
    /\ trades' = trades + 1
    /\ total_costs' = total_costs + cost
    /\ total_volume' = total_volume + price * qty
    /\ current_equity' = current_equity - cost
    /\ UNCHANGED <<high_water_mark, daily_pnl, daily_returns>>

RaiseHighWater(value) ==
    high_water_mark' = IF value > high_water_mark THEN value ELSE high_water_mark

\* The value replaces the equity, costs deducted since the last mark included.
MarkToMarket(value) ==
    /\ current_equity' = value
    /\ RaiseHighWater(value)
    /\ daily_returns' = Append(daily_returns, <<current_equity, value>>)
    /\ UNCHANGED <<total_costs, total_volume, trades, daily_pnl>>

EndOfDay(value) ==
    LET open == IF daily_pnl = << >> THEN InitialEquity
                ELSE daily_pnl[Len(daily_pnl)].close_equity
    IN  /\ daily_pnl' = Append(daily_pnl, [open_equity |-> open, close_equity |-> value])
        /\ RaiseHighWater(value)
        /\ UNCHANGED <<current_equity, total_costs, total_volume, trades, daily_returns>>

Reset ==
    /\ current_equity' = InitialEquity
    /\ high_water_mark' = InitialEquity
    /\ total_costs' = 0 /\ total_volume' = 0 /\ trades' = 0
    /\ daily_pnl' = << >>
    /\ daily_returns' = << >>

-----------------------------------------------------------------------------
(* calculate_stats                                                         *)

\* One round of the loop over the returns.
\* Variants named ..._ are plausible slips in the definition that follows them;
\* no specification uses them, the mutation checks do.
Round_PeakIsPrevious(before, return) ==
    LET running == Times(before.running, Ratio(return[2], return[1]))
        dd == Over(Minus(before.running, running), before.running)
    IN  [before EXCEPT !.running = running, !.peak = running, !.max_dd = Larger(@, dd)]

Round(before, return) ==
    LET running == Times(before.running, Ratio(return[2], return[1]))
        dd == Over(Minus(before.peak, running), before.peak)
    IN  IF LessThan(before.peak, running)
        THEN [before EXCEPT !.running = running, !.peak = running, !.current = 0,
                            !.longest = IF before.current > @ THEN before.current ELSE @]
        ELSE [before EXCEPT !.running = running, !.current = @ + 1,
                            !.max_dd = Larger(@, dd)]

\* What the loop holds after k rounds.
Drawdown[k \in Nat] ==
    IF k = 0
    THEN [running |-> Whole(InitialEquity), peak |-> Whole(InitialEquity),
          max_dd |-> Whole(0), current |-> 0, longest |-> 0]
    ELSE Round(Drawdown[k - 1], daily_returns[k])

NoStats ==
    [total_return |-> Whole(0), max_drawdown |-> Whole(0), max_drawdown_duration_days |-> 0,
     current_drawdown |-> Whole(0), total_trades |-> 0, winning_trades |-> 0, losing_trades |-> 0,
     total_commission |-> 0, turnover |-> Whole(0)]

\* Without a mark nothing is filled in, trades and costs included.  A duration
\* still running at the last return is not counted.
Stats ==
    LET end == Drawdown[Len(daily_returns)]
    IN  IF daily_returns = << >> THEN NoStats
        ELSE [total_return |-> Ratio(current_equity - InitialEquity, InitialEquity),
              max_drawdown |-> end.max_dd,
              max_drawdown_duration_days |-> end.longest,
              current_drawdown |-> Ratio(high_water_mark - current_equity, high_water_mark),
              total_trades |-> trades, winning_trades |-> 0, losing_trades |-> 0,
              total_commission |-> total_costs,
              turnover |-> Ratio(total_volume, InitialEquity)]

TrackerTyped ==
    /\ {current_equity, high_water_mark} \subseteq Int
    /\ {total_costs, total_volume, trades} \subseteq Nat
    /\ daily_pnl \in Seq([open_equity : Int, close_equity : Int])
    /\ daily_returns \in Seq(Int \X Int)
=============================================================================
