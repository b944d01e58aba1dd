------------------------------ MODULE Accounts ------------------------------
(***************************************************************************)
(* The books of a backtest: PositionManager, PnLTracker and                *)
(* MarkoutAnalyzer fed with the same fills and prices.  A fill reaches the *)
(* three of them, as in ExecutionSimulator::on_fill (the markout is fed    *)
(* by its user); a price reaches the positions and the markout; marks and  *)
(* days pass on the totals of the positions.                               *)
(***************************************************************************)
EXTENDS Integers, Sequences, FiniteSets, FiniteSetsExt, Functions

CONSTANTS
    Symbols,        \* what may be traded
    Horizons,       \* horizons of the markout
    Capital,        \* initial cash and equity
    Scenarios       \* inputs and bounds; a behaviour keeps to one of them

\* symbols, quantities and prices of fills and mids; how much later a mid may
\* be than what came before; what each fill may cost; cash that may be added
\* once; and how many fills, mids, and marks or days there are between resets.
Scenario ==
    [symbols : SUBSET Symbols, quantities : SUBSET (Nat \ {0}), prices : SUBSET Nat,
     waits : SUBSET Nat, fees : SUBSET Nat, amounts : SUBSET Int,
     fills : Nat, mids : Nat, marks : Nat]

ASSUME AccountsAssumption ==
    /\ Horizons \in Seq(Nat)
    /\ Capital \in Nat \ {0}
    /\ Scenarios \subseteq Scenario

VARIABLES
    positions, cash,                     \* of PositionManager
    current_equity, high_water_mark, total_costs, total_volume,
    trades, daily_pnl, daily_returns,    \* of PnLTracker
    pending, accum, num_fills,           \* of Markout
    scenario,       \* the inputs of this behaviour
    now,            \* time of the simulation
    fee,            \* what each fill costs in this behaviour
    fills,          \* history: the fills since the last reset
    mids,           \* history: the mids since the last reset
    marks,          \* history: the values that were marked or closed at
    moved           \* history: cash added less cash deducted

positionVars == <<positions, cash>>
trackerVars == <<current_equity, high_water_mark, total_costs, total_volume,
                 trades, daily_pnl, daily_returns>>
markoutVars == <<pending, accum, num_fills>>
history == <<fills, mids, marks, moved>>
setting == <<scenario, fee>>
vars == <<positionVars, trackerVars, markoutVars, setting, now, history>>

Holdings == INSTANCE PositionManager WITH InitialCash <- Capital
Tracker == INSTANCE PnLTracker WITH InitialEquity <- Capital
Analysis == INSTANCE Markout

-----------------------------------------------------------------------------
Init ==
    /\ Holdings!Init /\ Tracker!Init /\ Analysis!Init
    /\ scenario \in Scenarios
    /\ fee \in scenario.fees
    /\ now = 0
    /\ fills = << >> /\ mids = << >> /\ marks = << >> /\ moved = 0

\* ExecutionSimulator::on_fill, and the same fill given to the markout.
OnFill(s, side, qty, price) ==
    /\ Len(fills) < scenario.fills
    /\ Holdings!ApplyFill(s, side, qty, price)
    /\ Tracker!RecordTrade(qty, price, fee)
    /\ Analysis!RecordFill(now, side, price, qty)
    /\ fills' = Append(fills, [symbol |-> s, side |-> side, qty |-> qty, price |-> price,
                               ts |-> now, mids |-> Len(mids), marks |-> Len(marks)])
    /\ UNCHANGED <<setting, now, mids, marks, moved>>

\* A tick: update_price by the simulator, on_mid by the user, in time order.
OnTick(s, mid, wait) ==
    /\ Len(mids) < scenario.mids
    /\ now' = now + wait
    /\ Holdings!UpdatePrice(s, mid)
    /\ Analysis!OnMid(now', mid)
    /\ mids' = Append(mids, [ts |-> now', mid |-> mid])
    /\ UNCHANGED <<trackerVars, setting, fills, marks, moved>>

Valued(kind) ==
    /\ Len(marks) < scenario.marks
    /\ marks' = Append(marks, [kind |-> kind, value |-> Holdings!TotalPortfolioValue])
    /\ UNCHANGED <<positionVars, markoutVars, setting, now, fills, mids, moved>>

Mark == Valued("mark") /\ Tracker!MarkToMarket(Holdings!TotalPortfolioValue)
EndOfDay == Valued("close") /\ Tracker!EndOfDay(Holdings!TotalPortfolioValue)

\* add_cash and deduct_cash: the trackers are not told.
Transfer(amount) ==
    /\ moved = 0
    /\ Holdings!AddCash(amount)
    /\ moved' = moved + amount
    /\ UNCHANGED <<trackerVars, markoutVars, setting, now, fills, mids, marks>>

Query(s) ==
    /\ Holdings!GetPosition(s)
    /\ UNCHANGED <<trackerVars, markoutVars, setting, now, history>>

\* The three resets, for another backtest from the start of the data.
Reset ==
    /\ Holdings!Reset /\ Tracker!Reset /\ Analysis!Reset
    /\ now' = 0
    /\ fills' = << >> /\ mids' = << >> /\ marks' = << >> /\ moved' = 0
    /\ UNCHANGED setting

Next ==
    \/ \E s \in scenario.symbols, side \in {"Buy", "Sell"},
          qty \in scenario.quantities, price \in scenario.prices :
          OnFill(s, side, qty, price)
    \/ \E s \in scenario.symbols, mid \in scenario.prices, wait \in scenario.waits :
          OnTick(s, mid, wait)
    \/ Mark
    \/ EndOfDay
    \/ \E amount \in scenario.amounts : Transfer(amount)
    \/ \E s \in scenario.symbols : Query(s)
    \/ Reset

Spec == Init /\ [][Next]_vars

-----------------------------------------------------------------------------
(* Properties                                                              *)

\* The three parts keep their types.
TypeOK ==
    /\ Holdings!PositionsTyped /\ Tracker!TrackerTyped /\ Analysis!MarkoutTyped
    /\ scenario \in Scenarios /\ fee \in scenario.fees
    /\ now \in Nat /\ moved \in Int

SumOf(f(_), S) == SumFunction([x \in S |-> f(x)])

\* However fills open, add to, reduce, close or flip positions
\* (position_manager.cpp:40), each position is the sum of its fills, and what
\* the account is worth beyond the cash put in is the gain on every fill at the
\* last price of its symbol, which apply_fill has split into a realized and an
\* unrealized part without remainder.
ValueIsAccountedFor ==
    LET signed(i) == Holdings!Signed(fills[i].side, fills[i].qty)
        gain(i) == signed(i) * (positions[fills[i].symbol].last_price - fills[i].price)
        of(s) == { i \in DOMAIN fills : fills[i].symbol = s }
        split == Holdings!Plus(Holdings!TotalRealized, Holdings!TotalUnrealized)
        worth == Holdings!TotalPortfolioValue - Capital - moved
    IN  /\ \A s \in DOMAIN positions : positions[s].quantity = SumOf(signed, of(s))
        /\ worth = SumOf(gain, DOMAIN fills)
        /\ split = Holdings!Whole(worth)

\* The equity is the value of the last mark less the costs of the fills after
\* it (pnl_tracker.cpp:24 overwrites the costs before it), and the high-water mark
\* is the largest value seen at a mark or a day's end.
EquityFollowsMarks ==
    LET marked == { i \in DOMAIN marks : marks[i].kind = "mark" }
        last == Max(marked \cup {0})
        value(i) == IF i = 0 THEN Capital ELSE marks[i].value
    IN  /\ current_equity = value(last) - fee * Cardinality({ i \in DOMAIN fills : fills[i].marks >= last })
        /\ high_water_mark = Max({ value(i) : i \in DOMAIN marks \cup {0} })

\* The drawdown that calculate_stats rebuilds from the returns is that of the
\* marked values; with costs it is never larger, because a return starts from
\* the equity that costs had lowered.
DrawdownIsRebuilt ==
    LET marked == { i \in DOMAIN marks : marks[i].kind = "mark" }
        value(i) == IF i = 0 THEN Capital ELSE marks[i].value
        fall(i, k) == Tracker!Ratio(value(i) - value(k), value(i))
        falls == { fall(p[1], p[2]) : p \in { q \in (marked \cup {0}) \X (marked \cup {0}) :
                                              q[1] <= q[2] } }
        reference == CHOOSE x \in falls : \A y \in falls : ~Tracker!LessThan(x, y)
        drawdown == Tracker!Stats.max_drawdown
    IN  /\ ~Tracker!LessThan(reference, drawdown)
        /\ fee = 0 => drawdown = reference

\* The equity curve and what calculate_stats makes of it.
CurveIsKept == EquityFollowsMarks /\ DrawdownIsRebuilt

\* Every fill is resolved once per horizon, against the first mid that came
\* after it at or beyond the horizon (markout.cpp:39), also when one mid passes
\* several horizons, is zero or shares the time of the fill; until then it is
\* pending.  A fill at price zero is dropped where others are resolved.
MarkoutsResolveOnce ==
    \A h \in DOMAIN Horizons :
        LET answers(i) == { j \in DOMAIN mids : /\ j > fills[i].mids
                                               /\ mids[j].ts >= fills[i].ts + Horizons[h] }
            answered == { i \in DOMAIN fills : answers(i) # {} }
            resolved == { i \in answered : fills[i].price > 0 }
            move(i) == Holdings!Signed(fills[i].side, 1) * (mids[Min(answers(i))].mid - fills[i].price)
        IN  /\ accum[h].count = Cardinality(resolved)
            /\ accum[h].sum_per_share = SumOf(move, resolved)
            /\ accum[h].wins = Cardinality({ i \in resolved : move(i) > 0 })
            /\ { p.fill : p \in { q \in pending : q.horizon_index = h } } = DOMAIN fills \ answered
=============================================================================
