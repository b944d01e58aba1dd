------------------------- MODULE ExecutionSimulator -------------------------
(***************************************************************************)
(* backtest::ExecutionSimulator with the parts it owns: the event queue,   *)
(* the simulated clock, the matching engine and the positions.  A strategy *)
(* acts from the event callback, through StrategyBase: orders and cancels  *)
(* become events that arrive after a latency, cancel_all_orders goes to    *)
(* the engine at once.                                                     *)
(*                                                                         *)
(* The queue is a set of events of which the earliest is taken; events at  *)
(* the same time come in any order (see EventQueue).  The engine is the    *)
(* module MatchingEngine, step by step, so the callbacks run where the     *)
(* matching loop calls them.                                               *)
(***************************************************************************)
EXTENDS Integers, Sequences, FiniteSets, Functions

CONSTANTS
    Symbols, Prices, Quantities, Types, Strategies, MaxOrders, None,
                     \* of MatchingEngine; MaxOrders also bounds the requests
    TickTimes,       \* timestamps of the ticks that may be loaded
    Horizons,        \* end times given to run_until
    Never,           \* the largest timestamp
    SubmitLatency,   \* config_.latency
    CancelLatency,
    TickLatency,
    FillLatency,
    InitialCapital,  \* config_.initial_capital
    MaxNotional,     \* config_.max_position_size
    ShortSelling,    \* config_.enable_short_selling
    Margin,          \* config_.enable_margin
    Slippage,        \* what a side pays on top of the price, in ticks
    MaxTicks,        \* bound: ticks loaded in one behaviour
    MaxCancels       \* bound: cancels sent in one behaviour

ASSUME SimulatorAssumption ==
    /\ TickTimes \subseteq Nat /\ Horizons \subseteq Nat /\ Never \in Nat
    /\ {SubmitLatency, CancelLatency, TickLatency, FillLatency} \subseteq Nat
    /\ {InitialCapital, MaxNotional, Slippage, MaxTicks, MaxCancels} \subseteq Nat
    /\ {ShortSelling, Margin} \subseteq BOOLEAN

VARIABLES
    orders, index, fifo, total, pc, aggressor, level, passive, sweep,
                \* of MatchingEngine
    queue,      \* event_queue_
    pushes,     \* EventQueue::event_count_ by kind of event
    clock,      \* clock_
    running,    \* is_running_
    until,      \* end_time of run_until; Never in run
    at,         \* where the simulator is: outside, loop, engine or callback
    position,   \* quantity held, by symbol
    cash,       \* PositionManager::cash_
    reported    \* history: what fill reports have told the strategy, by order

engineVars == <<orders, index, fifo, total, pc, aggressor, level, passive, sweep>>
account == <<position, cash>>
vars == <<engineVars, queue, pushes, clock, running, until, at, account, reported>>

\* The trade callback runs in the middle of a match, so cancels may too.
Engine == INSTANCE MatchingEngine WITH Reentrant <- TRUE

ASSUME EngineAssumption == Engine!PricesAssumption /\ Engine!ConstantsAssumption

-----------------------------------------------------------------------------
(* Events                                                                  *)

Kinds == {"tick", "submit", "cancel", "report"}

\* An event is known by its kind and number; what is the payload of it.
Event(kind, ts, what, n) == [kind |-> kind, ts |-> ts, what |-> what, n |-> n]

\* Variants named ..._ are plausible slips in the definition that follows them;
\* no specification uses them, the mutation checks do.
Push_Uncounted(kind, ts, what) ==
    /\ queue' = queue \cup {Event(kind, ts, what, pushes[kind] + 1)}
    /\ UNCHANGED pushes

Push(kind, ts, what) ==
    /\ queue' = queue \cup {Event(kind, ts, what, pushes[kind] + 1)}
    /\ pushes' = [pushes EXCEPT ![kind] = @ + 1]

Earliest == { e \in queue : \A f \in queue : e.ts <= f.ts }

-----------------------------------------------------------------------------
(* The strategy and the program around the simulator                       *)

\* Where code of the strategy runs: before a run, and in callbacks.
StrategyRuns ==
    /\ sweep = {}
    /\ \/ at \in {"outside", "callback"}
       \/ at = "engine" /\ pc = "callbacks"

\* ExecutionSimulator::add_tick; ticks are loaded between runs.
AddTick(ts) ==
    /\ at = "outside"
    /\ sweep = {}
    /\ pushes["tick"] < MaxTicks
    /\ Push("tick", ts + TickLatency, None)
    /\ UNCHANGED <<engineVars, clock, running, until, at, account, reported>>

SubmitOrder(r) ==
    /\ StrategyRuns
    /\ pushes["submit"] < MaxOrders
    /\ Push("submit", clock + SubmitLatency, r)
    /\ UNCHANGED <<engineVars, clock, running, until, at, account, reported>>

CancelOrder_FromZero(id) ==
    /\ StrategyRuns
    /\ pushes["cancel"] < MaxCancels
    /\ Push("cancel", CancelLatency, id)
    /\ UNCHANGED <<engineVars, clock, running, until, at, account, reported>>

CancelOrder(id) ==
    /\ StrategyRuns
    /\ pushes["cancel"] < MaxCancels
    /\ Push("cancel", clock + CancelLatency, id)
    /\ UNCHANGED <<engineVars, clock, running, until, at, account, reported>>

\* StrategyBase::cancel_all_orders: no latency, no event.
CancelAllOrders(strat) ==
    /\ StrategyRuns
    /\ Engine!CancelAllOrders(strat)
    /\ UNCHANGED <<queue, pushes, clock, running, until, at, account, reported>>

CancelNext(id) ==
    /\ Engine!CancelNext(id)
    /\ UNCHANGED <<queue, pushes, clock, running, until, at, account, reported>>

Stop ==
    /\ at # "outside"
    /\ StrategyRuns
    /\ running
    /\ running' = FALSE
    /\ UNCHANGED <<engineVars, queue, pushes, clock, until, at, account, reported>>

-----------------------------------------------------------------------------
(* run and run_until                                                       *)

Run(end) ==
    /\ at = "outside"
    /\ sweep = {}
    /\ queue # {}
    /\ running' = TRUE
    /\ until' = end
    /\ at' = "loop"
    /\ UNCHANGED <<engineVars, queue, pushes, clock, account, reported>>

RunReturns ==
    /\ at = "loop"
    /\ ~ running \/ \A e \in queue : e.ts > until
    /\ running' = FALSE
    /\ at' = "outside"
    /\ UNCHANGED <<engineVars, queue, pushes, clock, until, account, reported>>

Take_Peeks(e) ==
    /\ at = "loop"
    /\ running
    /\ e \in Earliest
    /\ e.ts <= until
    /\ clock' = e.ts
    /\ UNCHANGED <<queue, pushes, running, until, account>>

\* process_next_event up to the handler: the event leaves the queue and sets
\* the time.
Take(e) ==
    /\ at = "loop"
    /\ running
    /\ e \in Earliest
    /\ e.ts <= until
    /\ queue' = queue \ {e}
    /\ clock' = e.ts
    /\ UNCHANGED <<pushes, running, until, account>>

ProcessTick(e) ==
    /\ e.kind = "tick"
    /\ Take(e)
    /\ at' = "callback"
    /\ UNCHANGED <<engineVars, reported>>

ProcessReport(e) ==
    /\ e.kind = "report"
    /\ Take(e)
    /\ reported' = [reported EXCEPT ![e.what.id] = @ + e.what.qty]
    /\ at' = "callback"
    /\ UNCHANGED engineVars

\* MatchingEngine::cancel_order does nothing for an order that is over.
ProcessCancel(e) ==
    /\ e.kind = "cancel"
    /\ Take(e)
    /\ IF Engine!Active(orders[e.what])
       THEN Engine!CancelOrder(e.what)
       ELSE UNCHANGED engineVars
    /\ at' = "callback"
    /\ UNCHANGED reported

\* validate_order; a market order has price zero, and so a notional of zero.
Valid(r) ==
    /\ r.price * r.qty <= MaxNotional
    /\ ~ ShortSelling /\ r.side = "Sell" => r.qty <= position[r.sym]
    /\ Margin => r.price * r.qty <= 2 * cash

ProcessSubmit(e) ==
    /\ e.kind = "submit"
    /\ Take(e)
    /\ IF Valid(e.what)
       THEN Engine!Submit(e.what) /\ at' = "engine"
       ELSE UNCHANGED engineVars /\ at' = "callback"
    /\ UNCHANGED reported

EngineReturns ==
    /\ at = "engine"
    /\ Engine!Idle
    /\ at' = "callback"
    /\ UNCHANGED <<engineVars, queue, pushes, clock, running, until, account, reported>>

CallbackReturns ==
    /\ at = "callback"
    /\ sweep = {}
    /\ at' = "loop"
    /\ UNCHANGED <<engineVars, queue, pushes, clock, running, until, account, reported>>

-----------------------------------------------------------------------------
(* The engine's callbacks                                                  *)

\* Steps of submit_order that call nobody.
EngineStep ==
    /\ at = "engine"
    /\ \/ Engine!TakeLevel \/ Engine!LeaveLevels
       \/ Engine!AfterFill \/ Engine!LeaveLevel \/ Engine!Finish
    /\ UNCHANGED <<queue, pushes, clock, running, until, at, account, reported>>

Report(id, q, n) ==
    Event("report", clock + FillLatency, [id |-> id, qty |-> q], n)

\* on_fill moves the account of the one simulated trader for either side.
Signed(side, q) == IF side = "Buy" THEN q ELSE -q
Paid(side, price, q) == IF side = "Buy" THEN (price + Slippage) * q ELSE (Slippage - price) * q

EngineFill_TakerOnly ==
    LET o  == orders[aggressor]
        pa == Head(Engine!LevelFifo)
        q  == Engine!FillQty(o, orders[pa])
        n  == pushes["report"]
    IN
    /\ at = "engine"
    /\ Engine!Fill
    /\ queue' = queue \cup { Report(aggressor, q, n + 1) }
    /\ pushes' = [pushes EXCEPT !["report"] = n + 1]
    /\ position' = [position EXCEPT ![o.sym] = @ + Signed(o.side, q)]
    /\ cash' = cash - Paid(o.side, level, q)
    /\ UNCHANGED <<clock, running, until, at, reported>>

\* One iteration of the matching loop, with on_fill for the incoming order and
\* for the resting one.
EngineFill ==
    LET o  == orders[aggressor]
        pa == Head(Engine!LevelFifo)
        q  == Engine!FillQty(o, orders[pa])
        n  == pushes["report"]
    IN
    /\ at = "engine"
    /\ Engine!Fill
    /\ queue' = queue \cup { Report(aggressor, q, n + 1), Report(pa, q, n + 2) }
    /\ pushes' = [pushes EXCEPT !["report"] = n + 2]
    /\ position' = [position EXCEPT ![o.sym] =
                       @ + Signed(o.side, q) + Signed(orders[pa].side, q)]
    /\ cash' = cash - Paid(o.side, level, q) - Paid(orders[pa].side, level, q)
    /\ UNCHANGED <<clock, running, until, at, reported>>

-----------------------------------------------------------------------------

Init ==
    /\ Engine!Init
    /\ queue = {}
    /\ pushes = [kind \in Kinds |-> 0]
    /\ clock = 0
    /\ running = FALSE
    /\ until = Never
    /\ at = "outside"
    /\ position = [sym \in Symbols |-> 0]
    /\ cash = InitialCapital
    /\ reported = [id \in 1 .. MaxOrders |-> 0]

\* The program's own steps; the others are the strategy's and its user's.
SimulatorStep ==
    \/ RunReturns
    \/ \E e \in queue : ProcessTick(e)
    \/ \E e \in queue : ProcessReport(e)
    \/ \E e \in queue : ProcessCancel(e)
    \/ \E e \in queue : ProcessSubmit(e)
    \/ EngineStep
    \/ EngineFill
    \/ EngineReturns
    \/ CallbackReturns
    \/ \E id \in DOMAIN orders : CancelNext(id)

Next ==
    \/ SimulatorStep
    \/ \E ts \in TickTimes : AddTick(ts)
    \/ \E r \in Engine!Requests : SubmitOrder(r)
    \/ \E id \in DOMAIN orders : CancelOrder(id)
    \/ \E strat \in Strategies : CancelAllOrders(strat)
    \/ Stop
    \/ \E end \in Horizons \cup {Never} : Run(end)

Spec == Init /\ [][Next]_vars

\* The program is one thread: a run that has started goes on, and callbacks
\* return.
FairSpec == Spec /\ WF_vars(SimulatorStep)

-----------------------------------------------------------------------------
(* Properties                                                              *)

\* Type invariant of the simulator; the engine's is in its own module.
TypeOK ==
    /\ \A e \in queue : e.kind \in Kinds /\ e.ts \in Nat /\ e.n \in 1 .. pushes[e.kind]
    /\ pushes \in [Kinds -> Nat]
    /\ clock \in Nat
    /\ running \in BOOLEAN
    /\ until \in Horizons \cup {Never}
    /\ at \in {"outside", "loop", "engine", "callback"}
    /\ position \in [Symbols -> Int]
    /\ cash \in Int
    /\ reported \in [1 .. MaxOrders -> Nat]

\* The fill reports of an order that are still on their way.
OnTheWay(id) == { e \in queue : e.kind = "report" /\ e.what.id = id }

\* What the strategy has been told and what is still on its way add up to what
\* the engine filled: no fill goes unreported or is reported twice.
ReportsMatchFills ==
    \A id \in DOMAIN orders :
        reported[id]
          + SumFunctionOnSet([e \in OnTheWay(id) |-> e.what.qty], OnTheWay(id))
            = orders[id].filled

\* What the engine filled of each order.
Filled == [id \in DOMAIN orders |-> orders[id].filled]

\* The position that quantities of the orders of a symbol add up to.
Net(sym, qty) ==
    SumFunction([id \in DOMAIN orders |->
        IF orders[id].sym = sym THEN Signed(orders[id].side, qty[id]) ELSE 0])

\* The account books every fill of every order once, on the order's side, at the time
\* of the match: positions are what the engine filled of the orders, and cash is what
\* is left of the capital after the slippage of each side (execution_simulator.cpp:204).
AccountMatchesFills ==
    /\ \A sym \in Symbols : position[sym] = Net(sym, Filled)
    /\ cash = InitialCapital - Slippage * SumFunctionOnSet(Filled, DOMAIN orders)

\* A position follows the fills that the strategy is told of: each one is booked when
\* its event is processed, before the strategy sees it (DESIGN.md:782).
PositionFollowsReports ==
    \A sym \in Symbols : position[sym] = Net(sym, reported)

\* Time goes back only for a tick that was loaded for the past: orders, cancels
\* and reports never arrive before the moment that caused them.
TimeForward ==
    [][clock' < clock => \E e \in queue \ queue' : e.kind = "tick"]_vars

\* Every run comes to its end.
EveryRunReturns == at = "loop" ~> at = "outside"
=============================================================================
