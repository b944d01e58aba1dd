# Verification of the backtesting execution simulator

TLA+ modules, TLC configurations and TLAPS proofs for the C++ program in
`src/cpp`: a single-process simulator that replays market data through an event
queue, sends orders to a price-time matching engine, and keeps positions. The
source is the reference. Where a document or a comment says something else than
the code, the model follows the code and the difference is a finding.

## The system

| Part | State | Operations | Talks to |
| --- | --- | --- | --- |
| Matching engine, order book (`orderbook/`) | all orders by id, one book per symbol: two maps of price levels, each a linked list with a running total, and an id index | `submit_order`, `cancel_order`, `cancel_all_orders`, queries | fill and trade callbacks, called in the middle of the matching loop |
| Event queue, merger (`events/`) | binary heap of events ordered by timestamp | `push`, `pop`, `pop_next` over several queues | the simulator |
| Lock-free event queue (`events/event_queue.hpp`) | ring of slots, a sequence number per slot, two atomic counters | `try_push`, `try_pop` from any thread | nothing else in the repository uses it |
| Execution simulator (`execution/`) | event queue, clock, last ticks, run flag, and the parts below | `submit_order`, `cancel_order` and `add_tick` push events after a latency; `run`, `run_until`, `stop` pop and dispatch them | engine, positions, the strategy's callback |
| Position manager, gain and loss tracker (`position/`) | positions by symbol, cash, trades, equity curve | `apply_fill`, `update_price`, totals, daily roll | the simulator's `on_fill` |
| Markout (`analytics/`) | pending fills by horizon | `record_fill`, `on_mid`, `resolve_due` | fed by its user |
| Data feeds, tick files (`data/`) | cursors, file positions, header count | `next_tick`, `reset`, `write`, `close` | the simulator's caller |
| Memory pools (`core/memory_pool.hpp`) | free list, blocks, ring of objects | allocate and deallocate, acquire and release | the engine may be given a `MemoryPool` for its orders; nothing instantiates the thread-safe, the lock-free and the object pool |
| Strategies (`strategy/`) | targets, windows, orders in flight, quotes | `on_tick`, `on_fill`, `submit`, `cancel_all_orders` | simulator (with latency) and engine (cancel-all, without) |
| Clock, types, utilities, bindings, benchmarks | none worth a model, apart from the clock | | |

What is hard here:

* **Reentrancy.** The engine is single-threaded, but it calls back between
  applying a fill and removing the filled order. `StrategyBase::cancel_all_orders`
  acts on the engine directly, so the book may change under a running match.
* **Redundant structures.** An order's place is recorded in the id index, in a
  level's list, in the level's total and in its own fields, and four functions
  keep them in step.
* **Concurrency.** `LockFreeEventQueue` is called from several threads, with
  relaxed counters and failing exchanges.
* **Ordering in simulated time.** Different latencies, equal timestamps and
  events pushed for the past reorder what the strategy did.
* **Boundaries.** Full rings, empty levels, zero quantities, fills that cross
  through zero, files cut off by a crash.

`PROJECT.json` lists these hazards line by line with the properties that would
catch them. What makes each part correct:

* engine: the book's structures agree at every step, it never crosses, priority
  is price then time, a limit holds, fill-or-kill is all or nothing, finished
  orders stay finished, every call returns;
* lock-free queue: one owner per slot, no slot lost, first in first out;
* event queue: always the least timestamp, nothing lost, the merger equivalent
  to one queue;
* simulator: nothing arrives before what caused it, every fill is reported and
  reaches the account once, and every run returns;
* positions: quantity is the sum of the fills, realized gain is that of the
  closed part, flips included;
* markout: each fill resolved once per horizon; tick files: what a closed file
  returns is what was written, a crash loses only a suffix; pools: no block has
  two owners; feeds: every tick once per pass, and a call
  returns while there is a tick;
* strategies: an execution sends no more than its total, a position keeps to its limit.

## Modules

| Module | Models |
| --- | --- |
| `MatchingEngine` | the engine and its books, one action per iteration of the matching loop |
| `MCMatchingEngine` | instances of it, four `.cfg` files |
| `MatchingEngineProofs` | the inductive invariant of the engine, and what follows for trades, totals and finished calls, proved |
| `SumTheorems` | lemmas on sums over finite sets, and induction in the form of sets |
| `BoundedFifo` | what the lock-free queue promises |
| `LockFreeEventQueue` | the ring, one action per atomic access |
| `TimeQueue` | what a set of event queues and their merger promise |
| `EventQueue` | the heap arrays of the event queues, and the merger |
| `MCQueues` | an instance of `EventQueue` and one of `LockFreeEventQueue`, side by side |
| `MCEventQueue` | an instance of `EventQueue` alone, for ties |
| `EventQueueProofs` | both queues of `event_queue.hpp`, proved: the heaps stay heaps and implement `TimeQueue`; the inductive invariant of the ring, which implements `BoundedFifo` |
| `ExecutionSimulator` | the simulator: event loop, clock, latencies, account, with `MatchingEngine` inside |
| `MCExecutionSimulator` | instances of it, two `.cfg` files |
| `ExecutionSimulatorProofs` | its inductive invariant on top of that of the engine, proved |
| `BookOfQueues` | what an order book promises: a queue of orders per side and price, and answers that fit |
| `MemoryPool` | the pool of order slots: blocks and the list of returned slots |
| `OrderBook` | the book down to its pointers, on a `MemoryPool`, with the queries |
| `MCOrderBook` | an instance of it |
| `OrderBookProofs` | the lists, levels, index and pool stay one structure, and implement `BookOfQueues`, proved |
| `Fractions` | exact fractions, for averages, gains and returns |
| `PositionManager`, `PnLTracker`, `Markout` | the three ways the program keeps accounts |
| `Accounts` | the three fed with the same fills and prices |
| `AccountsProofs` | value, equity, drawdown and markout are what the histories determine, proved |
| `TickFile` | a binary tick file, its writer, the stream's buffer and a crash |
| `MarketDataFeeds` | the four feeds and the one that goes round them, reading what `TickFile` left |
| `MCReplayAndAccounts` | an instance of `MarketDataFeeds` and one of `Accounts` with three scenarios, side by side |
| `MarketDataFeedsProofs` | what a file and a pass give, proved |
| `Strategies` | the four strategies, and what becomes of the orders they send |
| `MCStrategies` | instances of it, two `.cfg` files |
| `StrategiesProofs` | what the strategies send, fill and hold, proved |

### MatchingEngine

`orders` is `all_orders_` (ids count up by one, and orders are never erased, so an
id is a position in the sequence). `index` is `OrderBook::orders_`, `fifo` the
lists of the price levels (the empty list is a price with no level in the map),
`total` their `total_quantity_`. The locals of a running `submit_order` are `pc`,
`aggressor`, `level` and `passive`; `sweep` is what a running `cancel_all_orders`
has still to visit.

| Action | Code |
| --- | --- |
| `Submit` | `submit_order` up to the matching loop: dispatch on the type, the best-price test of `match_limit_order`, the availability count of `match_fok_order` and its rejection, stop orders that no branch handles |
| `TakeLevel`, `LeaveLevels` | the head of the outer loop of `match_against_book`, with its price test for type `Limit` only |
| `Fill` | the body of the inner loop up to the callbacks |
| `AfterFill`, `LeaveLevel` | the rest of the body, and the end of the inner loop |
| `Finish` | the end of the `match_..._order` functions: rest, cancel the remainder, or nothing |
| `CancelOrder`, `CancelAllOrders`, `CancelNext` | the two cancel operations, between calls and, when `Reentrant`, from a callback |

After the last order of a level has been removed, `match_against_book` reads
`level->empty()` through a pointer to the level that was just deleted
(`matching_engine.cpp:205`). That read is undefined. The model takes the outcome
that common allocators produce, the order count of zero that the level was deleted
with. Under another outcome the loop would go on with freed memory, and nothing
below applies.

Callbacks in the model cancel. They do not submit: a nested `submit_order` is not
modelled, and neither the simulator nor a strategy does that in the repository.

### LockFreeEventQueue

`tail`, `head`, `sequence` and `buffer` are the fields. Each thread has a `pc`, its
local `pos` and the event it holds. `log` is a history variable: the events in the
order in which their positions were claimed. Each atomic access is an action. A
relaxed load returns any value from the last one the thread saw to the newest. A
weak exchange may fail for no reason and then reloads. The sequence numbers are
read as last written: an older number can only make a call give up or lose its
exchange, which the model allows anyway. Positions are natural numbers; the
wrap of `size_t` after 2^64 pushes is not modelled.

The comment and `README.md` of the source call the queue single-producer,
single-consumer. The code is the general algorithm, and the model has any number
of threads on each side. With a capacity of one, which the `static_assert`
accepts, the number of a full slot equals the number that admits the next push and
an unread event is overwritten; the module assumes a capacity of two or more.

### EventQueue

`heap` is the array below `std::priority_queue`, `count` is `event_count_`, `last` is what
the last `pop` or `pop_next` returned, and to whom. `HeapPush` and `HeapPop` arrange the
array the way libstdc++ does: a hole rises from the new leaf, or sinks from the root to a
leaf along preferred children before the last element rises into it. They say so without
recursion: `Path` is the way from a position to the root, and each position is described
by whether the hole passed it. The exact layout matters only for events at the same time,
whose order depends on nothing else. `Push`, `Pop`, `Clear` and `PopNext` are the
operations; `Best` is the source that the loop of `pop_next` ends with.

`TimeQueue` keeps a set of events per queue. `TakeNext` may come back with nothing while
`Due` is empty, which is weaker than one would like: `pop_next` starts from the largest
timestamp and compares with `<`, so events at that timestamp are never found although
`empty()` reports them.

### ExecutionSimulator

`queue` is `event_queue_` as a set of which an earliest event is taken (what `TimeQueue`
promises, so ties come in any order), `clock` is both `clock_` and the engine's time,
`running` is `is_running_`. `at` says who has control: the user (`outside`), the loop of
`run` or `run_until`, the engine's `submit_order`, or the strategy inside
`event_callback_`. The engine's variables are those of `MatchingEngine`, and each step
inside a `submit_order` is a step of that module, so the trade callback runs where the
matching loop calls it.

| Action | Code |
| --- | --- |
| `AddTick`, `SubmitOrder`, `CancelOrder` | the functions of those names: an event in the future by the latency |
| `CancelAllOrders`, `CancelNext` | `StrategyBase::cancel_all_orders`, which acts on the engine at once |
| `Run`, `RunReturns`, `Stop` | `run` (`until = Never`), `run_until` and `stop` |
| `ProcessTick`, `ProcessReport`, `ProcessCancel`, `ProcessSubmit` | `process_next_event` with the handler of that event, `validate_order` included |
| `EngineStep`, `EngineFill` | the steps of `submit_order`; a fill calls `on_fill` for both sides, then `on_trade` |
| `EngineReturns`, `CallbackReturns` | the end of `submit_order` and of the event callback |

The account books every fill once, on the side of its order, at the moment of the match
(`AccountMatchesFills`). Both sides of a trade belong to the one simulated account, and
`on_fill` books both, so a position is back at zero when the trade callback runs, and cash
only falls, by the slippage of both sides. `DESIGN.md:782` has the handler of the fill
event move the position before the strategy sees the event, and `FINANCE_GUIDE.md:764` has
a position of 1,000 after a simulated buy: `PositionFollowsReports` says what they promise,
and the run `position` refutes it. Two consequences a user should know: the program cannot
hold a position through its own engine, and with `enable_short_selling` off every sell
order is rejected.

`PositionManager` appears here as the quantity of each symbol and cash; average prices and
realized gain are in the module of that name. Slippage is a constant number of ticks, the
margin requirement the default of one half. Ticks change no variable of the model but the
clock. Events that the program never pushes (`OrderReject`, `Trade` and the session
events) only reach the callback, and `process_next_event` called by hand is one round of
`run`. A strategy can learn an order's id from its fill report or by counting, so the
model lets it cancel any order the engine has accepted.

### OrderBook, MemoryPool and BookOfQueues

`MatchingEngine` treats a price level as a sequence of ids. `OrderBook` is the layer
below: `cell` holds the `Order` in each slot of the pool with its `prev_at_price` and
`next_at_price`, `levels` the two maps of `PriceLevel` (total, count, head and tail),
`index` is `orders_`.

| Action | Code |
| --- | --- |
| `Construct`, `Destroy` | `allocate_order` and `deallocate_order` of the engine, with `MemoryPool::allocate` and `deallocate` |
| `AddOrder`, `RemoveOrder` | `OrderBook::add_order` and `remove_order` with `OrderBookSide`, `PriceLevel::add_order` and `remove_order`, an emptied level leaving the map |
| `FillOrder` | what the engine does to a resting order and its level when it trades |
| `Clear` | `OrderBook::clear` |

The engine never calls `deallocate_order`: orders stay in the table for good. `Destroy` is
what a user of the pool may do with an order that is not in the book. `clear` forgets the
levels without deleting them, and the orders keep their links. Both are harmless here: the
memory is lost, and `PriceLevel::add_order` overwrites both links.

`BookOfQueues` has a queue per side and price and four operations on them, and `Fits` says
what the answers of the book (best prices, depth, spread, mid and micro price) have to be
like: it does not compute them, so the code's way of computing them is not repeated.
`QueueAt` follows `next_at_price` from the head: the refinement holds only if the chains,
counts and totals never disagree. An empty side answers as the code does: zero for the
best bid, `Price::max()` for the best ask and the spread, zero for the mid.

### Accounts

`PositionManager`, `PnLTracker` and `Markout` have one operator per member function, and
`Accounts` calls them from one action per event.

| Action | Code |
| --- | --- |
| `OnFill` | `ExecutionSimulator::on_fill`: `PositionManager::apply_fill`, `PnLTracker::record_trade`; and `MarkoutAnalyzer::record_fill` by the user |
| `OnTick` | `update_price`, and `on_mid` by the user (`resolve_due` at that time) |
| `Mark`, `EndOfDay` | `mark_to_market` and `end_of_day` with `total_portfolio_value()` |
| `Transfer`, `Query`, `Reset` | `add_cash` and `deduct_cash`, the non-const `get_position`, the three `reset`s |

Prices and quantities are whole numbers of any size; the three scenarios of the run bound
them and the number of inputs, the module and its theorems do not. Averages, gains and
returns are exact fractions, so what is checked is the arithmetic the code means, not the rounding of
doubles. `fills`, `mids` and `marks` are history variables from which the properties
compute what the accounts should be.

What the model shows that a user should know. A cost that `record_trade` deducts is gone
at the next `mark_to_market`, which overwrites the equity with a value that knows no costs
(`pnl_tracker.cpp:24`); so the drawdown computed from the returns is at most the true one,
and less than it in some runs. `TradeRecord::realized_pnl` and `total_realized_pnl_` are
never assigned, so the win statistics are always zero. A drawdown still open at the end
does not count in `max_drawdown_duration_days`. `unresolved_fills` counts pairs of a fill
and a horizon, where `markout.hpp:73` speaks of fills. `on_mid` takes no symbol, so an
analyzer serves one symbol only.

### TickFile and MarketDataFeeds

`disk` is the file, `buffer` what the stream has not passed on. `Flush` passes on any part
at any time; `Crash` loses the rest; `BeginClose` and `EndClose` are the two halves of
`close()` (the seek, which flushes, and the rewritten header). `failed` is the stream's
failbit, which a second `open` sets and `write()` does not look at.

A program records a file or dies while doing so, then reads it along with other feeds.
`Ask` is `next_tick` of a single feed, `Round` one round of the loop in
`MultiSymbolFeed::next_tick`, `ResetFeeds` the `reset` of all.

The consequences that are not flaws of the model but of the code: the header is zero until
`close()` ends, so after a crash `has_data()` of a reader is false although `next_tick`
gives every flushed tick. `ticks_written_` is not cleared by a second `open`, so the
header of a reused writer is too large and `has_data()` stays true at the end. A line that
does not parse answers like the end of the file (`tick_reader.cpp:40`).
`MultiSymbolFeed::next_tick` never returns when all its feeds have run out, although
`market_data_feed.hpp:22` says it returns false; `CallReturns` therefore claims the return
only while some feed can give. Feeds are drawn from in turn, not by timestamp. The
synthetic price goes on from where it was after a `reset`.

### Strategies

A behaviour runs one strategy with one `setup`. `OnTick` is `on_tick` with the decision of
that strategy (`VwapOnTick`, `MeanReversionOnTick`, `MarketMakingOnTick`,
`MomentumOnTick`), and `OnFill` is `on_fill`. Orders do what the simulator lets them:
`Match` (market and IOC), `Rest` and `Trade` (limit) change an order, and a `Report`
brings the fill back later, reports of one moment in any order. An order is filled in any
number of pieces.

Two things depend on the program around a strategy. The simulator gives a strategy no
fills by itself: `DESIGN.md:783` shows a loop that does, and passes on each fill;
`setup.all` says whether these include the fills of others. And the simulator books both
sides of a trade, so a position is zero (the finding `position`) unless the program around
it books only the strategy's own reports (`setup.booked`). Without that, the exit branches of the
signal strategies are never taken; with it, they are what `PositionWithinSize` is about.

Means and deviations are compared without division: `ZAbove` and `ZBelow` square the
score, with scores in parts of `Unit`. What the model shows that a user should know:
`submit` returns no order (`execution_simulator.cpp:32`), so the market maker never learns
its quotes' ids and never cancels one, where the comment at `strategies.cpp:177` and
`DESIGN.md:1441` have it cancel and replace on each tick: `QuotesAreReplaced` says so, and
the run `quotes` refutes it. What does hold is `InventoryWithinQuotes`: the inventory passes
`max_position_` by less than the quotes of one side that were out together. `VWAP` does not look at `end_time_`, drops the remainder of the division by
`num_slices_`, and never sends again what an IOC order left. Handed the fills of others,
its remainder can go below zero, where it does not stop and sends a negative quantity. A
signal strategy decides again on every tick until its report comes back, and its position
then has no bound: hence the premise `~overlapped` of `PositionWithinSize`.

## Runs

| Run | Instance | Question | States |
| --- | --- | --- | --- |
| `engine_calls` | market, limit and fill-or-kill orders, 4 orders, 2 prices, quantities 1 and 2 | is every call correct when calls come one after another, cancelled orders included? | 1 736 879 |
| `engine_reentrant` | IOC, GTC and stop orders, quantity zero too, 3 orders, cancelling callbacks | does the book survive cancels in the middle of a match, and does every call return? | 560 687 |
| `engine_limits` | violation | does every order with a limit trade within it? No: IOC and GTC do not | |
| `engine_callback_cancel` | violation | is fill-or-kill all or nothing when a callback cancels? No | |
| `queues` | 2 event queues, 5 pushes, 3 timestamps, one of them the largest; a ring of 2 slots, 5 events, 2 producers, 2 consumers | do the heaps and the merger always give out an earliest event? do threads share the ring without losing, repeating or reordering an event? | 92 623 |
| `event_ties` | violation | do events at the same time come out in the order of arrival? No | |
| `simulator` | 2 limit orders, 1 cancel, 1 tick, latencies, margin, slippage | do fills, reports and account balance whatever the callbacks do, does time go forward, does every run return? | 67 953 |
| `position` | violation | does a position follow the fills a strategy was told of? No: it is zero | |
| `order_book` | 2 prices, quantity 2, fills of 1, 4 orders in 3 slots | are the lists, levels, index and pool one structure, and is the book a set of queues with fitting answers? | 775 811 |
| `replay_and_accounts` | 3 writes, 2 opens, a crash, 4 lists of feeds, 2 resets; three scenarios: 3 fills of 2 symbols; 2 fills with costs, 3 marks; 2 fills, 3 mids, 2 horizons, prices of zero | does the file hold what was written, does every pass give every tick, does every call return? do positions, cash and gains add up, is the equity curve that of the marks, is each fill resolved once per horizon? | 540 246 |
| `strategies` | 13 setups of the 4 strategies, 2 to 6 ticks, 2 slices, window of 3 | do executions, inventories and positions keep their limits with reports late and in part? | 470 895 |
| `quotes` | violation | does the market maker cancel its quotes before it sends new ones? No | |

Bounds. Two prices on both sides give crossing, locked and resting books and a
second level to move on to. Quantities of 1 and 2 give partial fills of either
side. With four orders, two can share a level (so that time priority is at stake),
one can be cancelled from the middle and one can sweep them. The reentrant run
needs three: a resting one to fill, one to cancel, and the incoming one. The runs
have one symbol and one strategy id: books of different symbols share nothing but
the order table, and cancel-all then concerns every order. In the ring, two slots
and five events take each slot through three rounds while a thread sleeps in the
first, and two threads on each side are enough for every pair of accesses to
interleave. The events of the ring are symmetric.

Parts that share nothing are checked side by side in one run (`queues`,
`replay_and_accounts`): a behaviour runs one of them and leaves the other as it was made, so
the states are the sum and not the product of theirs.

Five events reach the third level of a heap, where the hole has a choice of children
twice, and allow ties in every position. In the simulator two orders are one trade,
partial or not, and the prices 1 and 3 with quantities 1 and 2 give an order that only
the notional limit rejects, one that only the margin rejects, and two that pass. A tick
may be loaded after a run has moved the clock beyond it. Horizon 1 ends a run with
events left, for a second run to take. Strategy and user are as free as the bounds
allow: what they do is never required to happen.

In the order book, four orders on one price make a chain with two in the middle of it, and
one more order than slots makes the pool hand out a returned slot; blocks of one slot make
it grow twice. A quantity of two, filled by one, gives levels whose total and count part
ways. In the accounts, three fills with quantities 1 and 2 open, add, reduce, close and
flip; three marks give a peak, a fall and a new peak; three mids at distances of 1 and 2
fall before, on and beyond horizons of 1 and 2, and a price of zero is one that a fill and
a mid may have. The three share no state, so each behaviour keeps to the inputs of one. In the replay, three ticks can be flushed in parts,
two opens reuse a writer, a bad line stands between good ones and the last line has no
end, and two resets repeat a pass. For the strategies, totals of 1, 4 and 5 in two slices
leave no slice, no remainder and a remainder; six ticks fill a window of three, enter, and
exit; the market maker may pass its limit of one by quotes that are out together.

`CHECK_DEADLOCK FALSE` is set for the engine because a behaviour ends when `MaxOrders`
orders have been submitted and closed, for the simulator because it ends with an empty
queue and nothing left to send, for the order book because its orders run out, and for the
strategies because their ticks do. The queues, the accounts and the replay are checked for
deadlock.

Fairness. `FairSpec` of the engine says that a call that has started goes on (`WF` of the
steps of the loop and of a cancel-all in progress). That is the program's own control
flow: one thread, no waiting. Nothing is assumed of the environment: no order need ever be
sent or cancelled. `EveryCallReturns` is stated under this assumption; callbacks that
cancel for ever are bounded by the orders there are. `FairSpec` of the simulator is the
same assumption for its thread: `SimulatorStep` holds the steps of the program, callbacks
returning included, and none of the strategy's or the user's. `EveryRunReturns` also rests
on the bounds: a strategy that answers every event with a new order keeps `run` going for
ever, in the program as well. `FairReplaySpec` of the feeds says that a `next_tick` that has
started goes on asking (`WF` of `Round` and `NoFeeds`): the loop waits for nothing. The run
states the same fairness for its part that is the replay.

Findings. `engine_limits`: `match_against_book` compares prices for type `Limit`
only (`matching_engine.cpp:192`), so an IOC order ignores its limit and a GTC order
sweeps beyond it. `engine_callback_cancel`: the count of `match_fok_order` is not
repeated after a callback has cancelled what it counted
(`matching_engine.cpp:169`), and the order stays half filled. `event_ties`:
`EventComparator` compares timestamps only (`event.hpp:163`), while `DESIGN.md` promises a
sequence number and first pushed, first processed; pushes at times 2, 2 and 1 are enough
to swap the first two. `position`: `on_fill` books both sides of a trade on one account at
the match (`execution_simulator.cpp:209`), while `DESIGN.md:783` and `FINANCE_GUIDE.md:764`
have the position follow the fills a strategy is told of. `quotes`: the market maker never
cancels a quote, because `submit_order` returns no order (`execution_simulator.cpp:32`),
while `strategies.cpp:177` and `DESIGN.md:1441` say that it does on each tick. One more
disagreement has no run: `MultiSymbolFeed::next_tick` does not return when all feeds have
run out, where `market_data_feed.hpp:22` has it return false.

Every property has a mutant in `PROJECT.json`: a plausible slip in one definition
(`..._Something` beside the definition it varies) that makes TLC report it.

## Proofs

The theorems hold for every value of the constants that the assumptions allow: for the
engine, every set of symbols and prices, any mix of order types, any number of orders,
with or without callbacks that cancel (unless said); for the ring, every capacity of at
least two and any number of threads and events; for the queues, any number of sources,
timestamps and events; for the simulator, any latencies, limits and inputs; for the book,
any prices, quantities and size of the pool's blocks; for the accounts, any capital, horizons and
symbols, any whole prices, quantities, costs, waits and transfers, and any number of fills, mids and marks; for the replay, any ticks, lines,
flushes, reopenings and moment of a crash; for the strategies, any totals, sizes, limits,
windows, thresholds and prices, and any fate of the orders, filled in any number of pieces, and their reports.

| Theorem | States |
| --- | --- |
| `EngineIsConsistent` | `Spec => []EngineInv` |
| `TypeCorrect` | `TypeOK` of the engine |
| `BookAgreesWithOrders` | `BookMatchesOrders` |
| `BookNeverCrosses` | `BookUncrossed` |
| `PriorityHolds` | `PriceTimePriority` |
| `TotalsAreRight` | `TotalsMatchOrders` |
| `CancelledOnlyWhenEmpty` | `NothingLeftToTake` |
| `RejectedOnlyIfShort` | `FokKilledOnlyIfShort` |
| `ClosedOrdersStayClosed` | `TerminalIsFinal`, when callbacks do not cancel |
| `FillOrKill` | `FokAllOrNothing`, when callbacks do not cancel |
| `NothingWaitsThatMayNot` | `ImmediateOrdersEnd`, when callbacks do not cancel |
| `FillsAreWithinLimit` | `FillsWithinLimit`, when callbacks do not cancel |
| `RingIsConsistent` | `RingSpec => []RingInv` |
| `RingTypeCorrect`, `SlotsHaveOneOwner`, `SlotsAreNeverLost` | `RingTypeOK`, `OneOwnerPerSlot`, `NoSlotLost` |
| `RingImplementsFifo` | `ImplementsFifo`: the ring implements `BoundedFifo` |
| `QueuesAreConsistent` | `Spec => []QueuesInv` |
| `QueuesTypeCorrect`, `QueuesStayHeaps` | `TypeOK` and `HeapOrdered` of the event queues |
| `QueuesImplementTimeQueue` | `ImplementsTimeQueue`: heaps and merger implement `TimeQueue` |
| `SimulatorIsConsistent` | `Spec => []SimulatorInv` |
| `SimulatorTypeCorrect`, `EveryFillIsReported`, `AccountFollowsFills` | `TypeOK`, `ReportsMatchFills`, `AccountMatchesFills` of the simulator |
| `TimeMovesForward` | `TimeForward` |
| `SimulatorRunsEngine` | the simulator, seen at its engine, is `MatchingEngine` with callbacks that cancel |
| `SimulatorTradesFairly` | the engine's `PriceTimePriority`, `TotalsMatchOrders` and `FokKilledOnlyIfShort`, in the simulator |
| `BookIsConsistent` | `Spec => []BookInv` |
| `BookStructureHolds` | `StructureOK` of the book |
| `BookImplementsQueues` | `ImplementsBook`: the book implements `BookOfQueues` |
| `AccountsAreConsistent` | `Spec => []AccountsInv` |
| `TypesKept` | `TypeOK` of the accounts |
| `ValueAccountedFor` | `ValueIsAccountedFor` |
| `EquityKept` | `EquityFollowsMarks`, the first half of `CurveIsKept` |
| `CurveKept` | `CurveIsKept`, while the account is solvent |
| `MarkoutsResolved` | `MarkoutsResolveOnce` |
| `ReplayIsConsistent` | `ReplaySpec => []ReplayInv` |
| `FileKeepsWhatWasWritten` | `FileHoldsWhatWasWritten` |
| `PassesGiveAll` | `EachPassGivesAll` |
| `StrategiesAreConsistent` | `Spec => []StrategyInv` |
| `StrategiesTypeCorrect` | `TypeOK` of the strategies |
| `ExecutionsKeepTheirTotal` | `NeverOverExecutes` |
| `InventoryIsBounded` | `InventoryWithinQuotes` |
| `PositionsKeepTheirSize` | `PositionWithinSize` |

The only assumptions are the named `ASSUME`s of the modules: types of the constants, that
a set of prices has a least and a greatest (`PricesAssumption`; a `Price` is a 64-bit
integer), that no timestamp exceeds `Never`, that the book's prices are below `MaxPrice`, that
`None` and `Absent` are no numbers, and a capacity of at least two. `EngineAssumption` passes those
of the engine on to the simulator.

**Engine.** `EngineInv` joins the type invariant, `BookMatchesOrders` and
`BookUncrossed` with what is true at each point of a running call. `ControlOK` says
which pointers are set, that the incoming order is the newest, and that an order
filled whole and awaiting its removal is no longer active. `RestsOutside` says that an
order about to rest crosses nothing; without it the last step of a limit order
could not be shown to leave the book uncrossed. `BookMatchesOrders` is inductive
only because it speaks about the middle of a call too: the incoming order is never
in the book, and a filled one stays in it until its callbacks have returned
(`Bookable`). Priority needs one more invariant, `LevelIsBest`: the level of the
inner loop stays the best whatever callbacks cancel. It holds because the
engine's callbacks can only remove orders.

**Trades.** Totals are sums over sets, which the library defines by a fold. `SumTheorems`
shows that such a sum does not depend on the order in which it is taken, and from that how
it changes when an element is added, removed or updated. With it each step moves a level's
total by exactly what it moves the orders. Three invariants say why a call ends as it
should. `OrdersSound` ties an order's status to what is filled and what remains.
`LoopDone` says that a market or IOC order which leaves the loop wanting more has
emptied the other side. `FokCovered` says that, as long as a fill-or-kill order is
matched, the levels within its limit hold what it still wants; so the loop, which never
looks at the limit of such an order, ends before it leaves the limit. The four theorems with the premise
`Reentrant = FALSE` need it: a callback that cancels the incoming order is undone by its
next fill, and one that cancels what was counted leaves a fill-or-kill order half filled
(the run `engine_callback_cancel`).

**Ring.** `RingInv` describes the last `Capacity` claimed positions. Each is being
written by the producer that claimed it, or published and not yet released, or
released, and its slot's number says which. From that follows the fact the
algorithm turns on: a producer that wins the exchange finds the slot of its
position released by the round before (`ClaimedIsFree`), so the ring was not full,
and a consumer that wins finds a published event (`ClaimedIsReadable`). The
refinement maps the claim of a producer to `Put`, that of a consumer to `Take`, the
release of a slot to `Return`, and everything else to a stutter. `SlotFacts` is
the arithmetic: positions less than `Capacity` apart have different slots.

**Queues.** A push moves the events on the way from the new leaf to the root down by one
as far as they are later than the new one; a pop moves preferred children up along one
path and then pushes the last event from where the path ends. Both are shown to keep
every parent at or before its children and to keep the set of events, less or more the
one. That the root of a heap is an earliest event, and that the loop of `pop_next` ends
with a queue whose root is earliest of all or with none when all are at `Never`, gives
the refinement. `QueuesInv` adds that no event is twice in a queue or in another's: a set
could not tell.

**Simulator.** Every step is a step of the engine, a trade with what `on_fill` does, or
leaves the engine alone (`SimulatorRunsEngine`). So all that is proved of the engine with
callbacks that cancel holds inside the simulator, and its proofs are instantiated, not
repeated. `SimulatorInv` adds what the queue and the account have to do with the orders:
only ticks may be late (`NothingLate`, which gives `TimeForward`), reports on their way
and reports delivered add up to the fills, nothing was told of an order that does not exist
(`Unsent`), and cash is the capital less the slippage of all fills. A position is a sum over the
orders of its symbol, on the side of each; a trade moves two of its terms by the same
quantity in opposite directions, since an order keeps the symbol and the side it came with
(`OrdersKeepPlace`).

**Book.** The lists are reached through pointers, and an invariant about all walks would need
induction over them. `BookInv` names a witness instead: for every level there is a
sequence of slots, as a function from its positions, whose neighbours are linked both ways,
whose ends are `head` and `tail`, and which holds exactly the orders of that side and price in the index;
for the pool there is such a list of returned slots, and together with the slots in use it makes up all that were
ever handed out. Each operation is shown to turn the old witness into a new one (append, cut
out, first or last, take from or put back at the front). `StructureOK` walks with
recursive functions; these are shown to follow the witness, and a list of
distinct slots to be no longer than there are slots.

The refinement needs one more invariant: a level's total is the sum over its queue
(`TotalsRight`). The lemma of each step says which lists, totals and orders it leaves alone,
so that only one queue can have moved; that one is shown to be the old one with the order
appended, cut out or reduced, and its sum to have changed by as much as the total. What
`get_depth` returns is a list of the prices in strict order. One exists, since a finite
set of prices that is not empty has a worst one; and it misses none, by the pigeonhole
principle. `best_price` is its first. The micro price lies between the best prices because a
weighted mean does, division rounded down included.

**Accounts.** `AccountsInv` says that the three ways of keeping accounts are functions of
the histories. `Held` is about the positions: each holds what its fills bought, and its average
price and realized gain, brought to one denominator, account for every unit that was paid for
it (`Split`: average times quantity less realized gain is what was paid). Opening, adding,
closing a part, closing all and crossing through zero are shown to keep this
(`AddKept`, `ReduceKept`), and so is any price update. The properties speak of fractions in
lowest terms, so the module begins with Euclid's algorithm: `Gcd` satisfies its
recursion and divides both numbers, so `Ratio` is the fraction it was made from. The
realized and the unrealized totals are two sums of fractions; neither is whole, but each pair of terms adds up
to a whole number, and so do the sums (`SumOfPartsOf`). `Curve` says that the equity is
the last marked value less the costs of the fills since, and the high-water mark the largest
value. `Chain` says which return ends at which mark, and that a return starts at most from the
value of the mark before, from that value itself when fills are free. With it the loop of
`calculate_stats` is followed round by round (`LoopAt`): without costs its running equity is the
marked value and its peak the largest so far (`Exact`); with costs it only stays closer to its
peak than the values do to theirs (`Bounded`), so the drawdown found is at most theirs. That
two fractions are the same and not only equal in value needs one more fact of Euclid's
algorithm, that scaling both numbers scales the divisor (`GcdScaled`). The premise
`Solvent` is the code's own: `mark_to_market` divides by the equity and `calculate_stats` by the peak
without looking, so nothing is claimed once a marked value, or the equity a return starts
from, is zero or less. `Analyzed` says that what is pending is exactly what has no answer among the mids, and that
the sums of a horizon are those of the fills that have one, each at its first answer. A new mid
answers first exactly the fills whose evaluations `resolve_due` takes out (`DueFresh`).

**Replay.** `TapeInv`: the buffer of an open stream holds, after the header if that is
not yet in the file, the ticks that follow those of the file, all of them unless the stream has
failed. So any part that is flushed, and what a crash leaves, is a prefix.
`FeedsInv` has two parts. `FeedSound` says of each feed that what it gave in this pass are its ticks up
to its position. `InTurn` says that there is a number of whole rounds, in which each
feed with ticks left was asked and answered once per round; two such feeds are
therefore never more than one tick apart.

**Strategies.** `OrdersInv` ties every order to the reports on their way: what is left of it
and what is filled and not yet told never exceed what was sent (`SoundOrder`), where an order of
negative quantity, which the engine takes whole or not at all, has a case of its own. On
this rest three invariants, one per family. `VwapInv`: one order for each slice counted,
each of the size of a slice and in its time, and what the execution thinks remains is
its total less what was reported. `MakerInv`: the position on a side and what may still come on it are
below `max_position_` by no less than what was ever out at once (`Within`); the position alone
is not inductive, since a fill moves the one into the other. `SignalInv`: as long as no
decision was taken with an order outstanding, only the last order can have anything to
report, and both the position and what it may become lie on one side of zero, within the
size (`OneSided`). Sums over orders and reports are sums of a function over a set, as in
the engine.

**How induction is done.** The library's induction theorems take an operator as a
parameter, which the installed provers cannot instantiate. Where a set will do in place of the operator
(the numbers up to which something holds, the subsets for which a sum is right), induction
is a lemma about sets (`NatSetInduction`, `SubsetInduction`), and recursive functions are handled by it. It does
not reach `SelectSeq`, `FoldSeq` and `FoldSet` with a lambda that is not a sum of a function.

**Only model-checked.** Liveness: `EveryCallReturns`, `EveryRunReturns`, `CallReturns`.
`CurveIsKept` of an account that is not solvent; the run's values keep it solvent.

## Plan

The parts of the repository that keep state and have behaviour are modelled, and the safety
properties the runs check are proved. What is left is to extend `ExecutionSimulator` by
runs started inside a callback.

## Not modelled

* Slippage and cost formulas, ratios and deviations of the statistics, and other floating-point arithmetic: TLC has
  integers. The accounts take a cost as given, and use exact fractions where the code divides.
* Dates, strings, parsing and formatting: a line of a file parses or does not. The Python bindings, the demo and
  the benchmarks, which only call the rest.
* `LockFreePool`, `ObjectPool` and `ThreadSafeMemoryPool`: nothing instantiates them. The destructor of
  `LockFreePool` deletes the objects it holds, and those alone; `ThreadSafeMemoryPool` is `MemoryPool` in a lock.
* `run` and `run_until` called from a callback, and a nested `submit_order` on the engine: nothing in the repository does so.
* `configure` or `set_active` in the middle of a run. (`MomentumStrategy` trims its window by one price a tick,
  `MeanReversionStrategy` by as many as it takes: the two differ only when the window shrinks under way.)
* Prices of quotes, the sorting of a `VectorDataFeed`, adding sources and feeds (they come before a run), and the
  prices the synthetic generator draws.
* Overflow of `int64_t` prices and quantities: sums over a book would need about 10^18 units to reach it.
