---------------------- MODULE ExecutionSimulatorProofs ----------------------
(***************************************************************************)
(* Proofs about ExecutionSimulator, for every set of symbols, prices,      *)
(* times, latencies and limits, and any number of orders, ticks and        *)
(* cancels.  The engine inside the simulator takes steps of MatchingEngine *)
(* only, so what is proved of the engine holds here as well: M is the      *)
(* module of those proofs, with callbacks that cancel.                     *)
(***************************************************************************)
EXTENDS ExecutionSimulator, SumTheorems, SequenceTheorems, TLAPS

M == INSTANCE MatchingEngineProofs WITH Reentrant <- TRUE

-----------------------------------------------------------------------------
(* The engine of the simulator and the engine of the proofs are one        *)

LEMMA Assumed == M!PricesAssumption /\ M!ConstantsAssumption
  BY EngineAssumption
     DEF Engine!PricesAssumption, Engine!ConstantsAssumption, Engine!OrderTypes,
         M!PricesAssumption, M!ConstantsAssumption, M!OrderTypes

LEMMA SameSum ==
    ASSUME NEW f, NEW S
    PROVE  /\ Engine!SumFunctionOnSet(f, S) = M!SumFunctionOnSet(f, S)
           /\ SumFunctionOnSet(f, S) = M!SumFunctionOnSet(f, S)
  BY DEF SumFunctionOnSet, FoldFunctionOnSet, MapThenFoldSet,
         Engine!SumFunctionOnSet, Engine!FoldFunctionOnSet, Engine!MapThenFoldSet,
         M!SumFunctionOnSet, M!FoldFunctionOnSet, M!MapThenFoldSet

LEMMA SameInit == Engine!Init <=> M!Init
  BY DEF Engine!Init, M!Init, Engine!Sides, M!Sides

LEMMA SameRequests == Engine!Requests = M!Requests
  BY DEF Engine!Requests, M!Requests, Engine!Sides, M!Sides, Engine!PriceFits, M!PriceFits

LEMMA SameFill == Engine!Fill <=> M!Fill
  BY DEF Engine!Fill, M!Fill, Engine!LevelFifo, M!LevelFifo, Engine!Opposite, M!Opposite,
         Engine!FillQty, M!FillQty, Engine!ApplyFill, M!ApplyFill

LEMMA SameFillTerms ==
    /\ Engine!LevelFifo = M!LevelFifo
    /\ \A o, p : Engine!FillQty(o, p) = M!FillQty(o, p)
  BY DEF Engine!LevelFifo, M!LevelFifo, Engine!Opposite, M!Opposite,
         Engine!FillQty, M!FillQty

LEMMA SameRemoval ==
    ASSUME NEW id
    PROVE  Engine!RemoveFromBook(id) <=> M!RemoveFromBook(id)
  BY DEF Engine!RemoveFromBook, M!RemoveFromBook, Engine!Unlink, M!Unlink, Engine!book, M!book

LEMMA SameCancels ==
    ASSUME NEW id
    PROVE  /\ Engine!CancelOrder(id) <=> M!CancelOrder(id)
           /\ Engine!CancelNext(id) <=> M!CancelNext(id)
  BY SameRemoval
     DEF Engine!CancelOrder, M!CancelOrder, Engine!CancelNext, M!CancelNext,
         Engine!CancelOne, M!CancelOne, Engine!CancelOf, M!CancelOf, Engine!Active, M!Active,
         Engine!MayCancel, M!MayCancel

LEMMA SameSweep ==
    ASSUME NEW strat
    PROVE  Engine!CancelAllOrders(strat) <=> M!CancelAllOrders(strat)
  BY DEF Engine!CancelAllOrders, M!CancelAllOrders, Engine!Active, M!Active,
         Engine!MayCancel, M!MayCancel, Engine!book, M!book

LEMMA SameLevels ==
    /\ Engine!TakeLevel <=> M!TakeLevel
    /\ Engine!LeaveLevels <=> M!LeaveLevels
    /\ Engine!LeaveLevel <=> M!LeaveLevel
  BY DEF Engine!TakeLevel, M!TakeLevel, Engine!LeaveLevels, M!LeaveLevels,
         Engine!LeaveLevel, M!LeaveLevel, Engine!LevelFifo, M!LevelFifo,
         Engine!MayTakeLevel, M!MayTakeLevel, Engine!Willing, M!Willing,
         Engine!IsBest, M!IsBest, Engine!LevelPrices, M!LevelPrices,
         Engine!Better, M!Better, Engine!Opposite, M!Opposite, Engine!book, M!book

LEMMA SameAfterFill == Engine!AfterFill <=> M!AfterFill
  BY SameRemoval DEF Engine!AfterFill, M!AfterFill, Engine!book, M!book

LEMMA SameFinish == Engine!Finish <=> M!Finish
  BY DEF Engine!Finish, M!Finish, Engine!AddToBook, M!AddToBook, Engine!CancelOf, M!CancelOf,
         Engine!Active, M!Active, Engine!book, M!book

LEMMA SameSubmit ==
    ASSUME NEW r
    PROVE  Engine!Submit(r) <=> M!Submit(r)
<1>1. ASSUME NEW o
      PROVE  Engine!AvailableWithin(o) = M!AvailableWithin(o)
  BY SameSum
     DEF Engine!AvailableWithin, M!AvailableWithin, Engine!Opposite, M!Opposite,
         Engine!LevelPrices, M!LevelPrices, Engine!Willing, M!Willing
<1>2. ASSUME NEW o
      PROVE  Engine!EntersLoop(o) <=> M!EntersLoop(o)
  BY <1>1
     DEF Engine!EntersLoop, M!EntersLoop, Engine!IsBest, M!IsBest, Engine!LevelPrices,
         M!LevelPrices, Engine!Better, M!Better, Engine!Opposite, M!Opposite,
         Engine!Willing, M!Willing
<1> QED
  BY <1>2 DEF Engine!Submit, M!Submit, Engine!NewOrder, M!NewOrder, Engine!book, M!book

-----------------------------------------------------------------------------
(* What a step of the simulator does                                       *)

\* An event carries what its handler needs: a request, or the id of an order.
EventsOK ==
    /\ IsFiniteSet(queue)
    /\ \A e \in queue :
          /\ e.kind = "submit" => e.what \in M!Requests
          /\ e.kind = "cancel" => e.what \in DOMAIN orders
          /\ e.kind = "report" => e.what.id \in DOMAIN orders /\ e.what.qty \in Nat

\* What the strategy and its user put into the queue.
Sent(kind, ts, what) ==
    \/ kind = "tick" /\ ts \in Nat
    \/ kind = "submit" /\ ts = clock + SubmitLatency /\ what \in M!Requests
    \/ kind = "cancel" /\ ts = clock + CancelLatency /\ what \in DOMAIN orders

Sends ==
    /\ UNCHANGED <<engineVars, clock, reported>>
    /\ \E kind, ts, what : Sent(kind, ts, what) /\ Push(kind, ts, what)

Takes ==
    \E e \in queue :
        /\ Take(e)
        /\ IF e.kind = "report"
           THEN /\ reported' = [reported EXCEPT ![e.what.id] = @ + e.what.qty]
                /\ UNCHANGED engineVars
           ELSE UNCHANGED reported

\* A step with no trade in it: of the engine alone, a call from outside, or the
\* event that is next.
NoTrade ==
    /\ ~ M!Fill
    /\ UNCHANGED account
    /\ \/ UNCHANGED <<queue, pushes, clock, reported>>
       \/ Sends
       \/ Takes

LEMMA SubmitStep ==
    ASSUME NEW r \in M!Requests, Engine!Submit(r)
    PROVE  M!Next /\ ~ M!Fill
  BY SameSubmit DEF M!Next, M!Submit, M!Fill

LEMMA CancelStep ==
    ASSUME NEW id \in DOMAIN orders, Engine!CancelOrder(id) \/ Engine!CancelNext(id)
    PROVE  M!Next /\ ~ M!Fill
<1>1. M!CancelOrder(id) \/ M!CancelNext(id)
  BY SameCancels
<1> QED
  BY <1>1 DEF M!Next, M!CancelOrder, M!CancelNext, M!Fill

LEMMA SweepStep ==
    ASSUME NEW strat \in Strategies, Engine!CancelAllOrders(strat)
    PROVE  M!Next /\ ~ M!Fill
  BY SameSweep DEF M!Next, M!CancelAllOrders, M!Fill

LEMMA LoopStep ==
    ASSUME \/ Engine!TakeLevel \/ Engine!LeaveLevels
           \/ Engine!AfterFill \/ Engine!LeaveLevel \/ Engine!Finish
    PROVE  M!Next /\ ~ M!Fill
  BY SameLevels, SameAfterFill, SameFinish
     DEF M!Next, M!Fill, M!TakeLevel, M!LeaveLevels, M!AfterFill, M!LeaveLevel, M!Finish

LEMMA RestStep ==
    ASSUME UNCHANGED engineVars
    PROVE  UNCHANGED M!vars /\ ~ M!Fill
  BY DEF engineVars, M!vars, M!book, M!Fill

LEMMA TakeSteps ==
    ASSUME EventsOK, NEW e \in queue,
           ProcessTick(e) \/ ProcessReport(e) \/ ProcessCancel(e) \/ ProcessSubmit(e)
    PROVE  [M!Next]_M!vars /\ NoTrade
<1>1. Takes /\ UNCHANGED account
  BY DEF ProcessTick, ProcessReport, ProcessCancel, ProcessSubmit, Takes, Take
<1>2. CASE UNCHANGED engineVars
  BY <1>1, <1>2, RestStep DEF NoTrade
<1>3. CASE e.kind = "cancel" /\ Engine!CancelOrder(e.what)
  <2>1. e.what \in DOMAIN orders
    BY <1>3 DEF EventsOK
  <2> QED
    BY <1>1, <1>3, <2>1, CancelStep DEF NoTrade
<1>4. CASE e.kind = "submit" /\ Engine!Submit(e.what)
  <2>1. e.what \in M!Requests
    BY <1>4 DEF EventsOK
  <2> QED
    BY <1>1, <1>4, <2>1, SubmitStep DEF NoTrade
<1> QED
  BY <1>2, <1>3, <1>4 DEF ProcessTick, ProcessReport, ProcessCancel, ProcessSubmit

LEMMA SendSteps ==
    ASSUME \/ \E ts \in TickTimes : AddTick(ts)
           \/ \E r \in Engine!Requests : SubmitOrder(r)
           \/ \E id \in DOMAIN orders : CancelOrder(id)
    PROVE  [M!Next]_M!vars /\ NoTrade
<1>1. UNCHANGED engineVars /\ UNCHANGED account
  BY DEF AddTick, SubmitOrder, CancelOrder
<1>2. Sends
  <2>1. ASSUME NEW ts \in TickTimes, AddTick(ts)
        PROVE  Sends
    <3>1. ts + TickLatency \in Nat
      BY SimulatorAssumption
    <3> QED
      BY <2>1, <3>1 DEF AddTick, Sends, Sent
  <2>2. ASSUME NEW r \in Engine!Requests, SubmitOrder(r)
        PROVE  Sends
    BY <2>2, SameRequests DEF SubmitOrder, Sends, Sent
  <2>3. ASSUME NEW id \in DOMAIN orders, CancelOrder(id)
        PROVE  Sends
    BY <2>3 DEF CancelOrder, Sends, Sent
  <2> QED
    BY <2>1, <2>2, <2>3
<1> QED
  BY <1>1, <1>2, RestStep DEF NoTrade

LEMMA StepCases ==
    ASSUME EventsOK, [Next]_vars
    PROVE  /\ [M!Next]_M!vars
           /\ (EngineFill /\ M!Fill) \/ NoTrade
<1>1. CASE EngineFill
  <2>1. M!Fill
    BY <1>1, SameFill DEF EngineFill
  <2> QED
    BY <1>1, <2>1 DEF M!Next
<1>2. CASE EngineStep
  BY <1>2, LoopStep DEF EngineStep, NoTrade
<1>3. ASSUME NEW id \in DOMAIN orders, CancelNext(id)
      PROVE  [M!Next]_M!vars /\ NoTrade
  BY <1>3, CancelStep DEF CancelNext, NoTrade
<1>4. ASSUME NEW strat \in Strategies, CancelAllOrders(strat)
      PROVE  [M!Next]_M!vars /\ NoTrade
  BY <1>4, SweepStep DEF CancelAllOrders, NoTrade
<1>5. CASE \/ RunReturns \/ EngineReturns \/ CallbackReturns \/ Stop
           \/ \E end \in Horizons \cup {Never} : Run(end)
           \/ UNCHANGED vars
  BY <1>5, RestStep
     DEF RunReturns, EngineReturns, CallbackReturns, Stop, Run, vars, NoTrade
<1> QED
  BY <1>1, <1>2, <1>3, <1>4, <1>5, TakeSteps, SendSteps DEF Next, SimulatorStep

-----------------------------------------------------------------------------
(* What the engine's own proofs say of such a step                         *)

LEMMA EngineStays ==
    ASSUME M!EngineInv, [M!Next]_M!vars
    PROVE  M!EngineInv'
<1>1. M!PricesAssumption /\ M!ConstantsAssumption
  BY Assumed
<1> QED
  BY <1>1, M!NextEngineInv

LEMMA OrderIds ==
    ASSUME M!EngineInv
    PROVE  /\ IsFiniteSet(DOMAIN orders)
           /\ \A id \in DOMAIN orders : /\ id \in 1 .. MaxOrders
                                       /\ orders[id].filled \in Nat
                                       /\ orders[id].side \in {"Buy", "Sell"}
<1>1. M!PricesAssumption /\ M!ConstantsAssumption /\ M!TypeOK
  BY Assumed DEF M!EngineInv
<1>2. /\ Len(orders) \in Nat /\ DOMAIN orders = 1 .. Len(orders)
      /\ \A id \in DOMAIN orders : id \in Nat /\ id <= Len(orders)
  BY <1>1, M!IdFacts
<1>3. ASSUME NEW id \in DOMAIN orders
      PROVE  orders[id].filled \in Nat /\ orders[id].side \in M!Sides
  BY <1>1, M!OrderFacts
<1>4. Len(orders) <= MaxOrders /\ MaxOrders \in Nat
  BY <1>1 DEF M!TypeOK, M!ConstantsAssumption
<1>5. IsFiniteSet(DOMAIN orders)
  BY <1>2, FS_Interval
<1> QED
  BY <1>2, <1>3, <1>4, <1>5 DEF M!Sides

\* Without a trade every order keeps what it has filled, and new ones start at zero.
LEMMA FilledStays ==
    ASSUME M!EngineInv, [M!Next]_M!vars, ~ M!Fill
    PROVE  /\ \A id \in DOMAIN orders :
                 id \in DOMAIN orders' /\ orders'[id].filled = orders[id].filled
           /\ \A id \in DOMAIN orders' : id \notin DOMAIN orders => orders'[id].filled = 0
<1>1. M!PricesAssumption /\ M!ConstantsAssumption
  BY Assumed
<1>2. ASSUME NEW id \in DOMAIN orders
      PROVE  orders'[id].filled = orders[id].filled
  BY <1>1, M!OnlyFillFills
<1>3. /\ \A id \in DOMAIN orders : id \in DOMAIN orders'
      /\ \A id \in DOMAIN orders' : id \notin DOMAIN orders => orders'[id].filled = 0
  BY <1>1, M!OrdersGrow
<1> QED
  BY <1>2, <1>3

\* A trade: two orders on opposite sides fill the same quantity.
LEMMA TradeFacts ==
    ASSUME M!EngineInv, EngineFill
    PROVE  \E pa \in DOMAIN orders, q \in Nat :
              /\ q # 0
              /\ aggressor \in DOMAIN orders /\ pa # aggressor
              /\ orders[aggressor].sym \in Symbols /\ level \in Nat
              /\ orders[pa].sym = orders[aggressor].sym
              /\ \/ orders[aggressor].side = "Buy" /\ orders[pa].side = "Sell"
                 \/ orders[aggressor].side = "Sell" /\ orders[pa].side = "Buy"
              /\ DOMAIN orders' = DOMAIN orders
              /\ orders'[aggressor].filled = orders[aggressor].filled + q
              /\ orders'[pa].filled = orders[pa].filled + q
              /\ \A id \in DOMAIN orders :
                    id # aggressor /\ id # pa => orders'[id].filled = orders[id].filled
              /\ queue' = queue \cup { Report(aggressor, q, pushes["report"] + 1),
                                       Report(pa, q, pushes["report"] + 2) }
              /\ pushes' = [pushes EXCEPT !["report"] = pushes["report"] + 2]
              /\ position' = [position EXCEPT ![orders[aggressor].sym] =
                     @ + Signed(orders[aggressor].side, q) + Signed(orders[pa].side, q)]
              /\ cash' = cash - Paid(orders[aggressor].side, level, q)
                              - Paid(orders[pa].side, level, q)
              /\ clock' = clock /\ reported' = reported
<1> DEFINE o  == orders[aggressor]
           pa == Head(M!LevelFifo)
           q  == M!FillQty(o, orders[pa])
<1>1. M!PricesAssumption /\ M!ConstantsAssumption /\ M!Fill
  BY Assumed, SameFill DEF EngineFill
<1>2. /\ aggressor \in DOMAIN orders /\ pa \in DOMAIN orders /\ pa # aggressor
      /\ o.sym \in Symbols /\ level \in Prices /\ M!Opposite(o.side) \in M!Sides
      /\ M!InLevel(o.sym, M!Opposite(o.side), level, pa)
      /\ q \in Nat /\ q # 0
  BY <1>1, M!PassiveFacts
<1>3. orders[pa].side = M!Opposite(o.side) /\ orders[pa].sym = o.sym
  <2>1. M!LevelsOK /\ M!IndexOK
    BY <1>1, M!BookView DEF M!EngineInv
  <2>2. orders[pa].side = M!Opposite(o.side) /\ pa \in index[o.sym]
    BY <1>2, <2>1 DEF M!LevelsOK
  <2> QED
    BY <1>2, <2>1, <2>2 DEF M!IndexOK
<1>4. o.side \in {"Buy", "Sell"}
  BY <1>2, OrderIds
<1>5. level \in Nat
  BY <1>1, <1>2 DEF M!PricesAssumption
<1>6. /\ DOMAIN orders' = DOMAIN orders
      /\ orders'[pa] = M!ApplyFill(orders[pa], q)
      /\ \A i \in DOMAIN orders : i # pa /\ i # aggressor => orders'[i] = orders[i]
  BY <1>1, M!FillOrders
<1>7. orders'[aggressor] = M!ApplyFill(o, q)
  BY <1>1, M!FillBoth
<1>8. \A id \in DOMAIN orders : M!ApplyFill(orders[id], q).filled = orders[id].filled + q
  <2>1. ASSUME NEW id \in DOMAIN orders
        PROVE  orders[id] \in M!Order
    BY <1>1, M!OrderFacts DEF M!EngineInv
  <2> QED
    BY <2>1 DEF M!ApplyFill, M!Order
<1>9. /\ orders'[aggressor].filled = o.filled + q
      /\ orders'[pa].filled = orders[pa].filled + q
  BY <1>2, <1>6, <1>7, <1>8
<1>10. /\ queue' = queue \cup { Report(aggressor, q, pushes["report"] + 1),
                                Report(pa, q, pushes["report"] + 2) }
       /\ pushes' = [pushes EXCEPT !["report"] = pushes["report"] + 2]
       /\ position' = [position EXCEPT ![o.sym] =
              @ + Signed(o.side, q) + Signed(orders[pa].side, q)]
       /\ cash' = cash - Paid(o.side, level, q) - Paid(orders[pa].side, level, q)
       /\ clock' = clock /\ reported' = reported
  BY SameFillTerms DEF EngineFill
<1> HIDE DEF pa, q
<1> QED
  BY <1>2, <1>3, <1>4, <1>5, <1>6, <1>9, <1>10 DEF M!Opposite

-----------------------------------------------------------------------------
(* Types, and the order of events in time                                  *)

LEMMA ControlTypes ==
    ASSUME TypeOK, [Next]_vars
    PROVE  /\ running' \in BOOLEAN
           /\ until' \in Horizons \cup {Never}
           /\ at' \in {"outside", "loop", "engine", "callback"}
<1>1. ASSUME NEW e \in queue,
             ProcessTick(e) \/ ProcessReport(e) \/ ProcessCancel(e) \/ ProcessSubmit(e)
      PROVE  UNCHANGED <<running, until>> /\ at' \in {"engine", "callback"}
  BY <1>1 DEF ProcessTick, ProcessReport, ProcessCancel, ProcessSubmit, Take
<1>2. CASE UNCHANGED <<running, until, at>>
  BY <1>2 DEF TypeOK
<1>3. CASE \/ RunReturns \/ EngineReturns \/ CallbackReturns \/ Stop
           \/ \E end \in Horizons \cup {Never} : Run(end)
  BY <1>3 DEF TypeOK, RunReturns, EngineReturns, CallbackReturns, Stop, Run
<1> QED
  BY <1>1, <1>2, <1>3
     DEF TypeOK, Next, SimulatorStep, vars, EngineStep, EngineFill, CancelNext, AddTick,
         SubmitOrder, CancelOrder, CancelAllOrders

\* An event that is sent is a new one, and arrives no earlier than it is sent
\* unless it is a tick.
LEMMA SentEvent ==
    ASSUME TypeOK, NEW kind, NEW ts, NEW what, Sent(kind, ts, what), Push(kind, ts, what)
    PROVE  \E e : /\ e.kind = kind /\ e.what = what
                  /\ kind \in {"tick", "submit", "cancel"}
                  /\ kind # "tick" => e.ts >= clock
                  /\ e.ts \in Nat
                  /\ e.n = pushes[kind] + 1
                  /\ queue' = queue \cup {e}
                  /\ pushes' = [pushes EXCEPT ![kind] = @ + 1]
<1> DEFINE e == Event(kind, ts, what, pushes[kind] + 1)
<1>1. /\ e.kind = kind /\ e.what = what /\ e.ts = ts /\ e.n = pushes[kind] + 1
  BY DEF Event
<1>2. queue' = queue \cup {e} /\ pushes' = [pushes EXCEPT ![kind] = @ + 1]
  BY DEF Push
<1>3. kind \in {"tick", "submit", "cancel"}
  BY DEF Sent
<1>4. ts \in Nat /\ (kind # "tick" => ts >= clock)
  <2>1. SubmitLatency \in Nat /\ CancelLatency \in Nat /\ clock \in Nat
    BY SimulatorAssumption DEF TypeOK
  <2> QED
    BY <2>1 DEF Sent
<1> HIDE DEF e
<1> QED
  BY <1>1, <1>2, <1>3, <1>4

LEMMA ReportFacts ==
    ASSUME TypeOK, NEW id, NEW q, NEW n
    PROVE  LET e == Report(id, q, n) IN
           /\ e.kind = "report" /\ e.what.id = id /\ e.what.qty = q /\ e.n = n
           /\ e.ts \in Nat /\ e.ts >= clock
<1>1. FillLatency \in Nat /\ clock \in Nat
  BY SimulatorAssumption DEF TypeOK
<1> QED
  BY <1>1 DEF Report, Event

PushTypes ==
    /\ \A e \in queue : e.kind \in Kinds /\ e.ts \in Nat /\ e.n \in 1 .. pushes[e.kind]
    /\ pushes \in [Kinds -> Nat]

LEMMA QueueTypes ==
    ASSUME TypeOK, EventsOK, M!EngineInv, [Next]_vars
    PROVE  PushTypes'
<1>1. /\ \A e \in queue : e.kind \in Kinds /\ e.ts \in Nat /\ e.n \in 1 .. pushes[e.kind]
      /\ pushes \in [Kinds -> Nat]
  BY DEF TypeOK
<1>2. CASE UNCHANGED <<queue, pushes>>
  BY <1>1, <1>2 DEF PushTypes
<1>3. CASE Takes
  BY <1>1, <1>3 DEF PushTypes, Takes, Take
<1>4. CASE Sends
  <2>1. PICK kind, ts, what : Sent(kind, ts, what) /\ Push(kind, ts, what)
    BY <1>4 DEF Sends
  <2>2. PICK e : /\ e.kind = kind /\ e.ts \in Nat /\ e.n = pushes[kind] + 1
                 /\ kind \in {"tick", "submit", "cancel"}
                 /\ queue' = queue \cup {e}
                 /\ pushes' = [pushes EXCEPT ![kind] = @ + 1]
    BY <2>1, SentEvent
  <2>3. kind \in Kinds
    BY <2>2 DEF Kinds
  <2>4. /\ pushes' \in [Kinds -> Nat] /\ pushes'[kind] = pushes[kind] + 1
        /\ \A k \in Kinds : k # kind => pushes'[k] = pushes[k]
    BY <1>1, <2>2, <2>3
  <2>5. \A k \in Kinds : pushes[k] \in Nat
    BY <1>1
  <2>6. e.n \in 1 .. pushes'[e.kind]
    BY <2>2, <2>3, <2>4, <2>5
  <2>7. ASSUME NEW f \in queue
        PROVE  f.n \in 1 .. pushes'[f.kind]
    BY <1>1, <2>3, <2>4, <2>5
  <2> QED
    BY <1>1, <2>2, <2>3, <2>4, <2>6, <2>7 DEF PushTypes
<1>5. CASE EngineFill
  <2>1. PICK pa \in DOMAIN orders, q \in Nat :
           /\ queue' = queue \cup { Report(aggressor, q, pushes["report"] + 1),
                                    Report(pa, q, pushes["report"] + 2) }
           /\ pushes' = [pushes EXCEPT !["report"] = pushes["report"] + 2]
    BY <1>5, TradeFacts
  <2>2. PICK a, b : /\ a = Report(aggressor, q, pushes["report"] + 1)
                    /\ b = Report(pa, q, pushes["report"] + 2)
    OBVIOUS
  <2>3. /\ a.kind = "report" /\ a.n = pushes["report"] + 1 /\ a.ts \in Nat
        /\ b.kind = "report" /\ b.n = pushes["report"] + 2 /\ b.ts \in Nat
    BY <2>2, ReportFacts
  <2>4. queue' = queue \cup {a, b}
    BY <2>1, <2>2
  <2>5. /\ "report" \in Kinds
        /\ \A k \in Kinds : pushes[k] \in Nat
    BY <1>1 DEF Kinds
  <2>6. /\ pushes' \in [Kinds -> Nat] /\ pushes'["report"] = pushes["report"] + 2
        /\ \A k \in Kinds : k # "report" => pushes'[k] = pushes[k]
    BY <1>1, <2>1, <2>5
  <2>7. a.n \in 1 .. pushes'[a.kind] /\ b.n \in 1 .. pushes'[b.kind]
    BY <2>3, <2>5, <2>6
  <2>8. ASSUME NEW f \in queue
        PROVE  f.n \in 1 .. pushes'[f.kind]
    BY <1>1, <2>5, <2>6
  <2> QED
    BY <1>1, <2>3, <2>4, <2>5, <2>6, <2>7, <2>8 DEF PushTypes
<1> QED
  BY <1>2, <1>3, <1>4, <1>5, StepCases DEF NoTrade

LEMMA EventsStayOK ==
    ASSUME TypeOK, EventsOK, M!EngineInv, [Next]_vars
    PROVE  EventsOK'
<1>1. \A id \in DOMAIN orders : id \in DOMAIN orders'
  <2>1. CASE EngineFill
    BY <2>1, TradeFacts
  <2>2. CASE NoTrade
    BY <2>2, StepCases, FilledStays DEF NoTrade
  <2> QED
    BY <2>1, <2>2, StepCases
<1>2. CASE queue' = queue
  BY <1>1, <1>2 DEF EventsOK
<1>3. CASE Takes
  <2>1. PICK e \in queue : queue' = queue \ {e}
    BY <1>3 DEF Takes, Take
  <2>2. IsFiniteSet(queue')
    BY <2>1, FS_RemoveElement DEF EventsOK
  <2> QED
    BY <1>1, <2>1, <2>2 DEF EventsOK
<1>4. CASE Sends
  <2>1. PICK kind, ts, what : Sent(kind, ts, what) /\ Push(kind, ts, what)
    BY <1>4 DEF Sends
  <2>2. PICK e : /\ e.kind = kind /\ e.what = what
                 /\ queue' = queue \cup {e}
    BY <2>1, SentEvent
  <2>3. IsFiniteSet(queue')
    BY <2>2, FS_AddElement DEF EventsOK
  <2>4. /\ e.kind = "submit" => e.what \in M!Requests
        /\ e.kind = "cancel" => e.what \in DOMAIN orders
        /\ e.kind # "report"
    BY <2>1, <2>2 DEF Sent
  <2>5. M!Requests' = M!Requests
    BY DEF M!Requests
  <2> QED
    BY <1>1, <2>2, <2>3, <2>4, <2>5 DEF EventsOK
<1>5. CASE EngineFill
  <2>1. PICK pa \in DOMAIN orders, q \in Nat :
           /\ aggressor \in DOMAIN orders
           /\ queue' = queue \cup { Report(aggressor, q, pushes["report"] + 1),
                                    Report(pa, q, pushes["report"] + 2) }
    BY <1>5, TradeFacts
  <2>2. PICK a, b : /\ a = Report(aggressor, q, pushes["report"] + 1)
                    /\ b = Report(pa, q, pushes["report"] + 2)
    OBVIOUS
  <2>3. /\ a.kind = "report" /\ a.what.id = aggressor /\ a.what.qty = q
        /\ b.kind = "report" /\ b.what.id = pa /\ b.what.qty = q
    BY <2>2, ReportFacts
  <2>4. queue' = queue \cup {a, b}
    BY <2>1, <2>2
  <2>5. IsFiniteSet(queue')
    <3>1. IsFiniteSet(queue \cup {a}) /\ queue' = (queue \cup {a}) \cup {b}
      BY <2>4, FS_AddElement DEF EventsOK
    <3> QED
      BY <3>1, FS_AddElement
  <2> QED
    BY <1>1, <2>1, <2>3, <2>4, <2>5 DEF EventsOK
<1> QED
  BY <1>2, <1>3, <1>4, <1>5, StepCases DEF NoTrade

\* Only ticks may be due before now.
NothingLate == \A e \in queue : e.kind # "tick" => e.ts >= clock

LEMMA TakenIsEarliest ==
    ASSUME TypeOK, Takes
    PROVE  \E e \in queue : /\ queue' = queue \ {e}
                            /\ clock' = e.ts
                            /\ clock' \in Nat
                            /\ \A f \in queue : e.ts <= f.ts
  BY DEF Takes, Take, Earliest, TypeOK

LEMMA NothingGetsLate ==
    ASSUME TypeOK, EventsOK, M!EngineInv, NothingLate, [Next]_vars
    PROVE  NothingLate'
<1>1. CASE UNCHANGED <<queue, clock>>
  BY <1>1 DEF NothingLate
<1>2. CASE Takes
  <2>1. PICK e \in queue : /\ queue' = queue \ {e}
                           /\ clock' = e.ts
                           /\ \A f \in queue : e.ts <= f.ts
    BY <1>2, TakenIsEarliest
  <2>2. \A f \in queue : f.ts \in Nat
    BY DEF TypeOK
  <2> QED
    BY <2>1, <2>2 DEF NothingLate
<1>3. CASE Sends
  <2>1. PICK kind, ts, what : Sent(kind, ts, what) /\ Push(kind, ts, what)
    BY <1>3 DEF Sends
  <2>2. PICK e : /\ e.kind = kind
                 /\ kind # "tick" => e.ts >= clock
                 /\ queue' = queue \cup {e}
    BY <2>1, SentEvent
  <2>3. clock' = clock
    BY <1>3 DEF Sends
  <2> QED
    BY <2>2, <2>3 DEF NothingLate
<1>4. CASE EngineFill
  <2>1. PICK pa \in DOMAIN orders, q \in Nat :
           /\ queue' = queue \cup { Report(aggressor, q, pushes["report"] + 1),
                                    Report(pa, q, pushes["report"] + 2) }
           /\ clock' = clock
    BY <1>4, TradeFacts
  <2>2. /\ Report(aggressor, q, pushes["report"] + 1).ts >= clock
        /\ Report(pa, q, pushes["report"] + 2).ts >= clock
    BY ReportFacts
  <2> QED
    BY <2>1, <2>2 DEF NothingLate
<1> QED
  BY <1>1, <1>2, <1>3, <1>4, StepCases DEF NoTrade

LEMMA ClockTypes ==
    ASSUME TypeOK, EventsOK, M!EngineInv, [Next]_vars
    PROVE  clock' \in Nat
<1>1. CASE clock' = clock
  BY <1>1 DEF TypeOK
<1>2. CASE Takes
  BY <1>2, TakenIsEarliest
<1>3. CASE EngineFill
  BY <1>1, <1>3, TradeFacts
<1> QED
  BY <1>1, <1>2, <1>3, StepCases DEF NoTrade, Sends

\* The clock goes back only where a tick was late.
LEMMA BackOnlyForTicks ==
    ASSUME TypeOK, EventsOK, M!EngineInv, NothingLate, [Next]_vars, clock' < clock
    PROVE  \E e \in queue \ queue' : e.kind = "tick"
<1>1. clock \in Nat
  BY DEF TypeOK
<1>2. clock' # clock
  BY <1>1
<1>3. Takes
  BY <1>2, StepCases, TradeFacts DEF NoTrade, Sends
<1>4. PICK e \in queue : queue' = queue \ {e} /\ clock' = e.ts
  BY <1>3, TakenIsEarliest
<1>5. e.ts \in Nat
  BY DEF TypeOK
<1>6. e.kind = "tick"
  BY <1>1, <1>4, <1>5 DEF NothingLate
<1> QED
  BY <1>4, <1>6

-----------------------------------------------------------------------------
(* The account and the reports                                             *)

\* Both sides of a trade together leave the position and pay the slippage twice.
LEMMA TradeEvens ==
    ASSUME TypeOK, M!EngineInv, EngineFill
    PROVE  /\ position' = position
           /\ \E pa \in DOMAIN orders, q \in Nat :
                 /\ aggressor \in DOMAIN orders /\ pa # aggressor
                 /\ orders[pa].sym = orders[aggressor].sym
                 /\ \/ orders[aggressor].side = "Buy" /\ orders[pa].side = "Sell"
                    \/ orders[aggressor].side = "Sell" /\ orders[pa].side = "Buy"
                 /\ DOMAIN orders' = DOMAIN orders
                 /\ orders'[aggressor].filled = orders[aggressor].filled + q
                 /\ orders'[pa].filled = orders[pa].filled + q
                 /\ \A id \in DOMAIN orders :
                       id # aggressor /\ id # pa => orders'[id].filled = orders[id].filled
                 /\ cash' = cash - Slippage * (q + q)
<1>1. PICK pa \in DOMAIN orders, q \in Nat :
         /\ aggressor \in DOMAIN orders /\ pa # aggressor
         /\ orders[aggressor].sym \in Symbols /\ level \in Nat
         /\ orders[pa].sym = orders[aggressor].sym
         /\ \/ orders[aggressor].side = "Buy" /\ orders[pa].side = "Sell"
            \/ orders[aggressor].side = "Sell" /\ orders[pa].side = "Buy"
         /\ DOMAIN orders' = DOMAIN orders
         /\ orders'[aggressor].filled = orders[aggressor].filled + q
         /\ orders'[pa].filled = orders[pa].filled + q
         /\ \A id \in DOMAIN orders :
               id # aggressor /\ id # pa => orders'[id].filled = orders[id].filled
         /\ position' = [position EXCEPT ![orders[aggressor].sym] =
                @ + Signed(orders[aggressor].side, q) + Signed(orders[pa].side, q)]
         /\ cash' = cash - Paid(orders[aggressor].side, level, q)
                         - Paid(orders[pa].side, level, q)
  BY TradeFacts
<1>2. position \in [Symbols -> Int] /\ cash \in Int /\ Slippage \in Nat
  BY SimulatorAssumption DEF TypeOK
<1>3. position' = position
  <2> DEFINE sym == orders[aggressor].sym
             v == position[sym] + Signed(orders[aggressor].side, q) + Signed(orders[pa].side, q)
  <2>1. position[sym] \in Int /\ sym \in Symbols
    BY <1>1, <1>2
  <2>2. v = position[sym]
    BY <1>1, <2>1 DEF Signed
  <2>3. position' = [position EXCEPT ![sym] = v]
    BY <1>1
  <2> HIDE DEF v, sym
  <2> QED
    BY <1>2, <2>1, <2>2, <2>3
<1>4. cash' = cash - Slippage * (q + q)
  <2> DEFINE a == Paid(orders[aggressor].side, level, q)
             b == Paid(orders[pa].side, level, q)
  <2>1. a \in Int /\ b \in Int /\ a + b = Slippage * (q + q)
    <3>1. \A l, n, t \in Nat : /\ (l + t) * n \in Int /\ (t - l) * n \in Int
                              /\ (l + t) * n + (t - l) * n = t * (n + n)
      OBVIOUS
    <3>2. /\ (level + Slippage) * q \in Int /\ (Slippage - level) * q \in Int
          /\ (level + Slippage) * q + (Slippage - level) * q = Slippage * (q + q)
      BY <1>1, <1>2, <3>1
    <3> QED
      BY <1>1, <3>2 DEF Paid
  <2>2. cash' = cash - a - b
    BY <1>1
  <2> HIDE DEF a, b
  <2> QED
    BY <1>2, <2>1, <2>2
<1> QED
  BY <1>1, <1>3, <1>4

LEMMA FilledFacts ==
    ASSUME M!EngineInv
    PROVE  \A id \in DOMAIN orders : Filled[id] = orders[id].filled /\ Filled[id] \in Int
  BY OrderIds DEF Filled

LEMMA NewIds ==
    ASSUME M!EngineInv'
    PROVE  /\ IsFiniteSet(DOMAIN orders')
           /\ \A id \in DOMAIN orders' : id \in 1 .. MaxOrders
<1>1. orders' \in Seq(M!Order') /\ Len(orders') <= MaxOrders
  BY DEF M!EngineInv, M!TypeOK
<1>2. DOMAIN orders' = 1 .. Len(orders') /\ Len(orders') \in Nat
  BY <1>1, LenProperties
<1>3. MaxOrders \in Nat
  BY Assumed DEF M!ConstantsAssumption
<1> QED
  BY <1>1, <1>2, <1>3, FS_Interval

\* A sum to which only zeros are added.
LEMMA ZerosAdded ==
    ASSUME NEW D, IsFiniteSet(D), NEW E, IsFiniteSet(E), \A x \in D : x \in E,
           NEW f, \A x \in D : f[x] \in Int,
           NEW g, \A x \in D : g[x] = f[x], \A x \in E : x \notin D => g[x] = 0
    PROVE  SumFunctionOnSet(g, E) = SumFunctionOnSet(f, D)
<1> DEFINE New == E \ D
<1>1. E = D \cup New
  OBVIOUS
<1>2. IsFiniteSet(New) /\ D \cap New = {} /\ \A x \in New : g[x] = 0
  BY FS_Subset
<1>3. \A x \in D \cup New : g[x] \in Int
  BY <1>2
<1> HIDE DEF New
<1>4. SumFunctionOnSet(g, D) = SumFunctionOnSet(f, D) /\ SumFunctionOnSet(f, D) \in Int
  BY SumEqual, SumType
<1>5. SumFunctionOnSet(g, New) = 0
  BY <1>2, SumZero
<1>6. SumFunctionOnSet(g, D \cup New) = SumFunctionOnSet(g, D) + SumFunctionOnSet(g, New)
  BY <1>2, <1>3, SumDisjoint
<1>7. SumFunctionOnSet(g, E) = SumFunctionOnSet(g, D \cup New)
  BY <1>1, Zenon
<1> QED
  BY <1>4, <1>5, <1>6, <1>7

\* A sum of which two terms change.
LEMMA TwoChanged ==
    ASSUME NEW D, IsFiniteSet(D), NEW f, \A x \in D : f[x] \in Int,
           NEW a \in D, NEW b \in D, a # b, NEW u \in Int, NEW v \in Int,
           NEW g, g[a] = f[a] + u, g[b] = f[b] + v,
           \A x \in D : x # a /\ x # b => g[x] = f[x]
    PROVE  /\ SumFunctionOnSet(f, D) \in Int
           /\ SumFunctionOnSet(g, D) = SumFunctionOnSet(f, D) + (u + v)
<1> DEFINE h == [x \in D |-> IF x = a THEN f[a] + u ELSE f[x]]
<1>1. /\ h[a] = f[a] + u
      /\ \A x \in D : x # a => h[x] = f[x]
  OBVIOUS
<1>2. /\ g[b] = h[b] + v
      /\ \A x \in D : x # b => g[x] = h[x]
  BY <1>1
<1> HIDE DEF h
<1>3. \A x \in D : h[x] \in Int
  BY <1>1
<1>4. h[a] \in Int /\ g[b] \in Int /\ f[a] \in Int /\ h[b] \in Int
  BY <1>2, <1>3
<1>5. SumFunctionOnSet(h, D) = SumFunctionOnSet(f, D) - f[a] + h[a]
  BY <1>1, <1>4, SumUpdate
<1>6. SumFunctionOnSet(g, D) = SumFunctionOnSet(h, D) - h[b] + g[b]
  BY <1>2, <1>3, <1>4, SumUpdate
<1>7. SumFunctionOnSet(f, D) \in Int
  BY SumType
<1> QED
  BY <1>1, <1>2, <1>4, <1>5, <1>6, <1>7

\* What each order of a symbol has added to the position.
Shares(sym) ==
    [id \in DOMAIN orders |->
        IF orders[id].sym = sym THEN Signed(orders[id].side, Filled[id]) ELSE 0]

LEMMA NetView ==
    ASSUME NEW sym
    PROVE  /\ Net(sym, Filled) = SumFunctionOnSet(Shares(sym), DOMAIN orders)
           /\ Net(sym, Filled)' = SumFunctionOnSet(Shares(sym)', DOMAIN orders')
<1>1. DOMAIN Shares(sym) = DOMAIN orders /\ DOMAIN Shares(sym)' = DOMAIN orders'
  BY DEF Shares
<1>2. /\ Net(sym, Filled) = SumFunctionOnSet(Shares(sym), DOMAIN Shares(sym))
      /\ Net(sym, Filled)' = SumFunctionOnSet(Shares(sym)', DOMAIN Shares(sym)')
  BY DEF Net, SumFunction, Shares
<1> QED
  BY <1>1, <1>2, Zenon

LEMMA SharesFacts ==
    ASSUME M!EngineInv, NEW sym
    PROVE  \A id \in DOMAIN orders :
              /\ Shares(sym)[id] = IF orders[id].sym = sym
                                  THEN Signed(orders[id].side, orders[id].filled) ELSE 0
              /\ Shares(sym)[id] \in Int
<1>1. \A id \in DOMAIN orders : Filled[id] = orders[id].filled /\ orders[id].filled \in Nat
  BY OrderIds, FilledFacts
<1> QED
  BY <1>1 DEF Shares, Signed

\* Without a trade nothing is added up anew.
LEMMA SumsStay ==
    ASSUME M!EngineInv, [M!Next]_M!vars, ~ M!Fill
    PROVE  /\ SumFunctionOnSet(Filled, DOMAIN orders)' = SumFunctionOnSet(Filled, DOMAIN orders)
           /\ \A sym \in Symbols : Net(sym, Filled)' = Net(sym, Filled)
<1> DEFINE D == DOMAIN orders
           E == DOMAIN orders'
<1>1. IsFiniteSet(D) /\ IsFiniteSet(E) /\ \A id \in D : id \in E
  BY EngineStays, NewIds, OrderIds, FilledStays
<1>2. /\ \A id \in D : orders'[id].filled = orders[id].filled
      /\ \A id \in E : id \notin D => orders'[id].filled = 0
  BY FilledStays
<1>3. ASSUME NEW id \in D
      PROVE  orders'[id].sym = orders[id].sym /\ orders'[id].side = orders[id].side
  <2>1. M!PricesAssumption /\ M!ConstantsAssumption
    BY Assumed
  <2> QED
    BY <2>1, M!OrdersKeepPlace
<1>4. SumFunctionOnSet(Filled', E) = SumFunctionOnSet(Filled, D)
  <2> DEFINE f == Filled
             g == Filled'
  <2>1. \A id \in D : f[id] \in Int
    BY FilledFacts
  <2>2. /\ \A id \in D : g[id] = f[id]
        /\ \A id \in E : id \notin D => g[id] = 0
    BY <1>1, <1>2 DEF Filled
  <2> HIDE DEF f, g, D, E
  <2>3. SumFunctionOnSet(g, E) = SumFunctionOnSet(f, D)
    BY <1>1, <2>1, <2>2, ZerosAdded
  <2> QED
    BY <2>3 DEF f, g
<1>5. ASSUME NEW sym \in Symbols PROVE Net(sym, Filled)' = Net(sym, Filled)
  <2> DEFINE f == Shares(sym)
             g == Shares(sym)'
  <2>1. \A id \in D : f[id] \in Int
    BY SharesFacts
  <2>2. /\ \A id \in D : g[id] = f[id]
        /\ \A id \in E : id \notin D => g[id] = 0
    BY <1>1, <1>2, <1>3 DEF Shares, Filled, Signed
  <2> HIDE DEF f, g, D, E
  <2>3. SumFunctionOnSet(g, E) = SumFunctionOnSet(f, D)
    BY <1>1, <2>1, <2>2, ZerosAdded
  <2> QED
    BY <2>3, NetView DEF f, g, D, E
<1> QED
  BY <1>4, <1>5

\* A trade adds as much to one order of a symbol as to another on the other side.
LEMMA SumsAfterTrade ==
    ASSUME M!EngineInv, NEW a \in DOMAIN orders, NEW b \in DOMAIN orders, a # b,
           NEW q \in Nat, DOMAIN orders' = DOMAIN orders,
           orders[b].sym = orders[a].sym,
           \/ orders[a].side = "Buy" /\ orders[b].side = "Sell"
           \/ orders[a].side = "Sell" /\ orders[b].side = "Buy",
           \A id \in DOMAIN orders : /\ orders'[id].sym = orders[id].sym
                                     /\ orders'[id].side = orders[id].side,
           orders'[a].filled = orders[a].filled + q,
           orders'[b].filled = orders[b].filled + q,
           \A id \in DOMAIN orders : id # a /\ id # b => orders'[id].filled = orders[id].filled
    PROVE  /\ SumFunctionOnSet(Filled, DOMAIN orders) \in Int
           /\ SumFunctionOnSet(Filled, DOMAIN orders)'
                = SumFunctionOnSet(Filled, DOMAIN orders) + (q + q)
           /\ \A sym \in Symbols : Net(sym, Filled)' = Net(sym, Filled)
<1> DEFINE D == DOMAIN orders
<1>1. IsFiniteSet(D) /\ \A id \in D : orders[id].filled \in Nat
  BY OrderIds
<1>2. /\ SumFunctionOnSet(Filled, D) \in Int
      /\ SumFunctionOnSet(Filled', DOMAIN orders') = SumFunctionOnSet(Filled, D) + (q + q)
  <2> DEFINE f == Filled
             g == Filled'
  <2>1. \A id \in D : f[id] \in Int
    BY FilledFacts
  <2>2. /\ g[a] = f[a] + q /\ g[b] = f[b] + q
        /\ \A id \in D : id # a /\ id # b => g[id] = f[id]
    BY DEF Filled
  <2>3. a \in D /\ b \in D /\ q \in Int
    OBVIOUS
  <2> HIDE DEF f, g, D
  <2>4. /\ SumFunctionOnSet(f, D) \in Int
        /\ SumFunctionOnSet(g, D) = SumFunctionOnSet(f, D) + (q + q)
    BY <1>1, <2>1, <2>2, <2>3, TwoChanged
  <2>5. SumFunctionOnSet(g, DOMAIN orders') = SumFunctionOnSet(g, D)
    BY Zenon DEF D
  <2> QED
    BY <2>4, <2>5 DEF f, g
<1>3. ASSUME NEW sym \in Symbols PROVE Net(sym, Filled)' = Net(sym, Filled)
  <2> DEFINE f == Shares(sym)
             g == Shares(sym)'
             u == IF orders[a].sym = sym THEN Signed(orders[a].side, q) ELSE 0
             v == IF orders[a].sym = sym THEN Signed(orders[b].side, q) ELSE 0
  <2>1. \A id \in D : /\ f[id] = IF orders[id].sym = sym
                                  THEN Signed(orders[id].side, orders[id].filled) ELSE 0
                      /\ f[id] \in Int
    BY SharesFacts
  <2>2. \A id \in D : g[id] = IF orders[id].sym = sym
                               THEN Signed(orders[id].side, orders'[id].filled) ELSE 0
    BY DEF Shares, Filled
  <2>3. u \in Int /\ v \in Int /\ u + v = 0
    BY DEF Signed
  <2>4. g[a] = f[a] + u /\ g[b] = f[b] + v
    BY <1>1, <2>1, <2>2 DEF Signed
  <2>5. \A id \in D : id # a /\ id # b => g[id] = f[id]
    BY <2>1, <2>2
  <2>6. a \in D /\ b \in D /\ \A id \in D : f[id] \in Int
    BY <2>1
  <2> HIDE DEF f, g, u, v, D
  <2>7. /\ SumFunctionOnSet(f, D) \in Int
        /\ SumFunctionOnSet(g, D) = SumFunctionOnSet(f, D) + (u + v)
    BY <1>1, <2>3, <2>4, <2>5, <2>6, TwoChanged
  <2>8. SumFunctionOnSet(g, DOMAIN orders') = SumFunctionOnSet(g, D)
    BY Zenon DEF D
  <2>9. SumFunctionOnSet(g, DOMAIN orders') = SumFunctionOnSet(f, D)
    BY <2>3, <2>7, <2>8
  <2> QED
    BY <2>9, NetView DEF f, g, D
<1> QED
  BY <1>2, <1>3 DEF D

LEMMA AccountStays ==
    ASSUME TypeOK, EventsOK, M!EngineInv, AccountMatchesFills, [Next]_vars
    PROVE  AccountMatchesFills'
<1> DEFINE Total == SumFunctionOnSet(Filled, DOMAIN orders)
<1>1. /\ \A sym \in Symbols : position[sym] = Net(sym, Filled)
      /\ cash = InitialCapital - Slippage * Total
  BY DEF AccountMatchesFills
<1>2. CASE EngineFill
  <2>1. PICK pa \in DOMAIN orders, q \in Nat :
           /\ aggressor \in DOMAIN orders /\ pa # aggressor
           /\ orders[pa].sym = orders[aggressor].sym
           /\ \/ orders[aggressor].side = "Buy" /\ orders[pa].side = "Sell"
              \/ orders[aggressor].side = "Sell" /\ orders[pa].side = "Buy"
           /\ DOMAIN orders' = DOMAIN orders
           /\ orders'[aggressor].filled = orders[aggressor].filled + q
           /\ orders'[pa].filled = orders[pa].filled + q
           /\ \A id \in DOMAIN orders :
                 id # aggressor /\ id # pa => orders'[id].filled = orders[id].filled
           /\ cash' = cash - Slippage * (q + q)
    BY <1>2, TradeEvens
  <2>2. ASSUME NEW id \in DOMAIN orders
        PROVE  orders'[id].sym = orders[id].sym /\ orders'[id].side = orders[id].side
    <3>1. M!PricesAssumption /\ M!ConstantsAssumption /\ [M!Next]_M!vars
      BY Assumed, StepCases
    <3> QED
      BY <3>1, M!OrdersKeepPlace
  <2>3. /\ Total \in Int /\ Total' = Total + (q + q)
        /\ \A sym \in Symbols : Net(sym, Filled)' = Net(sym, Filled)
    BY <2>1, <2>2, SumsAfterTrade
  <2>4. position' = position
    BY <1>2, TradeEvens
  <2>5. \A sym \in Symbols : position'[sym] = Net(sym, Filled)'
    BY <1>1, <2>3, <2>4
  <2> HIDE DEF Total
  <2>6. Slippage \in Nat /\ InitialCapital \in Nat /\ q + q \in Nat
    BY SimulatorAssumption
  <2>7. Slippage * (Total + (q + q)) = Slippage * Total + Slippage * (q + q)
    <3>1. \A s, n \in Nat, t \in Int : s * (t + n) = s * t + s * n
      OBVIOUS
    <3> QED
      BY <2>3, <2>6, <3>1
  <2>8. Slippage * Total \in Int /\ Slippage * (q + q) \in Int
    BY <2>3, <2>6
  <2>9. cash' = InitialCapital - Slippage * Total'
    BY <1>1, <2>1, <2>3, <2>6, <2>7, <2>8
  <2> QED
    BY <2>5, <2>9 DEF AccountMatchesFills, Total
<1>3. CASE NoTrade
  <2>1. Total' = Total /\ \A sym \in Symbols : Net(sym, Filled)' = Net(sym, Filled)
    BY <1>3, StepCases, SumsStay DEF NoTrade
  <2>2. position' = position /\ cash' = cash
    BY <1>3 DEF NoTrade, account
  <2> QED
    BY <1>1, <2>1, <2>2 DEF AccountMatchesFills
<1> QED
  BY <1>2, <1>3, StepCases

LEMMA AccountTypes ==
    ASSUME TypeOK, EventsOK, M!EngineInv, [Next]_vars
    PROVE  position' \in [Symbols -> Int] /\ cash' \in Int
<1>1. position \in [Symbols -> Int] /\ cash \in Int /\ Slippage \in Nat
  BY SimulatorAssumption DEF TypeOK
<1>2. CASE NoTrade
  BY <1>1, <1>2 DEF NoTrade, account
<1>3. CASE EngineFill
  <2>1. position' = position /\ \E q \in Nat : cash' = cash - Slippage * (q + q)
    BY <1>3, TradeEvens
  <2>2. \A s, q \in Nat, c \in Int : c - s * (q + q) \in Int
    OBVIOUS
  <2> QED
    BY <1>1, <2>1, <2>2
<1> QED
  BY <1>2, <1>3, StepCases

\* The quantities that a set of reports tells.
Told(R) == SumFunctionOnSet([e \in R |-> e.what.qty], R)

LEMMA ReportsView ==
    ReportsMatchFills <=>
        \A id \in DOMAIN orders : reported[id] + Told(OnTheWay(id)) = orders[id].filled
  BY DEF ReportsMatchFills, Told

LEMMA ReportsViewNext ==
    ReportsMatchFills' <=>
        \A id \in DOMAIN orders' : reported'[id] + Told(OnTheWay(id)') = orders'[id].filled
  BY DEF ReportsMatchFills, Told

LEMMA ToldMore ==
    ASSUME NEW R, IsFiniteSet(R), \A e \in R : e.what.qty \in Nat,
           NEW x, x \notin R, x.what.qty \in Nat
    PROVE  /\ Told(R) \in Int
           /\ Told(R \cup {x}) = Told(R) + x.what.qty
<1> DEFINE f == [e \in R |-> e.what.qty]
           S == R \cup {x}
           g == [e \in S |-> e.what.qty]
<1>1. /\ \A e \in R : f[e] \in Int /\ g[e] = f[e]
      /\ g[x] = x.what.qty
      /\ \A e \in R \cup {x} : g[e] \in Int
  OBVIOUS
<1>2. Told(R) = SumFunctionOnSet(f, R) /\ Told(S) = SumFunctionOnSet(g, S)
  BY DEF Told
<1> HIDE DEF f, g
<1>3. SumFunctionOnSet(f, R) \in Int
  BY <1>1, SumType
<1>4. SumFunctionOnSet(g, R) = SumFunctionOnSet(f, R)
  BY <1>1, SumEqual
<1>5. SumFunctionOnSet(g, R \cup {x}) = g[x] + SumFunctionOnSet(g, R)
  BY <1>1, SumAdd
<1> QED
  BY <1>1, <1>2, <1>3, <1>4, <1>5

LEMMA ToldNothing == Told({}) = 0
  BY SumEmpty DEF Told

\* The reports on their way are finitely many, of numbers, and about known orders.
LEMMA WayFacts ==
    ASSUME EventsOK, NEW id
    PROVE  /\ IsFiniteSet(OnTheWay(id))
           /\ \A e \in OnTheWay(id) : e.what.qty \in Nat
           /\ id \notin DOMAIN orders => OnTheWay(id) = {}
<1>1. OnTheWay(id) \subseteq queue /\ IsFiniteSet(queue)
  BY DEF OnTheWay, EventsOK
<1>2. IsFiniteSet(OnTheWay(id))
  BY <1>1, FS_Subset
<1> QED
  BY <1>2 DEF OnTheWay, EventsOK

\* Nothing has been told about an order that does not exist yet.
Unsent == \A id \in 1 .. MaxOrders : id \notin DOMAIN orders => reported[id] = 0

\* A step that trades nothing and tells nothing leaves both sides of the balance.
LEMMA BalanceStays ==
    ASSUME TypeOK, EventsOK, M!EngineInv, Unsent, ReportsMatchFills,
           [M!Next]_M!vars, ~ M!Fill, reported' = reported,
           \A id : OnTheWay(id)' = OnTheWay(id)
    PROVE  ReportsMatchFills' /\ Unsent'
<1>1. /\ \A id \in DOMAIN orders :
            id \in DOMAIN orders' /\ orders'[id].filled = orders[id].filled
      /\ \A id \in DOMAIN orders' : id \notin DOMAIN orders => orders'[id].filled = 0
  BY FilledStays
<1>2. \A id \in DOMAIN orders' : id \in 1 .. MaxOrders
  BY EngineStays, NewIds
<1>3. ASSUME NEW id \in DOMAIN orders'
      PROVE  reported'[id] + Told(OnTheWay(id)') = orders'[id].filled
  <2>1. Told(OnTheWay(id)') = Told(OnTheWay(id))
    <3>1. OnTheWay(id)' = OnTheWay(id)
      OBVIOUS
    <3> QED
      BY <3>1, Zenon
  <2>2. CASE id \in DOMAIN orders
    BY <1>1, <2>1, <2>2, ReportsView
  <2>3. CASE id \notin DOMAIN orders
    <3>1. reported[id] = 0
      BY <1>2, <2>3 DEF Unsent
    <3>2. Told(OnTheWay(id)) = 0
      <4>1. OnTheWay(id) = {}
        BY <2>3, WayFacts
      <4> QED
        BY <4>1, ToldNothing, Zenon
    <3> QED
      BY <1>1, <2>1, <2>3, <3>1, <3>2
  <2> QED
    BY <2>2, <2>3
<1>4. Unsent'
  BY <1>1 DEF Unsent
<1> QED
  BY <1>3, <1>4, ReportsViewNext

\* A report that arrives moves its quantity from the way to the strategy.
LEMMA BalanceAfterReport ==
    ASSUME TypeOK, EventsOK, M!EngineInv, Unsent, ReportsMatchFills,
           UNCHANGED engineVars, NEW e \in queue, e.kind = "report",
           queue' = queue \ {e},
           reported' = [reported EXCEPT ![e.what.id] = @ + e.what.qty]
    PROVE  ReportsMatchFills' /\ Unsent'
<1>1. orders' = orders
  BY DEF engineVars
<1>2. /\ e.what.id \in DOMAIN orders /\ e.what.qty \in Nat
      /\ e.what.id \in 1 .. MaxOrders
  BY OrderIds DEF EventsOK
<1>3. reported \in [1 .. MaxOrders -> Nat]
  BY DEF TypeOK
<1>4. Unsent'
  BY <1>1, <1>2, <1>3 DEF Unsent
<1>5. ASSUME NEW id \in DOMAIN orders
      PROVE  reported'[id] + Told(OnTheWay(id)') = orders[id].filled
  <2>1. reported[id] + Told(OnTheWay(id)) = orders[id].filled
    BY ReportsView
  <2>2. id \in 1 .. MaxOrders /\ reported[id] \in Nat
    BY <1>3, OrderIds
  <2>3. CASE id # e.what.id
    <3>1. OnTheWay(id)' = OnTheWay(id)
      BY <2>3 DEF OnTheWay
    <3>2. Told(OnTheWay(id)') = Told(OnTheWay(id))
      BY <3>1, Zenon
    <3>3. reported'[id] = reported[id]
      BY <1>2, <1>3, <2>2, <2>3
    <3> QED
      BY <2>1, <3>2, <3>3
  <2>4. CASE id = e.what.id
    <3> DEFINE R == OnTheWay(id) \ {e}
    <3>1. OnTheWay(id)' = R
      BY DEF OnTheWay
    <3>2. e \in OnTheWay(id) /\ OnTheWay(id) = R \cup {e} /\ e \notin R
      BY <2>4 DEF OnTheWay
    <3>3. IsFiniteSet(R) /\ \A x \in R : x.what.qty \in Nat
      BY WayFacts, FS_RemoveElement
    <3> HIDE DEF R
    <3>4. Told(R) \in Int /\ Told(R \cup {e}) = Told(R) + e.what.qty
      BY <1>2, <3>2, <3>3, ToldMore
    <3>5. Told(OnTheWay(id)) = Told(R \cup {e}) /\ Told(OnTheWay(id)') = Told(R)
      BY <3>1, <3>2, Zenon
    <3>6. reported'[id] = reported[id] + e.what.qty
      BY <1>3, <2>2, <2>4
    <3> QED
      BY <1>2, <2>1, <2>2, <3>4, <3>5, <3>6
  <2> QED
    BY <2>3, <2>4
<1> QED
  BY <1>1, <1>4, <1>5, ReportsViewNext

\* A trade puts one report on the way for each of its two orders.
LEMMA BalanceAfterTrade ==
    ASSUME TypeOK, EventsOK, M!EngineInv, Unsent, ReportsMatchFills, EngineFill
    PROVE  ReportsMatchFills' /\ Unsent'
<1>1. PICK pa \in DOMAIN orders, q \in Nat :
         /\ aggressor \in DOMAIN orders /\ pa # aggressor
         /\ DOMAIN orders' = DOMAIN orders
         /\ orders'[aggressor].filled = orders[aggressor].filled + q
         /\ orders'[pa].filled = orders[pa].filled + q
         /\ \A id \in DOMAIN orders :
               id # aggressor /\ id # pa => orders'[id].filled = orders[id].filled
         /\ queue' = queue \cup { Report(aggressor, q, pushes["report"] + 1),
                                  Report(pa, q, pushes["report"] + 2) }
         /\ reported' = reported
  BY TradeFacts
<1>2. PICK a, b : /\ a = Report(aggressor, q, pushes["report"] + 1)
                  /\ b = Report(pa, q, pushes["report"] + 2)
  OBVIOUS
<1>3. /\ a.kind = "report" /\ a.what.id = aggressor /\ a.what.qty = q
      /\ a.n = pushes["report"] + 1
      /\ b.kind = "report" /\ b.what.id = pa /\ b.what.qty = q
      /\ b.n = pushes["report"] + 2
  BY <1>2, ReportFacts
<1>4. queue' = queue \cup {a, b}
  BY <1>1, <1>2
<1>5. a \notin queue /\ b \notin queue
  <2>1. pushes["report"] \in Nat
    BY DEF TypeOK, Kinds
  <2>2. \A e \in queue : e.kind = "report" => e.n \in 1 .. pushes["report"]
    BY DEF TypeOK
  <2> QED
    BY <1>3, <2>1, <2>2
<1>6. Unsent'
  BY <1>1 DEF Unsent
<1>7. reported \in [1 .. MaxOrders -> Nat]
  BY DEF TypeOK
<1>8. ASSUME NEW id \in DOMAIN orders
      PROVE  reported'[id] + Told(OnTheWay(id)') = orders'[id].filled
  <2> DEFINE R == OnTheWay(id)
  <2>1. reported[id] + Told(R) = orders[id].filled
    BY ReportsView
  <2>2. IsFiniteSet(R) /\ \A x \in R : x.what.qty \in Nat
    BY WayFacts
  <2>3. reported[id] \in Nat
    BY <1>7, OrderIds
  <2>4. ASSUME NEW x, x.what.qty = q, x \notin queue, OnTheWay(id)' = R \cup {x},
               orders'[id].filled = orders[id].filled + q
        PROVE  reported'[id] + Told(OnTheWay(id)') = orders'[id].filled
    <3>1. x \notin R
      BY <2>4 DEF OnTheWay
    <3> HIDE DEF R
    <3>2. Told(R) \in Int /\ Told(R \cup {x}) = Told(R) + q
      BY <2>2, <2>4, <3>1, ToldMore
    <3>3. Told(OnTheWay(id)') = Told(R \cup {x})
      BY <2>4, Zenon
    <3> QED
      BY <1>1, <2>1, <2>3, <2>4, <3>2, <3>3
  <2>5. CASE id = aggressor
    <3>1. OnTheWay(id)' = R \cup {a}
      BY <1>1, <1>3, <1>4, <2>5 DEF OnTheWay
    <3> QED
      BY <1>1, <1>3, <1>5, <2>4, <2>5, <3>1
  <2>6. CASE id = pa
    <3>1. OnTheWay(id)' = R \cup {b}
      BY <1>1, <1>3, <1>4, <2>6 DEF OnTheWay
    <3> QED
      BY <1>1, <1>3, <1>5, <2>4, <2>6, <3>1
  <2>7. CASE id # aggressor /\ id # pa
    <3>1. OnTheWay(id)' = R
      BY <1>3, <1>4, <2>7 DEF OnTheWay
    <3>2. Told(OnTheWay(id)') = Told(R)
      BY <3>1, Zenon
    <3> QED
      BY <1>1, <2>1, <2>7, <3>2
  <2> QED
    BY <2>5, <2>6, <2>7
<1> QED
  BY <1>1, <1>6, <1>8, ReportsViewNext

LEMMA BalanceKept ==
    ASSUME TypeOK, EventsOK, M!EngineInv, Unsent, ReportsMatchFills, [Next]_vars
    PROVE  ReportsMatchFills' /\ Unsent'
<1>1. CASE EngineFill
  BY <1>1, BalanceAfterTrade
<1>2. CASE NoTrade /\ UNCHANGED <<queue, reported>>
  <2>1. \A id : OnTheWay(id)' = OnTheWay(id)
    BY <1>2 DEF OnTheWay
  <2> QED
    BY <1>2, <2>1, StepCases, BalanceStays DEF NoTrade
<1>3. CASE NoTrade /\ Sends
  <2>1. PICK kind, ts, what : Sent(kind, ts, what) /\ Push(kind, ts, what)
    BY <1>3 DEF Sends
  <2>2. PICK e : /\ e.kind = kind
                 /\ kind \in {"tick", "submit", "cancel"}
                 /\ queue' = queue \cup {e}
    BY <2>1, SentEvent
  <2>3. \A id : OnTheWay(id)' = OnTheWay(id)
    BY <2>2 DEF OnTheWay
  <2>4. reported' = reported
    BY <1>3 DEF Sends
  <2> QED
    BY <1>3, <2>3, <2>4, StepCases, BalanceStays DEF NoTrade
<1>4. CASE NoTrade /\ Takes
  <2>1. PICK e \in queue :
           /\ queue' = queue \ {e}
           /\ IF e.kind = "report"
              THEN /\ reported' = [reported EXCEPT ![e.what.id] = @ + e.what.qty]
                   /\ UNCHANGED engineVars
              ELSE UNCHANGED reported
    BY <1>4 DEF Takes, Take
  <2>2. CASE e.kind = "report"
    BY <2>1, <2>2, BalanceAfterReport
  <2>3. CASE e.kind # "report"
    <3>1. \A id : OnTheWay(id)' = OnTheWay(id)
      BY <2>1, <2>3 DEF OnTheWay
    <3> QED
      BY <1>4, <2>1, <2>3, <3>1, StepCases, BalanceStays DEF NoTrade
  <2> QED
    BY <2>2, <2>3
<1> QED
  BY <1>1, <1>2, <1>3, <1>4, StepCases DEF NoTrade

LEMMA ReportedTypes ==
    ASSUME TypeOK, EventsOK, M!EngineInv, [Next]_vars
    PROVE  reported' \in [1 .. MaxOrders -> Nat]
<1>1. reported \in [1 .. MaxOrders -> Nat]
  BY DEF TypeOK
<1>2. CASE reported' = reported
  BY <1>1, <1>2
<1>3. CASE Takes /\ reported' # reported
  <2>1. PICK e \in queue :
           /\ e.kind = "report"
           /\ reported' = [reported EXCEPT ![e.what.id] = @ + e.what.qty]
    BY <1>3 DEF Takes
  <2>2. e.what.id \in 1 .. MaxOrders /\ e.what.qty \in Nat
    BY <2>1, OrderIds DEF EventsOK
  <2> QED
    BY <1>1, <2>1, <2>2
<1> QED
  BY <1>2, <1>3, StepCases, TradeFacts DEF NoTrade, Sends

-----------------------------------------------------------------------------
(* Theorems                                                                *)

\* The inductive invariant: what the engine, the queue, the account and the
\* strategy's knowledge have to do with each other.
SimulatorInv ==
    /\ TypeOK /\ EventsOK /\ M!EngineInv
    /\ NothingLate /\ Unsent /\ ReportsMatchFills /\ AccountMatchesFills

LEMMA InitSimulatorInv == Init => SimulatorInv
<1> SUFFICES ASSUME Init PROVE SimulatorInv
  OBVIOUS
<1>1. M!Init
  BY SameInit DEF Init
<1>2. M!EngineInv
  <2>1. M!PricesAssumption /\ M!ConstantsAssumption
    BY Assumed
  <2> QED
    BY <1>1, <2>1, M!InitEngineInv
<1>3. orders = <<>> /\ DOMAIN orders = {}
  BY <1>1 DEF M!Init
<1>4. /\ queue = {} /\ pushes = [kind \in Kinds |-> 0] /\ clock = 0
      /\ running = FALSE /\ until = Never /\ at = "outside"
      /\ position = [sym \in Symbols |-> 0] /\ cash = InitialCapital
      /\ reported = [id \in 1 .. MaxOrders |-> 0]
  BY DEF Init
<1>5. InitialCapital \in Nat /\ Slippage \in Nat
  BY SimulatorAssumption
<1>6. TypeOK
  <2>1. pushes \in [Kinds -> Nat] /\ position \in [Symbols -> Int]
    BY <1>4
  <2>2. cash \in Int /\ reported \in [1 .. MaxOrders -> Nat]
    BY <1>4, <1>5
  <2>3. running \in BOOLEAN /\ until \in Horizons \cup {Never} /\ clock \in Nat
    BY <1>4
  <2> QED
    BY <1>4, <2>1, <2>2, <2>3 DEF TypeOK
<1>7. EventsOK
  BY <1>4, FS_EmptySet DEF EventsOK
<1>8. NothingLate /\ Unsent
  BY <1>4 DEF NothingLate, Unsent
<1>9. ReportsMatchFills
  BY <1>3 DEF ReportsMatchFills
<1>10. AccountMatchesFills
  <2>1. SumFunctionOnSet(Filled, DOMAIN orders) = 0
    BY <1>3, SumEmpty, Zenon
  <2>2. ASSUME NEW sym \in Symbols PROVE Net(sym, Filled) = 0
    BY <1>3, NetView, SumEmpty, Zenon
  <2> QED
    BY <1>4, <1>5, <2>1, <2>2 DEF AccountMatchesFills
<1> QED
  BY <1>2, <1>6, <1>7, <1>8, <1>9, <1>10 DEF SimulatorInv

LEMMA NextSimulatorInv ==
    ASSUME SimulatorInv, [Next]_vars
    PROVE  SimulatorInv'
<1>1. /\ TypeOK /\ EventsOK /\ M!EngineInv
      /\ NothingLate /\ Unsent /\ ReportsMatchFills /\ AccountMatchesFills
  BY DEF SimulatorInv
<1>2. TypeOK'
  <2>1. PushTypes'
    BY <1>1, QueueTypes
  <2> QED
    BY <1>1, <2>1, ControlTypes, ClockTypes, AccountTypes, ReportedTypes
       DEF TypeOK, PushTypes
<1>3. EventsOK' /\ NothingLate'
  BY <1>1, EventsStayOK, NothingGetsLate
<1>4. M!EngineInv'
  BY <1>1, StepCases, EngineStays
<1>5. ReportsMatchFills' /\ Unsent'
  BY <1>1, BalanceKept
<1>6. AccountMatchesFills'
  BY <1>1, AccountStays
<1> QED
  BY <1>2, <1>3, <1>4, <1>5, <1>6 DEF SimulatorInv

\* Engine, event queue, account and reports agree in every reachable state.
THEOREM SimulatorIsConsistent == Spec => []SimulatorInv
<1>1. Init => SimulatorInv
  BY InitSimulatorInv
<1>2. SimulatorInv /\ [Next]_vars => SimulatorInv'
  BY NextSimulatorInv
<1> QED
  BY <1>1, <1>2, PTL DEF Spec

\* Every variable of the simulator keeps its type.
THEOREM SimulatorTypeCorrect == Spec => []TypeOK
<1>1. SimulatorInv => TypeOK
  BY DEF SimulatorInv
<1> QED
  BY <1>1, SimulatorIsConsistent, PTL

\* Every fill is reported once: what the strategy was told of an order and what
\* is on its way to it add up to what the engine filled.
THEOREM EveryFillIsReported == Spec => []ReportsMatchFills
<1>1. SimulatorInv => ReportsMatchFills
  BY DEF SimulatorInv
<1> QED
  BY <1>1, SimulatorIsConsistent, PTL

\* The account books every fill of every order once, on the order's side, at the moment
\* of the match, through cancels in the middle of a match and whatever is in flight:
\* position and cash are what the fills of the engine make them.
THEOREM AccountFollowsFills == Spec => []AccountMatchesFills
<1>1. SimulatorInv => AccountMatchesFills
  BY DEF SimulatorInv
<1> QED
  BY <1>1, SimulatorIsConsistent, PTL

\* Orders, cancels and reports never arrive before they were sent: the clock goes
\* back only for a tick.
THEOREM TimeMovesForward == Spec => TimeForward
<1> DEFINE Forward == clock' < clock => \E e \in queue \ queue' : e.kind = "tick"
<1>1. SimulatorInv /\ [Next]_vars => Forward
  BY BackOnlyForTicks DEF SimulatorInv
<1> QED
  BY <1>1, SimulatorIsConsistent, PTL DEF Spec, TimeForward

\* The simulator drives its engine as MatchingEngine allows, callbacks that
\* cancel included: what every behaviour of that module satisfies holds here.
THEOREM SimulatorRunsEngine == Spec => M!Spec
<1>1. Init => M!Init
  BY SameInit DEF Init
<1>2. SimulatorInv /\ [Next]_vars => [M!Next]_M!vars
  BY StepCases DEF SimulatorInv
<1> QED
  BY <1>1, <1>2, SimulatorIsConsistent, PTL DEF Spec, M!Spec

\* So the simulator's trades follow price-time priority, its levels are counted
\* right, and a fill-or-kill order is rejected only when the book is short of it.
THEOREM SimulatorTradesFairly ==
    Spec => M!PriceTimePriority /\ []M!TotalsMatchOrders /\ M!FokKilledOnlyIfShort
<1>1. M!PricesAssumption /\ M!ConstantsAssumption
  BY Assumed
<1>2. M!Spec => M!PriceTimePriority
  BY <1>1, M!PriorityHolds
<1>3. M!Spec => []M!TotalsMatchOrders
  BY <1>1, M!TotalsAreRight
<1>4. M!Spec => M!FokKilledOnlyIfShort
  BY <1>1, M!RejectedOnlyIfShort
<1> QED
  BY <1>2, <1>3, <1>4, SimulatorRunsEngine

=============================================================================
