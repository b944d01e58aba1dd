\* Callbacks that cancel orders while a match is under way.
SPECIFICATION FairSpec
CONSTANTS
  s1 = s1
  maker = maker
  None = None
  Symbols <- OneSymbol
  Prices = {1, 2}
  Quantities = {0, 1, 2}
  Types = {"IOC", "GTC", "StopLimit"}
  Strategies <- OneStrategy
  MaxOrders = 3
  Reentrant = TRUE
\* A behaviour stops once MaxOrders orders have been submitted and are done.
CHECK_DEADLOCK FALSE
INVARIANTS
  EngineInv
  TotalsMatchOrders
PROPERTIES
  PriceTimePriority
  EveryCallReturns
