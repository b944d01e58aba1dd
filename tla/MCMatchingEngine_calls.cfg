\* Calls one after another: price-time priority, limits, fill-or-kill.
SPECIFICATION Spec
CONSTANTS
  s1 = s1
  maker = maker
  None = None
  Symbols <- OneSymbol
  Prices = {1, 2}
  Quantities = {1, 2}
  Types = {"Market", "Limit", "FOK"}
  Strategies <- OneStrategy
  MaxOrders = 4
  Reentrant = FALSE
\* A behaviour stops once MaxOrders orders have been submitted and are done.
CHECK_DEADLOCK FALSE
INVARIANTS
  TypeOK
  BookMatchesOrders
  TotalsMatchOrders
  BookUncrossed
  FokAllOrNothing
  ImmediateOrdersEnd
PROPERTIES
  PriceTimePriority
  FillsWithinLimit
  TerminalIsFinal
  NothingLeftToTake
  FokKilledOnlyIfShort
