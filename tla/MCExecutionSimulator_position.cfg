\* The position against the fills that a strategy was told of.
SPECIFICATION FairSpec
CONSTANTS
  s1 = s1
  maker = maker
  None = None
  Symbols <- OneSymbol
  Strategies <- OneStrategy
  Prices = {1, 3}
  Quantities = {1, 2}
  Types = {"Limit"}
  MaxOrders = 2
  TickTimes = {1}
  Horizons = {1}
  Never = 100
  SubmitLatency = 1
  CancelLatency = 1
  TickLatency = 0
  FillLatency = 1
  InitialCapital = 1
  MaxNotional = 3
  ShortSelling = TRUE
  Margin = TRUE
  Slippage = 1
  MaxTicks = 1
  MaxCancels = 1
\* A behaviour may stop when nothing is left to send.
CHECK_DEADLOCK FALSE
INVARIANTS
  PositionFollowsReports
