\* Does every order type with a limit price trade within it?
SPECIFICATION Spec
CONSTANTS
  s1 = s1
  maker = maker
  None = None
  Symbols <- OneSymbol
  Prices = {1, 2}
  Quantities = {1, 2}
  Types = {"Limit", "IOC", "GTC"}
  Strategies <- OneStrategy
  MaxOrders = 3
  Reentrant = FALSE
\* A behaviour stops once MaxOrders orders have been submitted and are done.
CHECK_DEADLOCK FALSE
PROPERTIES
  LimitsHonoured
