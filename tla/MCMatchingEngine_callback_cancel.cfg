\* Is a fill-or-kill order all or nothing when a callback cancels?
SPECIFICATION Spec
CONSTANTS
  s1 = s1
  maker = maker
  None = None
  Symbols <- OneSymbol
  Prices = {1, 2}
  Quantities = {1, 2}
  Types = {"Limit", "FOK"}
  Strategies <- OneStrategy
  MaxOrders = 3
  Reentrant = TRUE
\* A behaviour stops once MaxOrders orders have been submitted and are done.
CHECK_DEADLOCK FALSE
INVARIANTS
  FokAllOrNothing
